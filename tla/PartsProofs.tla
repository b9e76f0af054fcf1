----------------------------- MODULE PartsProofs -----------------------------
(***************************************************************************)
(* Proofs about the components of Parts, for any goroutines, things and    *)
(* bounds: sockets, bindings, modules, file descriptors and calls, then    *)
(* the map table, hooks and the virtual file system, whose proofs are in   *)
(* modules of their own and are applied here.                              *)
(***************************************************************************)
EXTENDS Parts, FiniteSetTheorems, FunctionTheorems, SequenceTheorems, TLAPS

-----------------------------------------------------------------------------
(* Sockets                                                                  *)

AllSockets == Things \cup {First}

SocketShape ==
  /\ First \in sockets /\ sockets \subseteq AllSockets /\ address \subseteq sockets
  /\ listener = [s \in AllSockets |-> listener[s]]
  /\ connection = [s \in AllSockets |-> connection[s]]
  /\ socketCall = [k \in Goroutines |-> socketCall[k]]
  /\ \A k \in Goroutines :
       socketCall[k] = [step |-> socketCall[k].step, on |-> socketCall[k].on,
                        handle |-> socketCall[k].handle]
  /\ \A k \in Goroutines : socketCall[k].on \in sockets

(* HandlesGiven are numbers the host has given out *)
HandlesGiven == opened \in Nat /\ open \subseteq 1 .. opened

(* Nobody has used a socket that Accept has not returned yet *)
Fresh == \A s \in AllSockets \ sockets : listener[s] = 0 /\ connection[s] = 0

(* The calls of one socket follow each other, and a call that has looked at *)
(* the fields finds them so when it assigns: the guards still hold.         *)
Working == {"listen", "listening", "connect", "connected"}
OneCall ==
  \A k, j \in Goroutines :
    k # j /\ socketCall[k].step \in Working /\ socketCall[j].step \in Working =>
      socketCall[k].on # socketCall[j].on
GuardsHold ==
  \A k \in Goroutines :
    /\ socketCall[k].step \in {"idle", "accept"} \cup Working
    /\ socketCall[k].step \in Working =>
         listener[socketCall[k].on] = 0 /\ connection[socketCall[k].on] = 0
    /\ socketCall[k].step \in {"listen", "listening"} =>
         socketCall[k].on \in address
    /\ socketCall[k].step \in {"connect", "connected"} =>
         socketCall[k].on \notin address
    /\ socketCall[k].step \notin {"listening", "connected"} =>
         socketCall[k].handle = 0

SocketInv ==
  /\ SocketShape /\ HandlesGiven /\ Fresh /\ OneCall /\ GuardsHold
  /\ socket!OneRole /\ socket!Reachable

-----------------------------------------------------------------------------
(* An update of a call changes the call of one goroutine.                   *)
LEMMA SocketCallOf ==
  ASSUME SocketShape, NEW k \in Goroutines, NEW v,
         socketCall' = [socketCall EXCEPT ![k] = v]
  PROVE  /\ socketCall'[k] = v
         /\ \A j \in Goroutines \ {k} : socketCall'[j] = socketCall[j]
         /\ socketCall' = [j \in Goroutines |-> socketCall'[j]]
BY DEF SocketShape

(* A call that is idle when nobody works on s may begin to work on it.      *)
LEMMA SocketCallBegins ==
  ASSUME SocketInv, NEW k \in Goroutines, NEW s \in AllSockets, NEW step,
         socket!Enter(k, s, step), step \in {"listen", "connect", "accept"},
         step # "accept" => listener[s] = 0 /\ connection[s] = 0,
         step = "listen" => s \in address, step = "connect" => s \notin address
  PROVE  SocketInv'
<1> USE DEF SocketInv
<1> DEFINE v == [step |-> step, on |-> s, handle |-> 0]
<1>1. /\ UNCHANGED <<sockets, address, listener, connection, opened, open>>
      /\ s \in sockets /\ socketCall[k] = socket!Idle
      /\ \A j \in Goroutines : socketCall[j].on = s =>
           socketCall[j].step \in {"idle", "accept"}
      /\ socketCall' = [socketCall EXCEPT ![k] = v]
  BY DEF socket!Enter, socket!Free
<1>2. /\ socketCall'[k] = v
      /\ \A j \in Goroutines \ {k} : socketCall'[j] = socketCall[j]
      /\ socketCall' = [j \in Goroutines |-> socketCall'[j]]
  <2> HIDE DEF v
  <2>1. QED
    BY <1>1, SocketCallOf
<1>3. SocketShape'
  BY <1>1, <1>2 DEF SocketShape
<1>4. HandlesGiven' /\ Fresh' /\ socket!OneRole'
  BY <1>1 DEF HandlesGiven, Fresh, socket!OneRole
<1>5. OneCall'
  BY <1>1, <1>2 DEF OneCall, Working
<1>6. GuardsHold'
  BY <1>1, <1>2 DEF GuardsHold, Working
<1>7. socket!Reachable'
  <2>1. socketCall[k].handle = 0 /\ 0 \notin open
    BY <1>1 DEF socket!Idle, HandlesGiven
  <2>2. QED
    BY <1>1, <1>2, <2>1 DEF socket!Reachable, socket!Shuts
<1>8. QED
  BY <1>3, <1>4, <1>5, <1>6, <1>7

(* A handle the host gives out is new.                                      *)
LEMMA GivesOut ==
  ASSUME HandlesGiven, opened' = opened + 1, open' = open \cup {opened'}
  PROVE  HandlesGiven' /\ opened' \notin open /\ opened' # 0
<1>1. opened' \in Nat \ {0} /\ opened' \notin open
  BY DEF HandlesGiven
<1>2. ASSUME NEW g \in open' PROVE g \in 1 .. opened'
  <2>1. CASE g \in open
    BY <2>1 DEF HandlesGiven
  <2>2. CASE g = opened'
    BY <1>1, <2>2
  <2>3. QED
    BY <2>1, <2>2
<1>3. QED
  BY <1>1, <1>2 DEF HandlesGiven

(* A goroutine whose call is over has none.                                 *)
LEMMA SocketCallEnds ==
  ASSUME SocketShape, NEW k \in Goroutines,
         socketCall' = [socketCall EXCEPT ![k] = socket!Idle]
  PROVE  /\ socketCall'[k] = socket!Idle
         /\ \A j \in Goroutines \ {k} : socketCall'[j] = socketCall[j]
         /\ socketCall' = [j \in Goroutines |-> socketCall'[j]]
<1> HIDE DEF socket!Idle
<1>1. QED
  BY SocketCallOf

LEMMA Binds ==
  ASSUME SocketInv, NEW s \in AllSockets, socket!Bind(s)
  PROVE  SocketInv'
<1>1. SocketShape' /\ HandlesGiven' /\ Fresh' /\ OneCall' /\ socket!OneRole'
      /\ socket!Reachable'
  BY DEF SocketInv, socket!Bind, SocketShape, HandlesGiven, Fresh, OneCall,
         socket!OneRole, socket!Reachable, socket!Shuts
<1>2. GuardsHold'
  BY DEF SocketInv, socket!Bind, socket!Free, GuardsHold, Working
<1>3. QED
  BY <1>1, <1>2 DEF SocketInv

LEMMA Closes ==
  ASSUME SocketInv, NEW s \in AllSockets, socket!Close(s)
  PROVE  SocketInv'
<1>1. open' \subseteq open
      /\ UNCHANGED <<sockets, address, listener, connection, opened, socketCall>>
  BY DEF socket!Close
<1>2. HandlesGiven' /\ socket!Reachable'
  BY <1>1 DEF SocketInv, HandlesGiven, socket!Reachable, socket!Shuts
<1>3. SocketShape' /\ Fresh' /\ OneCall' /\ GuardsHold' /\ socket!OneRole'
  BY <1>1 DEF SocketInv, SocketShape, Fresh, OneCall, GuardsHold, socket!OneRole
<1>4. QED
  BY <1>2, <1>3 DEF SocketInv

(* The host's answer is in the hands of the call, whether it is a handle or *)
(* nil; the call works on, and on the same socket.                          *)
LEMMA HostAnswers ==
  ASSUME SocketInv, NEW k \in Goroutines, socket!Dials(k)
  PROVE  SocketInv'
<1> USE DEF SocketInv
<1>1. PICK from, to : /\ socket!Opens(k, from, to)
                         /\ UNCHANGED <<sockets, address, listener, connection>>
                      /\ \/ from = "listen" /\ to = "listening"
                         \/ from = "connect" /\ to = "connected"
  BY DEF socket!Dials
<1> DEFINE h == socketCall'[k].handle
           v == [socketCall[k] EXCEPT !.step = to]
           w == [step |-> to, on |-> socketCall[k].on, handle |-> opened']
<1>2. socketCall[k].step = from /\ socketCall[k].handle = 0
  BY <1>1 DEF socket!Opens, GuardsHold
<1>3. /\ \/ socketCall' = [socketCall EXCEPT ![k] = v] /\ UNCHANGED <<opened, open>>
         \/ /\ socketCall' = [socketCall EXCEPT ![k] = w]
            /\ opened' = opened + 1 /\ open' = open \cup {opened'}
      /\ DOMAIN socketCall = Goroutines
  BY <1>1 DEF socket!Opens, SocketShape
<1>4. v = [step |-> to, on |-> socketCall[k].on, handle |-> 0]
  <2>1. socketCall[k] = [step |-> socketCall[k].step, on |-> socketCall[k].on,
                         handle |-> socketCall[k].handle]
    BY DEF SocketShape
  <2>2. QED
    BY <1>2, <2>1
<1>5. /\ socketCall'[k] = v \/ socketCall'[k] = w
      /\ \A j \in Goroutines \ {k} : socketCall'[j] = socketCall[j]
      /\ socketCall' = [j \in Goroutines |-> socketCall'[j]]
  <2> HIDE DEF v, w
  <2>1. QED
    BY <1>3, SocketCallOf
<1>6. /\ socketCall'[k] = [step |-> to, on |-> socketCall[k].on, handle |-> h]
      /\ \/ h = 0 /\ UNCHANGED <<opened, open>>
         \/ h = opened + 1 /\ opened' = h /\ open' = open \cup {h}
  <2>1. CASE socketCall' = [socketCall EXCEPT ![k] = v]
             /\ UNCHANGED <<opened, open>>
    <3>1. socketCall'[k] = v
      BY <1>3, <2>1
    <3>2. QED
      BY <1>4, <2>1, <3>1
  <2>2. CASE /\ socketCall' = [socketCall EXCEPT ![k] = w]
             /\ opened' = opened + 1 /\ open' = open \cup {opened'}
    <3>1. socketCall'[k] = w
      BY <1>3, <2>2
    <3>2. QED
      BY <2>2, <3>1
  <2>3. QED
    BY <1>3, <2>1, <2>2
<1> HIDE DEF v, w, h
<1>7. SocketShape'
  BY <1>1, <1>5, <1>6 DEF SocketShape
<1>8. Fresh' /\ socket!OneRole' /\ HandlesGiven'
  <2>1. Fresh' /\ socket!OneRole'
    BY <1>1 DEF Fresh, socket!OneRole
  <2>2. HandlesGiven'
    BY <1>3, GivesOut DEF HandlesGiven
  <2>3. QED
    BY <2>1, <2>2
<1>9. OneCall'
  BY <1>1, <1>2, <1>5, <1>6 DEF OneCall, Working
<1>10. GuardsHold'
  BY <1>1, <1>2, <1>5, <1>6 DEF GuardsHold, Working
<1>11. socket!Reachable'
  <2>1. h \in open' => socketCall'[k].handle = h
    BY <1>6
  <2>2. \A g \in open : g # socketCall[k].handle
    BY <1>2 DEF HandlesGiven
  <2>3. QED
    BY <1>1, <1>5, <1>6, <2>1, <2>2 DEF socket!Reachable, socket!Shuts
<1>12. QED
  BY <1>7, <1>8, <1>9, <1>10, <1>11

(* Listen assigns to a socket that still has neither listener nor           *)
(* connection, so what it opened takes the place of nothing.                *)
LEMMA ListenAssigns ==
  ASSUME SocketInv, NEW k \in Goroutines, socket!ListenReturns(k)
  PROVE  SocketInv'
<1> USE DEF SocketInv
<1>1. PICK s : s = socketCall[k].on
  OBVIOUS
<1>2. /\ s \in sockets /\ s \in AllSockets /\ s \in address /\ listener[s] = 0
      /\ connection[s] = 0
      /\ listener' = [listener EXCEPT ![s] = socketCall[k].handle]
      /\ UNCHANGED <<sockets, address, connection, opened, open>>
      /\ \A j \in Goroutines \ {k} : socketCall[j].step \in Working =>
           socketCall[j].on # s
      /\ 0 \notin open /\ socketCall' = [socketCall EXCEPT ![k] = socket!Idle]
  BY <1>1 DEF socket!ListenReturns, SocketShape, GuardsHold, OneCall, Working,
     HandlesGiven
<1>3. /\ socketCall'[k] = socket!Idle
      /\ \A j \in Goroutines \ {k} : socketCall'[j] = socketCall[j]
      /\ socketCall' = [j \in Goroutines |-> socketCall'[j]]
  BY <1>2, SocketCallEnds
<1>4. /\ listener'[s] = socketCall[k].handle
      /\ listener' = [t \in AllSockets |-> listener'[t]]
      /\ \A t \in AllSockets \ {s} : listener'[t] = listener[t]
  BY <1>2 DEF SocketShape
<1>5. SocketShape'
  BY <1>2, <1>3, <1>4 DEF SocketShape, socket!Idle
<1>6. HandlesGiven' /\ Fresh' /\ socket!OneRole'
  <2>1. HandlesGiven'
    BY <1>2 DEF HandlesGiven
  <2>2. Fresh' /\ socket!OneRole'
    BY <1>2, <1>4 DEF Fresh, socket!OneRole, SocketShape
  <2>3. QED
    BY <2>1, <2>2
<1>7. OneCall'
  BY <1>3 DEF OneCall, Working, socket!Idle
<1>8. GuardsHold'
  BY <1>2, <1>3, <1>4 DEF GuardsHold, Working, socket!Idle, SocketShape
<1>9. socket!Reachable'
  <2>1. \A t \in sockets : socket!Shuts(t) \in open =>
          socket!Shuts(t)' = socket!Shuts(t)
    BY <1>2, <1>4 DEF socket!Shuts, SocketShape
  <2>2. socketCall[k].handle \in open => socket!Shuts(s)' = socketCall[k].handle
    BY <1>2, <1>4 DEF socket!Shuts
  <2>3. QED
    BY <1>2, <1>3, <2>1, <2>2 DEF socket!Reachable
<1>10. QED
  BY <1>5, <1>6, <1>7, <1>8, <1>9

(* So does Connect.                                                         *)
LEMMA ConnectAssigns ==
  ASSUME SocketInv, NEW k \in Goroutines, socket!ConnectReturns(k)
  PROVE  SocketInv'
<1> USE DEF SocketInv
<1>1. PICK s : s = socketCall[k].on
  OBVIOUS
<1>2. /\ s \in sockets /\ s \in AllSockets /\ s \notin address /\ listener[s] = 0
      /\ connection[s] = 0
      /\ connection' = [connection EXCEPT ![s] = socketCall[k].handle]
      /\ UNCHANGED <<sockets, address, listener, opened, open>>
      /\ \A j \in Goroutines \ {k} : socketCall[j].step \in Working =>
           socketCall[j].on # s
      /\ 0 \notin open /\ socketCall' = [socketCall EXCEPT ![k] = socket!Idle]
  BY <1>1 DEF socket!ConnectReturns, SocketShape, GuardsHold, OneCall, Working,
     HandlesGiven
<1>3. /\ socketCall'[k] = socket!Idle
      /\ \A j \in Goroutines \ {k} : socketCall'[j] = socketCall[j]
      /\ socketCall' = [j \in Goroutines |-> socketCall'[j]]
  BY <1>2, SocketCallEnds
<1>4. /\ connection'[s] = socketCall[k].handle
      /\ connection' = [t \in AllSockets |-> connection'[t]]
      /\ \A t \in AllSockets \ {s} : connection'[t] = connection[t]
  BY <1>2 DEF SocketShape
<1>5. SocketShape'
  BY <1>2, <1>3, <1>4 DEF SocketShape, socket!Idle
<1>6. HandlesGiven' /\ Fresh' /\ socket!OneRole'
  <2>1. HandlesGiven'
    BY <1>2 DEF HandlesGiven
  <2>2. Fresh' /\ socket!OneRole'
    BY <1>2, <1>4 DEF Fresh, socket!OneRole, SocketShape
  <2>3. QED
    BY <2>1, <2>2
<1>7. OneCall'
  BY <1>3 DEF OneCall, Working, socket!Idle
<1>8. GuardsHold'
  BY <1>2, <1>3, <1>4 DEF GuardsHold, Working, socket!Idle, SocketShape
<1>9. socket!Reachable'
  <2>1. \A t \in sockets : socket!Shuts(t) \in open =>
          socket!Shuts(t)' = socket!Shuts(t)
    BY <1>2, <1>4 DEF socket!Shuts, SocketShape
  <2>2. socketCall[k].handle \in open => socket!Shuts(s)' = socketCall[k].handle
    BY <1>2, <1>4 DEF socket!Shuts
  <2>3. QED
    BY <1>2, <1>3, <2>1, <2>2 DEF socket!Reachable
<1>10. QED
  BY <1>5, <1>6, <1>7, <1>8, <1>9

(* Accept makes a socket nobody knows yet, with the new connection in it.   *)
LEMMA Accepts ==
  ASSUME SocketInv, NEW k \in Goroutines, NEW u \in AllSockets,
         socket!AcceptReturns(k, u)
  PROVE  SocketInv'
<1> USE DEF SocketInv
<1>1. /\ u \notin sockets /\ u \notin address /\ listener[u] = 0
      /\ connection[u] = 0
      /\ opened' = opened + 1 /\ open' = open \cup {opened'}
      /\ sockets' = sockets \cup {u}
      /\ connection' = [connection EXCEPT ![u] = opened']
      /\ UNCHANGED <<address, listener>>
      /\ socketCall[k].handle = 0 /\ 0 \notin open
      /\ socketCall' = [socketCall EXCEPT ![k] = socket!Idle]
  BY DEF socket!AcceptReturns, SocketShape, Fresh, GuardsHold, Working, HandlesGiven
<1>2. /\ socketCall'[k] = socket!Idle
      /\ \A j \in Goroutines \ {k} : socketCall'[j] = socketCall[j]
      /\ socketCall' = [j \in Goroutines |-> socketCall'[j]]
  BY <1>1, SocketCallEnds
<1>3. /\ connection'[u] = opened'
      /\ connection' = [t \in AllSockets |-> connection'[t]]
      /\ \A t \in AllSockets \ {u} : connection'[t] = connection[t]
  BY <1>1 DEF SocketShape
<1>4. SocketShape'
  BY <1>1, <1>2, <1>3 DEF SocketShape, socket!Idle
<1>5. HandlesGiven' /\ Fresh' /\ socket!OneRole'
  <2>1. HandlesGiven'
    BY <1>1, GivesOut
  <2>2. Fresh' /\ socket!OneRole'
    BY <1>1, <1>3 DEF Fresh, socket!OneRole, SocketShape
  <2>3. QED
    BY <2>1, <2>2
<1>6. OneCall'
  BY <1>2 DEF OneCall, Working, socket!Idle
<1>7. GuardsHold'
  BY <1>1, <1>2, <1>3 DEF GuardsHold, Working, socket!Idle, SocketShape
<1>8. socket!Reachable'
  <2>1. \A t \in sockets : socket!Shuts(t)' = socket!Shuts(t)
    BY <1>1, <1>3 DEF socket!Shuts, SocketShape
  <2>2. socket!Shuts(u)' = opened'
    BY <1>1, <1>3 DEF socket!Shuts
  <2>3. QED
    BY <1>1, <1>2, <2>1, <2>2 DEF socket!Reachable
<1>9. QED
  BY <1>4, <1>5, <1>6, <1>7, <1>8

(* An Accept that fails had nothing in its hands.                           *)
LEMMA AcceptGivesUp ==
  ASSUME SocketInv, NEW k \in Goroutines, socket!AcceptFails(k)
  PROVE  SocketInv'
<1> USE DEF SocketInv
<1>1. /\ UNCHANGED <<sockets, address, listener, connection, opened, open>>
      /\ socketCall' = [socketCall EXCEPT ![k] = socket!Idle]
      /\ socketCall[k].handle = 0 /\ 0 \notin open
  BY DEF socket!AcceptFails, GuardsHold, Working, HandlesGiven
<1>2. /\ socketCall'[k] = socket!Idle
      /\ \A j \in Goroutines \ {k} : socketCall'[j] = socketCall[j]
      /\ socketCall' = [j \in Goroutines |-> socketCall'[j]]
  BY <1>1, SocketCallEnds
<1>3. SocketShape' /\ HandlesGiven' /\ Fresh' /\ socket!OneRole'
  BY <1>1, <1>2 DEF SocketShape, HandlesGiven, Fresh, socket!OneRole, socket!Idle
<1>4. OneCall' /\ GuardsHold'
  BY <1>1, <1>2 DEF OneCall, GuardsHold, Working, socket!Idle
<1>5. socket!Reachable'
  BY <1>1, <1>2 DEF socket!Reachable, socket!Shuts
<1>6. QED
  BY <1>3, <1>4, <1>5

-----------------------------------------------------------------------------
LEMMA SocketInit ==
  ASSUME socket!Init
  PROVE  SocketInv
BY DEF AllSockets, socket!Init, socket!Idle, SocketInv, SocketShape, HandlesGiven, Fresh,
       OneCall, GuardsHold, Working, socket!OneRole, socket!Reachable

LEMMA SocketNext ==
  ASSUME SocketInv, [socket!Next]_socketVars
  PROVE  SocketInv'
<1>1. ASSUME NEW s \in AllSockets, socket!Bind(s) \/ socket!Close(s)
      PROVE  SocketInv'
  BY <1>1, Binds, Closes
<1>2. ASSUME NEW k \in Goroutines, NEW s \in AllSockets,
             socket!Listen(k, s) \/ socket!Connect(k, s) \/ socket!Accept(k, s)
      PROVE  SocketInv'
  <2>1. CASE socket!Listen(k, s)
    BY <2>1, SocketCallBegins DEF socket!Listen, socket!CanListen
  <2>2. CASE socket!Connect(k, s)
    BY <2>2, SocketCallBegins DEF socket!Connect, socket!CanConnect
  <2>3. CASE socket!Accept(k, s)
    BY <2>3, SocketCallBegins DEF socket!Accept
  <2>4. QED
    BY <1>2, <2>1, <2>2, <2>3
<1>3. ASSUME NEW k \in Goroutines,
             \/ socket!Dials(k) \/ socket!ListenReturns(k) \/ socket!ConnectReturns(k)
             \/ socket!AcceptFails(k)
             \/ \E s \in AllSockets : socket!AcceptReturns(k, s)
      PROVE  SocketInv'
  BY <1>3, HostAnswers, ListenAssigns, ConnectAssigns, AcceptGivesUp,
     Accepts DEF AllSockets
<1>4. CASE UNCHANGED socketVars
  BY <1>4 DEF socketVars, SocketInv, SocketShape, HandlesGiven, Fresh, OneCall,
     GuardsHold,
     socket!OneRole, socket!Reachable, socket!Shuts
<1>5. QED
  BY <1>1, <1>2, <1>3, <1>4 DEF socket!Next, AllSockets

(* What is open and not with a call is closed by Close of some socket, and  *)
(* no socket is server and client (OneRole and Reachable of Sockets).       *)
THEOREM PartsSockets == PartsSpec => []SocketsAccounted
<1> DEFINE Inv == part = "socket" => SocketInv
<1>1. PartsInit => Inv
  BY SocketInit DEF PartsInit, Begin
<1>2. Inv /\ [PartsNext]_partsVars => Inv'
  <2>1. SUFFICES ASSUME Inv, [PartsNext]_partsVars,
                        part' = "socket" PROVE SocketInv'
    OBVIOUS
  <2>2. part = "socket" /\ SocketInv
    BY <2>1 DEF PartsNext, partsVars
  <2>3. [socket!Next]_socketVars
    BY <2>1, <2>2 DEF PartsNext, partsVars
  <2>4. QED
    BY <2>2, <2>3, SocketNext
<1>3. Inv => SocketsAccounted
  BY DEF SocketsAccounted, SocketInv
<1>4. QED
  BY <1>1, <1>2, <1>3, PTL DEF PartsSpec

-----------------------------------------------------------------------------
(* Bindings                                                                 *)

(* Operations that are half way in or out of a binding *)
HalfBound == {"hook", "store", "close", "free"}

(* What a call holds: nothing while idle, in a bind or unbind the one block *)
(* of its hook, which is among the hooks from BindHooks to UnbindCloses.    *)
BlocksOfCalls ==
  \A k \in Goroutines :
    /\ bindCall[k].op = "idle" => bindCall[k].blocks = {}
    /\ bindCall[k].op \in HalfBound => bindCall[k].blocks = {bindCall[k].hook.addr}
    /\ bindCall[k].op \in {"store", "close"} => bindCall[k].hook \in bindHooks

(* A binding is stored under its address, and its hook is there *)
BindsHooked == \A b \in DOMAIN binds : binds[b].addr = b /\ binds[b] \in bindHooks

BindCalls == bindCall \in [Goroutines -> {bindCall[k] : k \in Goroutines}]

(* BlocksHeld, block by block *)
BlocksAccounted ==
  \A b : b \in DOMAIN used <=>
    b \in user \/ b \in DOMAIN binds \/ \E k \in Goroutines : b \in bindCall[k].blocks
OneOwner ==
  /\ \A b \in user : b \notin DOMAIN binds
  /\ \A k \in Goroutines : \A b \in bindCall[k].blocks :
       /\ b \notin user /\ b \notin DOMAIN binds
       /\ \A j \in Goroutines \ {k} : b \notin bindCall[j].blocks

BindingsInv ==
  /\ BindCalls /\ BlocksOfCalls /\ BindsHooked /\ BlocksAccounted /\ OneOwner
  /\ bindings!HooksOwned

-----------------------------------------------------------------------------
(* Tables *)

(* A block that is put in a table is added to its domain.                   *)
LEMMA PutBlock ==
  ASSUME NEW f, NEW a, NEW v
  PROVE  /\ DOMAIN bindings!heap!Put(f, a, v) = DOMAIN f \cup {a}
         /\ bindings!heap!Put(f, a, v)[a] = v
         /\ \A b \in DOMAIN f \ {a} : bindings!heap!Put(f, a, v)[b] = f[b]
BY DEF bindings!heap!Put

(* A block that is dropped is gone, the others stay as they are.            *)
LEMMA DropBlock ==
  ASSUME NEW f, NEW S
  PROVE  /\ DOMAIN bindings!heap!Drop(f, S) = DOMAIN f \ S
         /\ \A b \in DOMAIN f \ S : bindings!heap!Drop(f, S)[b] = f[b]
BY DEF bindings!heap!Drop

(* memAlloc takes a block nobody has, memFree takes it back.                *)
LEMMA BlockTaken ==
  ASSUME NEW b, bindings!MemAlloc(b)
  PROVE  b \notin DOMAIN used /\ DOMAIN used' = DOMAIN used \cup {b}
<1>1. b \notin DOMAIN used /\ used' = bindings!heap!Put(used, b, bindings!Size)
  BY DEF bindings!MemAlloc, bindings!heap!Alloc
<1>2. DOMAIN bindings!heap!Put(used, b, bindings!Size) = DOMAIN used \cup {b}
  BY PutBlock
<1>3. QED
  BY <1>1, <1>2

LEMMA BlockGivenBack ==
  ASSUME NEW b, bindings!MemFree(b)
  PROVE  b \in DOMAIN used /\ DOMAIN used' = DOMAIN used \ {b}
BY DropBlock DEF bindings!MemFree, bindings!heap!Free

(* Only the goroutine that makes the step changes its call.                 *)
LEMMA BindCallOf ==
  ASSUME BindCalls, NEW k \in Goroutines, NEW v, bindCall' = [bindCall EXCEPT ![k] = v]
  PROVE  BindCalls' /\ bindCall'[k] = v /\ \A j \in Goroutines \ {k} : bindCall'[j] = bindCall[j]
<1>1. DOMAIN bindCall = Goroutines
  BY DEF BindCalls
<1>2. bindCall'[k] = v /\ (\A j \in Goroutines \ {k} : bindCall'[j] = bindCall[j])
      /\ DOMAIN bindCall' = Goroutines
  BY <1>1
<1>3. bindCall' = [j \in Goroutines |-> bindCall'[j]]
  BY <1>1
<1>4. QED
  BY <1>2, <1>3 DEF BindCalls

LEMMA BindEntered ==
  ASSUME BindCalls, NEW k \in Goroutines, NEW op, NEW S, bindings!Enter(k, op, S)
  PROVE  /\ BindCalls' /\ bindCall'[k].op = op /\ bindCall'[k].blocks = S
         /\ \A j \in Goroutines \ {k} : bindCall'[j] = bindCall[j]
<1> DEFINE v == [op |-> op, blocks |-> S]
<1>1. bindCall' = [bindCall EXCEPT ![k] = v]
  BY DEF bindings!Enter
<1>2. bindCall'[k] = v /\ BindCalls' /\ \A j \in Goroutines \ {k} : bindCall'[j] = bindCall[j]
  <2> HIDE DEF v
  <2>1. QED
    BY <1>1, BindCallOf
<1>3. QED
  BY <1>2

LEMMA BindLeft ==
  ASSUME BindCalls, NEW k \in Goroutines, bindings!Leave(k)
  PROVE  /\ BindCalls' /\ bindCall'[k].op = "idle" /\ bindCall'[k].blocks = {}
         /\ \A j \in Goroutines \ {k} : bindCall'[j] = bindCall[j]
<1>1. bindCall' = [bindCall EXCEPT ![k] = bindings!Idle]
  BY DEF bindings!Leave
<1>2. bindCall'[k] = bindings!Idle /\ BindCalls'
      /\ \A j \in Goroutines \ {k} : bindCall'[j] = bindCall[j]
  BY <1>1, BindCallOf
<1>3. QED
  BY <1>2 DEF bindings!Idle

LEMMA BindWent ==
  ASSUME BindCalls, NEW k \in Goroutines, NEW op, NEW hook, bindings!With(k, op, hook)
  PROVE  /\ BindCalls' /\ bindCall'[k].op = op /\ bindCall'[k].blocks = {hook.addr}
         /\ bindCall'[k].hook = hook
         /\ \A j \in Goroutines \ {k} : bindCall'[j] = bindCall[j]
<1> DEFINE v == [op |-> op, blocks |-> {hook.addr}, hook |-> hook]
<1>1. bindCall' = [bindCall EXCEPT ![k] = v]
  BY DEF bindings!With
<1>2. bindCall'[k] = v /\ BindCalls' /\ \A j \in Goroutines \ {k} : bindCall'[j] = bindCall[j]
  <2> HIDE DEF v
  <2>1. QED
    BY <1>1, BindCallOf
<1>3. QED
  BY <1>2

-----------------------------------------------------------------------------
(* Steps of an import *)

(* memImport and memWrite take, keep, give away or give back blocks; they   *)
(* touch neither bindings nor hooks.                                        *)
LEMMA ImportSteps ==
  ASSUME BindingsInv, NEW k \in Goroutines,
         \/ \E b : bindings!Import(k, b) \/ bindings!Nested(k, b)
         \/ bindings!Write(k) \/ bindings!ImportReturns(k)
         \/ bindings!ImportFails(k) \/ bindings!Undo(k)
  PROVE  BindingsInv'
<1> DEFINE c == bindCall[k]
<1> USE DEF BindingsInv
<1>1. binds' = binds /\ bindHooks' = bindHooks /\ c.op \in {"idle", "import", "undo"}
  <2>1. bindings!Idle.op = "idle"
    BY DEF bindings!Idle
  <2>2. CASE \E b : bindings!Import(k, b) \/ bindings!Nested(k, b)
    BY <2>1, <2>2 DEF bindings!Import, bindings!Nested
  <2>3. CASE bindings!Write(k) \/ bindings!ImportReturns(k) \/ bindings!ImportFails(k)
    BY <2>1, <2>3 DEF bindings!Write, bindings!ImportReturns, bindings!ImportFails
  <2>4. CASE bindings!Undo(k)
    BY <2>4 DEF bindings!Undo
  <2>5. QED
    BY <2>2, <2>3, <2>4
<1>2. \E op \in {"idle", "import", "undo"} : \E S :
        bindings!Enter(k, op, S) /\ (op = "idle" => S = {})
  <2>1. bindings!Leave(k) => bindings!Enter(k, "idle", {})
    BY DEF bindings!Leave, bindings!Enter, bindings!Idle
  <2>2. CASE \E b : bindings!Import(k, b) \/ bindings!Nested(k, b)
    BY <2>2 DEF bindings!Import, bindings!Nested
  <2>3. CASE bindings!Write(k) \/ bindings!ImportReturns(k) \/ bindings!ImportFails(k)
    BY <2>1, <2>3 DEF bindings!Write, bindings!ImportReturns, bindings!ImportFails
  <2>4. CASE bindings!Undo(k)
    BY <2>1, <2>4 DEF bindings!Undo
  <2>5. QED
    BY <2>2, <2>3, <2>4
<1>3. PICK op \in {"idle", "import", "undo"} :
        /\ BindCalls' /\ bindCall'[k].op = op /\ (op = "idle" => bindCall'[k].blocks = {})
        /\ \A j \in Goroutines \ {k} : bindCall'[j] = bindCall[j]
  BY <1>2, BindEntered
<1>4. BlocksOfCalls'
  BY <1>1, <1>3 DEF BlocksOfCalls, HalfBound
<1>5. BindsHooked'
  BY <1>1 DEF BindsHooked
<1>6. BlocksAccounted' /\ OneOwner'
  <2>1. CASE \E b : bindings!Import(k, b) \/ bindings!Nested(k, b)
    <3>1. PICK b : bindings!MemAlloc(b) /\ bindings!Enter(k, "import", c.blocks \cup {b})
                  /\ user' = user
      <4>1. c = bindings!Idle => c.blocks = {}
        BY DEF bindings!Idle
      <4>2. CASE \E b : bindings!Import(k, b)
        BY <4>1, <4>2 DEF bindings!Import
      <4>3. CASE \E b : bindings!Nested(k, b)
        BY <4>3 DEF bindings!Nested
      <4>4. QED
        BY <2>1, <4>2, <4>3
    <3>2. b \notin DOMAIN used /\ DOMAIN used' = DOMAIN used \cup {b}
      BY <3>1, BlockTaken
    <3>3. bindCall'[k].blocks = c.blocks \cup {b}
      BY <3>1, BindEntered
    <3>4. QED
      BY <1>1, <1>3, <3>1, <3>2, <3>3 DEF BlocksAccounted, OneOwner
  <2>2. CASE bindings!Write(k) \/ bindings!ImportFails(k)
    <3>1. UNCHANGED <<used, user>>
      BY <2>2 DEF bindings!Write, bindings!ImportFails
    <3>2. bindCall'[k].blocks = c.blocks
      <4>1. CASE bindings!Write(k)
        BY <4>1, BindEntered DEF bindings!Write, bindings!Idle
      <4>2. CASE bindings!ImportFails(k)
        BY <4>2, BindEntered DEF bindings!ImportFails
      <4>3. QED
        BY <2>2, <4>1, <4>2
    <3>3. QED
      BY <1>1, <1>3, <3>1, <3>2 DEF BlocksAccounted, OneOwner
  <2>3. CASE bindings!ImportReturns(k)
    <3>1. used' = used /\ user' = user \cup c.blocks /\ bindings!Leave(k)
      BY <2>3 DEF bindings!ImportReturns
    <3>2. bindCall'[k].blocks = {}
      BY <3>1, BindLeft
    <3>3. QED
      BY <1>1, <1>3, <3>1, <3>2 DEF BlocksAccounted, OneOwner
  <2>4. CASE bindings!Undo(k)
    <3>1. CASE c.blocks = {} /\ UNCHANGED used /\ bindings!Leave(k)
      <4>1. bindCall'[k].blocks = {} /\ user' = user
        BY <2>4, <3>1, BindLeft DEF bindings!Undo
      <4>2. QED
        BY <1>1, <1>3, <3>1, <4>1 DEF BlocksAccounted, OneOwner
    <3>2. CASE \E b \in c.blocks : bindings!MemFree(b) /\ bindings!Enter(k, "undo", c.blocks \ {b})
      <4>1. PICK b \in c.blocks : bindings!MemFree(b) /\ bindings!Enter(k, "undo", c.blocks \ {b})
        BY <3>2
      <4>2. DOMAIN used' = DOMAIN used \ {b}
        BY <4>1, BlockGivenBack
      <4>3. bindCall'[k].blocks = c.blocks \ {b} /\ user' = user
        BY <2>4, <4>1, BindEntered DEF bindings!Undo
      <4>4. QED
        BY <1>1, <1>3, <4>1, <4>2, <4>3 DEF BlocksAccounted, OneOwner
    <3>3. QED
      BY <2>4, <3>1, <3>2 DEF bindings!Undo
  <2>5. QED
    BY <2>1, <2>2, <2>3, <2>4
<1>7. bindings!HooksOwned'
  <2>1. ASSUME NEW h \in bindHooks
        PROVE  \/ h.addr \in DOMAIN binds /\ binds[h.addr] = h
               \/ \E j \in Goroutines \ {k} :
                     bindCall[j].op \in {"store", "close"} /\ bindCall[j].hook = h
    BY <1>1 DEF bindings!HooksOwned
  <2>2. ASSUME NEW h \in bindHooks PROVE h.addr \in DOMAIN used'
    <3>1. CASE h.addr \in DOMAIN binds
      BY <1>1, <1>6, <3>1 DEF BlocksAccounted
    <3>2. CASE \E j \in Goroutines \ {k} :
                  bindCall[j].op \in {"store", "close"} /\ bindCall[j].hook = h
      BY <1>3, <1>6, <3>2 DEF BlocksAccounted, BlocksOfCalls, HalfBound
    <3>3. QED
      BY <2>1, <3>1, <3>2
  <2>3. QED
    BY <1>1, <1>3, <2>1, <2>2 DEF bindings!HooksOwned
<1>8. QED
  BY <1>3, <1>4, <1>5, <1>6, <1>7

(* MemFree by the user takes back a block of the user.                      *)
LEMMA UserFreesStep ==
  ASSUME BindingsInv, NEW b, bindings!UserFrees(b)
  PROVE  BindingsInv'
<1> USE DEF BindingsInv
<1>1. UNCHANGED <<binds, bindHooks, bindCall>> /\ bindings!MemFree(b)
      /\ b \in user /\ user' = user \ {b}
  BY DEF bindings!UserFrees
<1>2. DOMAIN used' = DOMAIN used \ {b}
  BY <1>1, BlockGivenBack
<1>3. BindCalls' /\ BlocksOfCalls' /\ BindsHooked'
  BY <1>1 DEF BindCalls, BlocksOfCalls, BindsHooked
<1>4. BlocksAccounted' /\ OneOwner'
  BY <1>1, <1>2 DEF BlocksAccounted, OneOwner
<1>5. bindings!HooksOwned'
  <2>1. ASSUME NEW h \in bindHooks PROVE h.addr \in DOMAIN used'
    BY <1>1, <1>2 DEF bindings!HooksOwned, OneOwner, BlocksOfCalls, HalfBound
  <2>2. QED
    BY <1>1, <2>1 DEF bindings!HooksOwned
<1>6. QED
  BY <1>3, <1>4, <1>5

-----------------------------------------------------------------------------
(* Steps of a binding *)

(* memBind allocates the block of a hook.                                   *)
LEMMA BindStep ==
  ASSUME BindingsInv, NEW k \in Goroutines, NEW b, NEW p, bindings!Bind(k, b, p)
  PROVE  BindingsInv'
<1> USE DEF BindingsInv
<1> DEFINE hook == [addr |-> b, host |-> p, id |-> bound']
<1>1. UNCHANGED <<user, binds, bindHooks>> /\ bindings!MemAlloc(b) /\ bindings!With(k, "hook", hook)
  BY DEF bindings!Bind
<1>2. bindCall[k].op = "idle" /\ bindCall[k].blocks = {}
  BY DEF bindings!Bind, bindings!Idle
<1>3. /\ BindCalls' /\ bindCall'[k].op = "hook" /\ bindCall'[k].blocks = {b}
      /\ bindCall'[k].hook.addr = b
      /\ \A j \in Goroutines \ {k} : bindCall'[j] = bindCall[j]
  BY <1>1, BindWent
<1>4. b \notin DOMAIN used /\ DOMAIN used' = DOMAIN used \cup {b}
  BY <1>1, BlockTaken
<1>5. BlocksOfCalls' /\ BindsHooked'
  BY <1>1, <1>3 DEF BlocksOfCalls, HalfBound, BindsHooked
<1>6. BlocksAccounted' /\ OneOwner'
  BY <1>1, <1>2, <1>3, <1>4 DEF BlocksAccounted, OneOwner
<1>7. bindings!HooksOwned'
  BY <1>1, <1>2, <1>3, <1>4 DEF bindings!HooksOwned
<1>8. QED
  BY <1>3, <1>5, <1>6, <1>7

(* The hook is added ...                                                    *)
LEMMA BindHooksStep ==
  ASSUME BindingsInv, NEW k \in Goroutines, bindings!BindHooks(k)
  PROVE  BindingsInv'
<1> USE DEF BindingsInv
<1> DEFINE hook == bindCall[k].hook
<1>1. /\ bindCall[k].op = "hook" /\ UNCHANGED <<used, user, binds>>
      /\ bindHooks' = bindHooks \cup {hook} /\ bindings!With(k, "store", hook)
  BY DEF bindings!BindHooks
<1>2. /\ BindCalls' /\ bindCall'[k].op = "store" /\ bindCall'[k].blocks = {hook.addr}
      /\ bindCall'[k].hook = hook /\ \A j \in Goroutines \ {k} : bindCall'[j] = bindCall[j]
  BY <1>1, BindWent
<1>3. bindCall[k].blocks = {hook.addr}
  BY <1>1 DEF BlocksOfCalls, HalfBound
<1>4. BlocksOfCalls' /\ BindsHooked'
  BY <1>1, <1>2 DEF BlocksOfCalls, HalfBound, BindsHooked
<1>5. BlocksAccounted' /\ OneOwner'
  BY <1>1, <1>2, <1>3 DEF BlocksAccounted, OneOwner
<1>6. bindings!HooksOwned'
  <2>1. hook.addr \in DOMAIN used
    BY <1>3 DEF BlocksAccounted
  <2>2. QED
    BY <1>1, <1>2, <2>1 DEF bindings!HooksOwned
<1>7. QED
  BY <1>2, <1>4, <1>5, <1>6

(* ... or refused, and the block goes back.                                 *)
LEMMA BindFailsStep ==
  ASSUME BindingsInv, NEW k \in Goroutines, bindings!BindFails(k)
  PROVE  BindingsInv'
<1> USE DEF BindingsInv
<1> DEFINE hook == bindCall[k].hook
<1>1. /\ bindCall[k].op = "hook" /\ UNCHANGED <<user, binds, bindHooks>> /\ bindings!Leave(k)
      /\ \E b \in bindCall[k].blocks : bindings!MemFree(b)
  BY DEF bindings!BindFails
<1>2. bindCall[k].blocks = {hook.addr}
  BY <1>1 DEF BlocksOfCalls, HalfBound
<1>3. DOMAIN used' = DOMAIN used \ {hook.addr}
  BY <1>1, <1>2, BlockGivenBack
<1>4. /\ BindCalls' /\ bindCall'[k].op = "idle" /\ bindCall'[k].blocks = {}
      /\ \A j \in Goroutines \ {k} : bindCall'[j] = bindCall[j]
  BY <1>1, BindLeft
<1>5. BlocksOfCalls' /\ BindsHooked'
  BY <1>1, <1>4 DEF BlocksOfCalls, HalfBound, BindsHooked
<1>6. BlocksAccounted' /\ OneOwner'
  BY <1>1, <1>2, <1>3, <1>4 DEF BlocksAccounted, OneOwner
<1>7. bindings!HooksOwned'
  <2>1. ASSUME NEW h \in bindHooks
        PROVE  \/ h.addr \in DOMAIN binds /\ binds[h.addr] = h
               \/ \E j \in Goroutines \ {k} :
                     bindCall[j].op \in {"store", "close"} /\ bindCall[j].hook = h
    BY <1>1 DEF bindings!HooksOwned
  <2>2. ASSUME NEW h \in bindHooks PROVE h.addr \in DOMAIN used'
    BY <1>1, <1>4, <1>6, <2>1 DEF BlocksAccounted, BlocksOfCalls, HalfBound
  <2>3. QED
    BY <1>1, <1>4, <2>1, <2>2 DEF bindings!HooksOwned
<1>8. QED
  BY <1>4, <1>5, <1>6, <1>7

(* The hook is stored under its address.                                    *)
LEMMA BindStoresStep ==
  ASSUME BindingsInv, NEW k \in Goroutines, bindings!BindStores(k)
  PROVE  BindingsInv'
<1> USE DEF BindingsInv
<1> DEFINE hook == bindCall[k].hook
<1>1. /\ bindCall[k].op = "store" /\ UNCHANGED <<used, user, bindHooks>> /\ bindings!Leave(k)
      /\ binds' = bindings!heap!Put(binds, hook.addr, hook)
  BY DEF bindings!BindStores
<1>2. bindCall[k].blocks = {hook.addr} /\ hook \in bindHooks
  BY <1>1 DEF BlocksOfCalls, HalfBound
<1>3. /\ DOMAIN binds' = DOMAIN binds \cup {hook.addr} /\ binds'[hook.addr] = hook
      /\ \A b \in DOMAIN binds \ {hook.addr} : binds'[b] = binds[b]
  <2> DEFINE f == bindings!heap!Put(binds, hook.addr, hook)
  <2>1. /\ DOMAIN f = DOMAIN binds \cup {hook.addr} /\ f[hook.addr] = hook
        /\ \A b \in DOMAIN binds \ {hook.addr} : f[b] = binds[b]
    BY DEF bindings!heap!Put
  <2>2. QED
    BY <1>1, <2>1
<1>4. /\ BindCalls' /\ bindCall'[k].op = "idle" /\ bindCall'[k].blocks = {}
      /\ \A j \in Goroutines \ {k} : bindCall'[j] = bindCall[j]
  BY <1>1, BindLeft
<1>5. BlocksOfCalls'
  BY <1>1, <1>4 DEF BlocksOfCalls, HalfBound
<1>6. BindsHooked'
  BY <1>1, <1>2, <1>3 DEF BindsHooked
<1>7. BlocksAccounted' /\ OneOwner'
  BY <1>1, <1>2, <1>3, <1>4 DEF BlocksAccounted, OneOwner
<1>8. bindings!HooksOwned'
  <2>1. hook.addr \notin DOMAIN binds
    BY <1>2 DEF OneOwner
  <2>2. QED
    BY <1>1, <1>3, <1>4, <2>1 DEF bindings!HooksOwned
<1>9. QED
  BY <1>4, <1>5, <1>6, <1>7, <1>8

(* memUnbind takes the hook of a block out of the table ...                 *)
LEMMA UnbindStep ==
  ASSUME BindingsInv, NEW k \in Goroutines, NEW b, bindings!Unbind(k, b)
  PROVE  BindingsInv'
<1> USE DEF BindingsInv
<1>1. /\ b \in DOMAIN binds /\ UNCHANGED <<used, user, bindHooks>>
      /\ binds' = bindings!heap!Drop(binds, {b}) /\ bindings!With(k, "close", binds[b])
  BY DEF bindings!Unbind
<1>2. bindCall[k].op = "idle" /\ bindCall[k].blocks = {}
  BY DEF bindings!Unbind, bindings!Idle
<1>3. binds[b].addr = b /\ binds[b] \in bindHooks
  BY <1>1 DEF BindsHooked
<1>4. /\ DOMAIN binds' = DOMAIN binds \ {b}
      /\ \A a \in DOMAIN binds \ {b} : binds'[a] = binds[a]
  BY <1>1, DropBlock
<1>5. /\ BindCalls' /\ bindCall'[k].op = "close" /\ bindCall'[k].blocks = {b}
      /\ bindCall'[k].hook = binds[b]
      /\ \A j \in Goroutines \ {k} : bindCall'[j] = bindCall[j]
  BY <1>1, <1>3, BindWent
<1>6. BlocksOfCalls'
  BY <1>1, <1>3, <1>5 DEF BlocksOfCalls, HalfBound
<1>7. BindsHooked'
  BY <1>1, <1>4 DEF BindsHooked
<1>8. BlocksAccounted' /\ OneOwner'
  <2>1. BlocksAccounted'
    <3>1. ASSUME NEW a PROVE (\E j \in Goroutines : a \in bindCall'[j].blocks)
                              <=> a = b \/ \E j \in Goroutines : a \in bindCall[j].blocks
      BY <1>2, <1>5
    <3>2. QED
      BY <1>1, <1>4, <3>1 DEF BlocksAccounted
  <2>2. OneOwner'
    <3>1. \A j \in Goroutines \ {k} : b \notin bindCall[j].blocks
      BY <1>1 DEF OneOwner
    <3>2. QED
      BY <1>1, <1>4, <1>5, <3>1 DEF OneOwner
  <2>3. QED
    BY <2>1, <2>2
<1>9. bindings!HooksOwned'
  <2>1. ASSUME NEW h \in bindHooks
        PROVE  \/ h.addr \in DOMAIN binds' /\ binds'[h.addr] = h
               \/ \E j \in Goroutines : bindCall'[j].op \in {"store", "close"}
                                       /\ bindCall'[j].hook = h
    <3>1. CASE h.addr \in DOMAIN binds /\ binds[h.addr] = h
      BY <1>4, <1>5, <3>1
    <3>2. CASE \E j \in Goroutines : bindCall[j].op \in {"store", "close"} /\ bindCall[j].hook = h
      BY <1>2, <1>5, <3>2
    <3>3. QED
      BY <3>1, <3>2 DEF bindings!HooksOwned
  <2>2. QED
    BY <1>1, <2>1 DEF bindings!HooksOwned
<1>10. QED
  BY <1>5, <1>6, <1>7, <1>8, <1>9

(* ... closes it ...                                                        *)
LEMMA UnbindClosesStep ==
  ASSUME BindingsInv, NEW k \in Goroutines, bindings!UnbindCloses(k)
  PROVE  BindingsInv'
<1> USE DEF BindingsInv
<1> DEFINE hook == bindCall[k].hook
<1>1. /\ bindCall[k].op = "close" /\ UNCHANGED <<used, user, binds>>
      /\ bindHooks' = bindHooks \ {hook} /\ bindings!With(k, "free", hook)
  BY DEF bindings!UnbindCloses
<1>2. bindCall[k].blocks = {hook.addr}
  BY <1>1 DEF BlocksOfCalls, HalfBound
<1>3. /\ BindCalls' /\ bindCall'[k].op = "free" /\ bindCall'[k].blocks = {hook.addr}
      /\ bindCall'[k].hook = hook /\ \A j \in Goroutines \ {k} : bindCall'[j] = bindCall[j]
  BY <1>1, BindWent
<1>4. \A j \in Goroutines \ {k} : bindCall[j].op \in {"store", "close"} => bindCall[j].hook # hook
  BY <1>2 DEF BlocksOfCalls, HalfBound, OneOwner
<1>5. \A b \in DOMAIN binds : binds[b] # hook
  BY <1>2 DEF BindsHooked, OneOwner
<1>6. BlocksOfCalls' /\ BindsHooked'
  BY <1>1, <1>3, <1>4, <1>5 DEF BlocksOfCalls, HalfBound, BindsHooked
<1>7. BlocksAccounted' /\ OneOwner'
  BY <1>1, <1>2, <1>3 DEF BlocksAccounted, OneOwner
<1>8. bindings!HooksOwned'
  BY <1>1, <1>3 DEF bindings!HooksOwned
<1>9. QED
  BY <1>3, <1>6, <1>7, <1>8

(* ... and frees the block.                                                 *)
LEMMA UnbindFreesStep ==
  ASSUME BindingsInv, NEW k \in Goroutines, bindings!UnbindFrees(k)
  PROVE  BindingsInv'
<1> USE DEF BindingsInv
<1> DEFINE b == bindCall[k].hook.addr
<1>1. bindCall[k].op = "free" /\ UNCHANGED <<user, binds, bindHooks>> /\ bindings!Leave(k)
  BY DEF bindings!UnbindFrees
<1>2. bindCall[k].blocks = {b}
  BY <1>1 DEF BlocksOfCalls, HalfBound
<1>3. b \in DOMAIN used
  BY <1>2 DEF BlocksAccounted
<1>4. DOMAIN used' = DOMAIN used \ {b}
  <2>1. bindings!MemFree(b)
    BY <1>3 DEF bindings!UnbindFrees
  <2>2. QED
    BY <2>1, BlockGivenBack
<1>5. /\ BindCalls' /\ bindCall'[k].op = "idle" /\ bindCall'[k].blocks = {}
      /\ \A j \in Goroutines \ {k} : bindCall'[j] = bindCall[j]
  BY <1>1, BindLeft
<1>6. BlocksOfCalls' /\ BindsHooked'
  BY <1>1, <1>5 DEF BlocksOfCalls, HalfBound, BindsHooked
<1>7. BlocksAccounted' /\ OneOwner'
  BY <1>1, <1>2, <1>4, <1>5 DEF BlocksAccounted, OneOwner
<1>8. bindings!HooksOwned'
  <2>1. ASSUME NEW h \in bindHooks
        PROVE  \/ h.addr \in DOMAIN binds /\ binds[h.addr] = h
               \/ \E j \in Goroutines \ {k} :
                     bindCall[j].op \in {"store", "close"} /\ bindCall[j].hook = h
    BY <1>1 DEF bindings!HooksOwned
  <2>2. ASSUME NEW h \in bindHooks PROVE h.addr \in DOMAIN used'
    BY <1>1, <1>5, <1>7, <2>1 DEF BlocksAccounted, BlocksOfCalls, HalfBound
  <2>3. QED
    BY <1>1, <1>5, <2>1, <2>2 DEF bindings!HooksOwned
<1>9. QED
  BY <1>5, <1>6, <1>7, <1>8

(* dtor closes every hook that is stored.                                   *)
LEMMA BindDtorStep ==
  ASSUME BindingsInv, bindings!Dtor
  PROVE  BindingsInv'
<1> USE DEF BindingsInv
<1>1. /\ UNCHANGED <<used, bindCall>> /\ user' = user \cup DOMAIN binds /\ DOMAIN binds' = {}
      /\ bindHooks' = bindHooks \ {binds[b] : b \in DOMAIN binds}
  BY DEF bindings!Dtor
<1>2. ASSUME NEW k \in Goroutines, bindCall[k].op \in {"store", "close"}
      PROVE  bindCall[k].hook \in bindHooks'
  <2>1. bindCall[k].hook \in bindHooks /\ bindCall[k].hook.addr \in bindCall[k].blocks
    BY <1>2 DEF BlocksOfCalls, HalfBound
  <2>2. ASSUME NEW b \in DOMAIN binds PROVE binds[b] # bindCall[k].hook
    BY <2>1 DEF BindsHooked, OneOwner
  <2>3. QED
    BY <1>1, <2>1, <2>2
<1>3. BindCalls' /\ BlocksOfCalls' /\ BindsHooked'
  BY <1>1, <1>2 DEF BindCalls, BlocksOfCalls, BindsHooked
<1>4. BlocksAccounted' /\ OneOwner'
  BY <1>1 DEF BlocksAccounted, OneOwner
<1>5. bindings!HooksOwned'
  BY <1>1 DEF bindings!HooksOwned
<1>6. QED
  BY <1>3, <1>4, <1>5

-----------------------------------------------------------------------------
(* Every step *)

LEMMA BindingsStay ==
  ASSUME BindingsInv, [bindings!Next]_(bindings!vars)
  PROVE  BindingsInv'
<1>1. CASE UNCHANGED bindings!vars
  BY <1>1 DEF bindings!vars, BindingsInv, BindCalls, BlocksOfCalls, BindsHooked,
     BlocksAccounted, OneOwner, bindings!HooksOwned
<1>2. CASE \E p \in Hosts, w \in bindings!Words, v \in Values : bindings!HostWrites(p, w, v)
  <2>1. UNCHANGED <<used, user, binds, bindHooks, bindCall>>
    BY <1>2 DEF bindings!HostWrites
  <2>2. QED
    BY <2>1 DEF BindingsInv, BindCalls, BlocksOfCalls, BindsHooked, BlocksAccounted,
       OneOwner, bindings!HooksOwned
<1>3. CASE \E b \in Blocks, offset \in {0}, size \in 1 .. bindings!Size :
             \E v \in [1 .. size -> Values] : bindings!GuestWrites(b, offset, size, v)
  <2>1. UNCHANGED <<used, user, binds, bindHooks, bindCall>>
    BY <1>3 DEF bindings!GuestWrites
  <2>2. QED
    BY <2>1 DEF BindingsInv, BindCalls, BlocksOfCalls, BindsHooked, BlocksAccounted,
       OneOwner, bindings!HooksOwned
<1>4. CASE \E b \in Blocks : bindings!UserFrees(b)
  BY <1>4, UserFreesStep
<1>5. CASE bindings!Dtor
  BY <1>5, BindDtorStep
<1>6. ASSUME NEW k \in Goroutines,
             \/ \E b \in Blocks :
                  \/ bindings!Import(k, b) \/ bindings!Nested(k, b) \/ bindings!Unbind(k, b)
                  \/ \E p \in Hosts : bindings!Bind(k, b, p)
             \/ bindings!Write(k) \/ bindings!ImportReturns(k)
             \/ bindings!ImportFails(k) \/ bindings!Undo(k)
             \/ bindings!BindHooks(k) \/ bindings!BindFails(k) \/ bindings!BindStores(k)
             \/ bindings!UnbindCloses(k) \/ bindings!UnbindFrees(k)
      PROVE  BindingsInv'
  <2>1. CASE \/ \E b \in Blocks : bindings!Import(k, b) \/ bindings!Nested(k, b)
             \/ bindings!Write(k) \/ bindings!ImportReturns(k)
             \/ bindings!ImportFails(k) \/ bindings!Undo(k)
    BY <2>1, ImportSteps
  <2>2. CASE \E b \in Blocks : \E p \in Hosts : bindings!Bind(k, b, p)
    BY <2>2, BindStep
  <2>3. CASE \E b \in Blocks : bindings!Unbind(k, b)
    BY <2>3, UnbindStep
  <2>4. CASE bindings!BindHooks(k)
    BY <2>4, BindHooksStep
  <2>5. CASE bindings!BindFails(k)
    BY <2>5, BindFailsStep
  <2>6. CASE bindings!BindStores(k)
    BY <2>6, BindStoresStep
  <2>7. CASE bindings!UnbindCloses(k)
    BY <2>7, UnbindClosesStep
  <2>8. CASE bindings!UnbindFrees(k)
    BY <2>8, UnbindFreesStep
  <2>9. QED
    BY <1>6, <2>1, <2>2, <2>3, <2>4, <2>5, <2>6, <2>7, <2>8
<1>7. QED
  BY <1>1, <1>2, <1>3, <1>4, <1>5, <1>6 DEF bindings!Next

LEMMA BindingsInit == bindings!Init => BindingsInv
<1> SUFFICES ASSUME bindings!Init PROVE BindingsInv
  OBVIOUS
<1>1. bindCall = [k \in Goroutines |-> bindings!Idle] /\ DOMAIN used = {} /\ user = {}
      /\ bindHooks = {}
      /\ DOMAIN binds = {}
  BY DEF bindings!Init
<1>2. \A k \in Goroutines : bindCall[k].op = "idle" /\ bindCall[k].blocks = {}
  BY <1>1 DEF bindings!Idle
<1>3. BindCalls
  BY <1>1 DEF BindCalls
<1>4. BlocksOfCalls /\ BindsHooked /\ bindings!HooksOwned
  BY <1>1, <1>2 DEF BlocksOfCalls, HalfBound, BindsHooked, bindings!HooksOwned
<1>5. BlocksAccounted /\ OneOwner
  BY <1>1, <1>2 DEF BlocksAccounted, OneOwner
<1>6. QED
  BY <1>3, <1>4, <1>5 DEF BindingsInv

LEMMA HeldByOne == BindingsInv => bindings!BlocksHeld
<1> SUFFICES ASSUME BindingsInv PROVE bindings!BlocksHeld
  OBVIOUS
<1>1. DOMAIN used = user \cup DOMAIN binds \cup UNION {bindCall[k].blocks : k \in Goroutines}
  BY DEF BindingsInv, BlocksAccounted
<1>2. user \cap DOMAIN binds = {}
  BY DEF BindingsInv, OneOwner
<1>3. \A k, j \in Goroutines :
        /\ bindCall[k].blocks \cap (user \cup DOMAIN binds) = {}
        /\ k # j => bindCall[k].blocks \cap bindCall[j].blocks = {}
  BY DEF BindingsInv, OneOwner
<1>4. QED
  BY <1>1, <1>2, <1>3 DEF bindings!BlocksHeld

-----------------------------------------------------------------------------
(* What is read.  The callback takes its parameter size for the end of what *)
(* it writes, so this is about guests that write from the start of a block. *)

SameWords == hostMemory = latest /\ hostMemory = [p \in Hosts |-> hostMemory[p]]

(* The one hook that watches a bound block is the one stored for it.        *)
LEMMA BoundHook ==
  ASSUME BindingsInv, NEW b \in DOMAIN binds, NEW h \in bindHooks, h.addr = b
  PROVE  h = binds[b]
<1>1. CASE \E k \in Goroutines : bindCall[k].op \in {"store", "close"} /\ bindCall[k].hook = h
  <2>1. PICK k \in Goroutines : b \in bindCall[k].blocks
    BY <1>1 DEF BindingsInv, BlocksOfCalls, HalfBound
  <2>2. QED
    BY <2>1 DEF BindingsInv, OneOwner
<1>2. QED
  BY <1>1 DEF BindingsInv, bindings!HooksOwned

(* At offset 0 the callback stores what the guest wrote.                    *)
LEMMA StoredAsMeant ==
  ASSUME NEW words, NEW size \in 1 .. bindings!Size, NEW v
  PROVE  bindings!Stored(words, 0, size, v) = bindings!Meant(words, 0, size, v)
BY DEF bindings!Stored, bindings!Meant, bindings!Size, bindings!Words

LEMMA SameWordsStep ==
  ASSUME BindingsInv, SameWords, [bindings!Next]_(bindings!vars)
  PROVE  SameWords'
<1>1. CASE UNCHANGED <<hostMemory, latest>>
  BY <1>1 DEF SameWords
<1>2. ASSUME NEW p \in Hosts, NEW w \in bindings!Words, NEW v \in Values,
             bindings!HostWrites(p, w, v)
      PROVE  SameWords'
  <2>1. hostMemory' = [hostMemory EXCEPT ![p][w] = v] /\ latest' = [latest EXCEPT ![p][w] = v]
    BY <1>2 DEF bindings!HostWrites
  <2>2. QED
    BY <2>1 DEF SameWords
<1>3. ASSUME NEW b \in Blocks, NEW size \in 1 .. bindings!Size, NEW v,
             bindings!GuestWrites(b, 0, size, v)
      PROVE  SameWords'
  <2> DEFINE P == binds[b].host
             watched(p) == \E h \in bindHooks : h.addr = b /\ h.host = p
  <2>1. /\ b \in DOMAIN binds
        /\ hostMemory' = [p \in Hosts |->
             IF watched(p) THEN bindings!Stored(hostMemory[p], 0, size, v) ELSE hostMemory[p]]
        /\ latest' = [latest EXCEPT ![P] = bindings!Meant(latest[P], 0, size, v)]
    BY <1>3 DEF bindings!GuestWrites
  <2>2. ASSUME NEW p PROVE watched(p) <=> p = P
    <3>1. binds[b] \in bindHooks /\ binds[b].addr = b
      BY <2>1 DEF BindingsInv, BindsHooked
    <3>2. ASSUME NEW h \in bindHooks, h.addr = b PROVE h = binds[b]
      BY <2>1, <3>2, BoundHook
    <3>3. QED
      BY <3>1, <3>2
  <2>3. hostMemory' = [p \in Hosts |->
          IF p = P THEN bindings!Meant(hostMemory[p], 0, size, v) ELSE hostMemory[p]]
    BY <2>1, <2>2, StoredAsMeant
  <2>4. latest' = [p \in Hosts |->
          IF p = P THEN bindings!Meant(hostMemory[p], 0, size, v) ELSE hostMemory[p]]
    <3>1. latest = [p \in Hosts |-> hostMemory[p]]
      BY DEF SameWords
    <3>2. QED
      BY <2>1, <3>1
  <2>5. QED
    BY <2>3, <2>4 DEF SameWords
<1>4. CASE bindings!Next
  <2>1. ASSUME NEW k \in Goroutines,
               \/ \E b \in Blocks :
                    \/ bindings!Import(k, b) \/ bindings!Nested(k, b) \/ bindings!Unbind(k, b)
                    \/ \E p \in Hosts : bindings!Bind(k, b, p)
               \/ bindings!Write(k) \/ bindings!ImportReturns(k)
               \/ bindings!ImportFails(k) \/ bindings!Undo(k)
               \/ bindings!BindHooks(k) \/ bindings!BindFails(k) \/ bindings!BindStores(k)
               \/ bindings!UnbindCloses(k) \/ bindings!UnbindFrees(k)
        PROVE  UNCHANGED <<hostMemory, latest>>
    BY <2>1 DEF bindings!Import, bindings!Nested, bindings!Unbind, bindings!Bind,
       bindings!Write, bindings!ImportReturns, bindings!ImportFails, bindings!Undo,
       bindings!BindHooks, bindings!BindFails, bindings!BindStores, bindings!UnbindCloses,
       bindings!UnbindFrees
  <2>2. ASSUME NEW b \in Blocks, bindings!UserFrees(b) PROVE UNCHANGED <<hostMemory, latest>>
    BY <2>2 DEF bindings!UserFrees
  <2>3. CASE bindings!Dtor
    BY <1>1, <2>3 DEF bindings!Dtor
  <2>4. CASE \E p \in Hosts, w \in bindings!Words, v \in Values : bindings!HostWrites(p, w, v)
    BY <1>2, <2>4
  <2>5. CASE \E b \in Blocks, offset \in {0}, size \in 1 .. bindings!Size :
               \E v \in [1 .. size -> Values] : bindings!GuestWrites(b, offset, size, v)
    BY <1>3, <2>5
  <2>6. QED
    BY <1>1, <1>4, <2>1, <2>2, <2>3, <2>4, <2>5 DEF bindings!Next
<1>5. QED
  BY <1>1, <1>4 DEF bindings!vars

LEMMA ReadsSame == BindingsInv /\ SameWords => bindings!ReadsLatest
<1> SUFFICES ASSUME BindingsInv, SameWords, NEW b \in DOMAIN binds, NEW h \in bindHooks, h.addr = b
             PROVE  hostMemory[h.host] = latest[binds[b].host]
  BY DEF bindings!ReadsLatest, bindings!Reads
<1>1. h = binds[b]
  BY BoundHook
<1>2. QED
  BY <1>1 DEF SameWords

LEMMA BindingsStep ==
  ASSUME part = "bindings" => BindingsInv /\ SameWords, [PartsNext]_partsVars
  PROVE  (part = "bindings" => BindingsInv /\ SameWords)'
<1>1. SUFFICES ASSUME part' = "bindings" PROVE BindingsInv' /\ SameWords'
  OBVIOUS
<1>2. part = "bindings" /\ BindingsInv /\ SameWords
  BY <1>1 DEF PartsNext, partsVars
<1>3. [bindings!Next]_(bindings!vars)
  BY <1>2 DEF PartsNext, partsVars, bindVars, bindings!vars
<1>4. QED
  BY <1>2, <1>3, BindingsStay, SameWordsStep

(* Every block in use has one owner and every hook a binding (BlocksHeld    *)
(* and HooksOwned of Bindings), whatever fails half way.                    *)
THEOREM PartsBlocks == PartsSpec => []BlocksHeld
<1>1. PartsInit => (part = "bindings" => BindingsInv /\ SameWords)
  BY BindingsInit DEF PartsInit, Begin, bindings!Init, SameWords
<1>2. BindingsInv => bindings!BlocksHeld /\ bindings!HooksOwned
  BY HeldByOne DEF BindingsInv
<1>3. (part = "bindings" => BindingsInv /\ SameWords) => BlocksHeld
  BY <1>2 DEF BlocksHeld
<1>4. QED
  BY <1>1, <1>3, BindingsStep, PTL DEF PartsSpec

(* The guest reads from bound memory what was written last.                 *)
THEOREM PartsReads == PartsSpec => []ReadsLatest
<1>1. PartsInit => (part = "bindings" => BindingsInv /\ SameWords)
  BY BindingsInit DEF PartsInit, Begin, bindings!Init, SameWords
<1>2. (part = "bindings" => BindingsInv /\ SameWords) => ReadsLatest
  BY ReadsSame DEF ReadsLatest
<1>3. QED
  BY <1>1, <1>2, BindingsStep, PTL DEF PartsSpec

-----------------------------------------------------------------------------
(* Modules                                                                  *)

Room == Cardinality(Things)

MoveCalls == [op : {"move"}, of : Things, to : Nat, from : Nat]
FindCalls == [op : {"find"}, of : Things, i : Nat \ {0}, len : 0 .. Room, sure : BOOLEAN]

(* The elements of the slice are not cleared, those behind it are.          *)
ListTyped ==
  /\ array \in [1 .. Room -> Things \cup {NoModule}]
  /\ len \in 0 .. Room
  /\ moduleCall \in [Goroutines -> {modules!Idle} \cup MoveCalls \cup FindCalls]
  /\ \A i \in 1 .. Room : array[i] = NoModule <=> i > len

(* Modules are in the slice once; while one moves, but for where it goes.   *)
Once(S) == \A i, j \in S : array[i] = array[j] => i = j

ListOnce ==
  /\ \A k \in Goroutines : moduleCall[k].op = "move" =>
       /\ moduleCall[k].from = moduleCall[k].to + 1
       /\ moduleCall[k].to \in 1 .. len
       /\ Once((1 .. len) \ {moduleCall[k].to})
       /\ \A j \in Goroutines : moduleCall[j].op = "move" => j = k
       /\ \A j \in Goroutines : moduleCall[j].op # "find"
  /\ (\A k \in Goroutines : moduleCall[k].op # "move") => Once(1 .. len)

(* A lookup has what it looks for before it.                                *)
Ahead ==
  \A k \in Goroutines :
    moduleCall[k].op = "find" /\ moduleCall[k].sure =>
      \E j \in moduleCall[k].i .. moduleCall[k].len :
        j \in 1 .. Room /\ array[j] = moduleCall[k].of

ListInv == ListTyped /\ ListOnce /\ Ahead

LEMMA ListCardinality == \A S : modules!Cardinality(S) = Cardinality(S)
BY Zenon DEF modules!Cardinality, Cardinality

LEMMA RoomType == Room \in Nat
BY PartsAssumption, FS_CardinalityType DEF Room

(* The slice has as many modules as elements.                               *)
LEMMA ListedOnce ==
  ASSUME ListTyped, Once(1 .. len)
  PROVE  /\ modules!Listed \subseteq Things
         /\ IsFiniteSet(modules!Listed) /\ Cardinality(modules!Listed) = len
<1> DEFINE L == {array[i] : i \in 1 .. len}
           F == [i \in 1 .. len |-> array[i]]
<1>1. L = modules!Listed
  BY DEF modules!Listed
<1>2. len \in Nat /\ 1 .. len \subseteq 1 .. Room
  BY RoomType DEF ListTyped
<1>3. L \subseteq Things
  BY <1>2 DEF ListTyped
<1>4. F \in Bijection(1 .. len, L)
  <2>1. F \in [1 .. len -> L]
    OBVIOUS
  <2>2. \A i, j \in 1 .. len : F[i] = F[j] => i = j
    BY DEF Once
  <2>3. \A m \in L : \E i \in 1 .. len : F[i] = m
    OBVIOUS
  <2>4. QED
    BY <2>1, <2>2, <2>3, Fun_IsBij
<1>5. IsFiniteSet(1 .. len) /\ Cardinality(1 .. len) = len
  BY <1>2, FS_Interval
<1>6. ExistsBijection(1 .. len, L)
  BY <1>4 DEF ExistsBijection
<1> HIDE DEF L, F
<1>7. IsFiniteSet(L) /\ Cardinality(L) = len
  BY <1>5, <1>6, FS_Bijection
<1>8. QED
  BY <1>1, <1>3, <1>7

(* Load finds room: the module is not in the list.                          *)
LEMMA RoomToLoad ==
  ASSUME ListTyped, Once(1 .. len), NEW m \in Things, m \notin modules!Listed
  PROVE  len + 1 \in 1 .. Room
<1> DEFINE L == modules!Listed
<1>1. L \subseteq Things /\ IsFiniteSet(L) /\ Cardinality(L) = len
  BY ListedOnce
<1> HIDE DEF L
<1>2. IsFiniteSet(L \cup {m}) /\ Cardinality(L \cup {m}) = len + 1
  BY <1>1, FS_AddElement DEF L
<1>3. Cardinality(L \cup {m}) <= Room
  BY <1>1, FS_Subset, PartsAssumption DEF Room
<1>4. QED
  BY <1>2, <1>3, RoomType DEF ListTyped

LEMMA NoMoves == modules!Unlocked <=> \A k \in Goroutines : moduleCall[k].op # "move"
BY DEF modules!Unlocked, modules!Doing

LEMMA LoadStep ==
  ASSUME ListInv, NEW m \in Things, modules!Load(m)
  PROVE  ListInv'
<1>1. m \notin modules!Listed /\ \A k \in Goroutines : moduleCall[k].op # "move"
  BY NoMoves DEF modules!Load
<1>2. Once(1 .. len) /\ ListTyped
  BY <1>1 DEF ListInv, ListOnce
<1>3. PICK n \in 1 .. Room : n = len + 1
  BY <1>1, <1>2, RoomToLoad
<1>4. /\ array' \in [1 .. Room -> Things \cup {NoModule}] /\ array'[n] = m
      /\ \A i \in 1 .. Room \ {n} : array'[i] = array[i]
      /\ len' = n /\ moduleCall' = moduleCall
  BY <1>2, <1>3 DEF modules!Load, ListTyped
<1>5. m # NoModule /\ array[n] = NoModule
  BY <1>2, <1>3, PartsAssumption DEF ListTyped
<1>6. len \in Nat /\ Room \in Nat /\ 1 .. n = 1 .. len \cup {n}
  BY <1>2, <1>3, RoomType DEF ListTyped
<1>7. ListTyped'
  <2>1. \A i \in 1 .. Room : array'[i] = NoModule <=> i > n
    <3>1. SUFFICES ASSUME NEW i \in 1 .. Room PROVE array'[i] = NoModule <=> i > n
      OBVIOUS
    <3>2. CASE i = n
      BY <1>4, <1>5, <3>2
    <3>3. CASE i # n
      BY <1>2, <1>3, <1>4, <1>6, <3>3 DEF ListTyped
    <3>4. QED
      BY <3>2, <3>3
  <2>2. QED
    BY <1>2, <1>4, <1>6, <2>1 DEF ListTyped, modules!Idle
<1>8. ListOnce'
  <2>1. \A i \in 1 .. len : array'[i] = array[i] /\ array[i] # m
    BY <1>1, <1>3, <1>4, <1>6 DEF modules!Listed
  <2>2. Once(1 .. n)'
    BY <1>2, <1>4, <1>6, <2>1 DEF Once
  <2>3. QED
    BY <1>1, <1>4, <2>2 DEF ListOnce
<1>9. Ahead'
  <2>1. \A j \in 1 .. Room, f \in Things : array[j] = f => array'[j] = f
    BY <1>4, <1>5, PartsAssumption
  <2>2. \A k \in Goroutines : moduleCall[k].op = "find" => moduleCall[k].of \in Things
    BY <1>2 DEF ListTyped, MoveCalls, FindCalls, modules!Idle
  <2>3. QED
    BY <1>4, <2>1, <2>2 DEF ListInv, Ahead
<1>10. QED
  BY <1>7, <1>8, <1>9 DEF ListInv

(* What a call is, by its op                                                *)
LEMMA ListCalls ==
  ASSUME ListTyped, NEW k \in Goroutines
  PROVE  /\ moduleCall[k].op = "move" => moduleCall[k] \in MoveCalls
         /\ moduleCall[k].op = "find" => moduleCall[k] \in FindCalls
         /\ modules!Idle.op = "idle"
         /\ moduleCall[k] = modules!Idle => moduleCall[k].op = "idle"
BY DEF ListTyped, MoveCalls, FindCalls, modules!Idle

(* A lookup or Unload that ends leaves its goroutine idle.                  *)
LEMMA ReturnStep ==
  ASSUME ListInv, NEW k \in Goroutines, moduleCall[k].op = "find",
         UNCHANGED <<array, len>>, moduleCall' = [moduleCall EXCEPT ![k] = modules!Idle]
  PROVE  ListInv'
<1>1. /\ moduleCall'[k] = modules!Idle /\ moduleCall'[k].op = "idle"
      /\ \A j \in Goroutines \ {k} : moduleCall'[j] = moduleCall[j]
  BY DEF ListInv, ListTyped, modules!Idle
<1>2. ListTyped'
  BY DEF ListInv, ListTyped
<1>3. ListOnce'
  BY <1>1 DEF ListInv, ListOnce, Once
<1>4. Ahead'
  BY <1>1 DEF ListInv, Ahead
<1>5. QED
  BY <1>2, <1>3, <1>4 DEF ListInv

LEMMA FindStep ==
  ASSUME ListInv, NEW k \in Goroutines, NEW m \in Things, modules!Find(k, m)
  PROVE  ListInv'
<1>1. ListTyped /\ ListOnce /\ Ahead
  BY DEF ListInv
<1>2. /\ moduleCall[k] = modules!Idle /\ modules!Unlocked
      /\ UNCHANGED <<array, len>>
  BY DEF modules!Find
<1> DEFINE c == [op |-> "find", of |-> m, i |-> 1, len |-> len,
                 sure |-> m \in modules!Listed /\ modules!Unlocked]
<1>3. c \in FindCalls
  BY <1>1 DEF FindCalls, ListTyped
<1>4. moduleCall' = [moduleCall EXCEPT ![k] = c]
  BY DEF modules!Find
<1>5. c.op = "find" /\ c.of = m /\ c.i = 1 /\ c.len = len /\ (c.sure => m \in modules!Listed)
  OBVIOUS
<1> HIDE DEF c
<1>6. moduleCall'[k] = c /\ \A j \in Goroutines \ {k} : moduleCall'[j] = moduleCall[j]
  BY <1>1, <1>4 DEF ListTyped
<1>7. \A j \in Goroutines : moduleCall[j].op # "move"
  BY <1>2, NoMoves
<1>8. ListTyped'
  BY <1>1, <1>2, <1>3, <1>4 DEF ListTyped
<1>9. ListOnce'
  <2>1. \A j \in Goroutines : moduleCall'[j].op # "move"
    BY <1>5, <1>6, <1>7
  <2>2. Once(1 .. len)'
    BY <1>1, <1>2, <1>7 DEF ListOnce, Once
  <2>3. QED
    BY <1>2, <2>1, <2>2 DEF ListOnce
<1>10. Ahead'
  <2>1. ASSUME c.sure PROVE \E j \in c.i .. c.len : j \in 1 .. Room /\ array[j] = c.of
    <3>1. PICK j \in 1 .. len : array[j] = m
      BY <1>5, <2>1 DEF modules!Listed
    <3>2. j \in c.i .. c.len /\ j \in 1 .. Room
      BY <1>1, <1>5, RoomType DEF ListTyped
    <3>3. QED
      BY <1>5, <3>1, <3>2
  <2>2. QED
    BY <1>1, <1>2, <1>6, <2>1 DEF Ahead
<1>11. QED
  BY <1>8, <1>9, <1>10 DEF ListInv

LEMMA SkipStep ==
  ASSUME ListInv, NEW k \in Goroutines, modules!Skip(k)
  PROVE  ListInv'
<1>1. ListTyped /\ ListOnce /\ Ahead
  BY DEF ListInv
<1>2. /\ moduleCall[k].op = "find" /\ UNCHANGED <<array, len>>
      /\ array[moduleCall[k].i] # moduleCall[k].of
      /\ moduleCall' = [moduleCall EXCEPT ![k].i = @ + 1]
  BY DEF modules!Skip, modules!Looks
<1>3. moduleCall[k] \in FindCalls
  BY <1>1, <1>2, ListCalls
<1>4. /\ moduleCall'[k] \in FindCalls /\ moduleCall'[k].i = moduleCall[k].i + 1
      /\ moduleCall'[k].op = "find" /\ moduleCall'[k].of = moduleCall[k].of
      /\ moduleCall'[k].len = moduleCall[k].len /\ moduleCall'[k].sure = moduleCall[k].sure
      /\ \A j \in Goroutines \ {k} : moduleCall'[j] = moduleCall[j]
  BY <1>1, <1>2, <1>3 DEF ListTyped, FindCalls
<1>5. ListTyped'
  BY <1>1, <1>2, <1>4 DEF ListTyped
<1>6. ListOnce'
  <2>1. \A j \in Goroutines : moduleCall[j].op # "move"
    BY <1>1, <1>2 DEF ListOnce
  <2>2. \A j \in Goroutines : moduleCall'[j].op # "move"
    BY <1>4, <2>1
  <2>3. Once(1 .. len)'
    BY <1>1, <1>2, <2>1 DEF ListOnce, Once
  <2>4. QED
    BY <1>2, <2>2, <2>3 DEF ListOnce
<1>7. Ahead'
  <2>1. ASSUME moduleCall[k].sure
        PROVE  \E j \in moduleCall'[k].i .. moduleCall'[k].len :
                 j \in 1 .. Room /\ array[j] = moduleCall'[k].of
    <3>1. PICK j \in moduleCall[k].i .. moduleCall[k].len :
            j \in 1 .. Room /\ array[j] = moduleCall[k].of
      BY <1>1, <1>2, <2>1 DEF Ahead
    <3>2. j # moduleCall[k].i /\ moduleCall[k].i \in Nat /\ moduleCall[k].len \in Nat
      BY <1>2, <1>3, <3>1, RoomType DEF FindCalls
    <3>3. j \in moduleCall'[k].i .. moduleCall'[k].len
      BY <1>4, <3>1, <3>2
    <3>4. QED
      BY <1>4, <3>1, <3>3
  <2>2. QED
    BY <1>1, <1>2, <1>4, <2>1 DEF Ahead
<1>8. QED
  BY <1>5, <1>6, <1>7 DEF ListInv

LEMMA UnloadStep ==
  ASSUME ListInv, NEW k \in Goroutines, NEW m \in Things, modules!Unload(k, m)
  PROVE  ListInv'
<1>1. ListTyped /\ ListOnce /\ Ahead
  BY DEF ListInv
<1>2. /\ \A j \in Goroutines : moduleCall[j].op \notin {"move", "find"}
      /\ UNCHANGED <<array, len>>
  BY NoMoves DEF modules!Unload, modules!Doing
<1>3. PICK i \in 1 .. len :
        moduleCall' = [j \in Goroutines |->
          IF j = k THEN [op |-> "move", of |-> m, to |-> i, from |-> i + 1] ELSE moduleCall[j]]
  <2>1. PICK i \in 1 .. len :
          moduleCall' = [j \in Goroutines |->
            IF j = k THEN [op |-> "move", of |-> m, to |-> i, from |-> i + 1]
            ELSE IF moduleCall[j].op = "find" /\ moduleCall[j].of = m
            THEN [moduleCall[j] EXCEPT !.sure = FALSE] ELSE moduleCall[j]]
    BY DEF modules!Unload
  <2>2. QED
    BY <1>2, <2>1
<1>4. i \in Nat /\ i + 1 \in Nat
  BY <1>1, RoomType DEF ListTyped
<1>5. /\ moduleCall'[k] \in MoveCalls /\ moduleCall'[k].op = "move"
      /\ moduleCall'[k].to = i /\ moduleCall'[k].from = i + 1
      /\ \A j \in Goroutines \ {k} : moduleCall'[j] = moduleCall[j]
  BY <1>3, <1>4 DEF MoveCalls
<1>6. ListTyped'
  BY <1>1, <1>2, <1>3, <1>5 DEF ListTyped
<1>7. ListOnce'
  <2>1. Once((1 .. len) \ {i})'
    BY <1>1, <1>2 DEF ListOnce, Once
  <2>2. \A j \in Goroutines : moduleCall'[j].op # "find" /\ (moduleCall'[j].op = "move" => j = k)
    BY <1>2, <1>5
  <2>3. QED
    BY <1>2, <1>5, <2>1, <2>2 DEF ListOnce
<1>8. Ahead'
  BY <1>2, <1>5 DEF Ahead
<1>9. QED
  BY <1>6, <1>7, <1>8 DEF ListInv

LEMMA MoveStep ==
  ASSUME ListInv, NEW k \in Goroutines, modules!Move(k)
  PROVE  ListInv'
<1>1. ListTyped /\ ListOnce
  BY DEF ListInv
<1>2. /\ moduleCall[k].op = "move" /\ moduleCall[k].from <= len /\ len' = len
      /\ array' = [array EXCEPT ![moduleCall[k].to] = array[moduleCall[k].from]]
      /\ moduleCall' = [moduleCall EXCEPT ![k].from = @ + 1, ![k].to = @ + 1]
  BY DEF modules!Move
<1>3. moduleCall[k] \in MoveCalls
  BY <1>1, <1>2, ListCalls
<1>4. PICK i \in 1 .. len : i = moduleCall[k].to /\ i + 1 = moduleCall[k].from
  BY <1>1, <1>2 DEF ListOnce
<1>5. len \in Nat /\ Room \in Nat /\ len <= Room /\ i + 1 \in 1 .. len /\ i + 2 \in Nat
      /\ i \in 1 .. Room /\ i + 1 \in 1 .. Room
  BY <1>1, <1>2, <1>4, RoomType DEF ListTyped
<1>6. /\ moduleCall'[k] \in MoveCalls /\ moduleCall'[k].op = "move"
      /\ moduleCall'[k].to = i + 1 /\ moduleCall'[k].from = i + 2
      /\ \A j \in Goroutines \ {k} : moduleCall'[j] = moduleCall[j]
      /\ moduleCall' \in [Goroutines -> {modules!Idle} \cup MoveCalls \cup FindCalls]
  BY <1>1, <1>2, <1>3, <1>4, <1>5 DEF ListTyped, MoveCalls
<1>7. /\ array' \in [1 .. Room -> Things \cup {NoModule}] /\ array'[i] = array[i + 1]
      /\ \A j \in 1 .. Room \ {i} : array'[j] = array[j]
  BY <1>1, <1>2, <1>4, <1>5 DEF ListTyped
<1>8. ListTyped'
  <2>1. \A j \in 1 .. Room : array'[j] = NoModule <=> j > len
    <3>1. SUFFICES ASSUME NEW j \in 1 .. Room PROVE array'[j] = NoModule <=> j > len
      OBVIOUS
    <3>2. CASE j = i
      BY <1>1, <1>5, <1>7, <3>2 DEF ListTyped
    <3>3. CASE j # i
      BY <1>1, <1>7, <3>3 DEF ListTyped
    <3>4. QED
      BY <3>2, <3>3
  <2>2. QED
    BY <1>1, <1>2, <1>6, <1>7, <2>1 DEF ListTyped
<1>9. ListOnce'
  <2>1. Once((1 .. len) \ {i})
    BY <1>1, <1>2, <1>4 DEF ListOnce
  <2>2. ASSUME NEW a \in (1 .. len) \ {i + 1}, NEW b \in (1 .. len) \ {i + 1}, array'[a] = array'[b]
        PROVE  a = b
    <3>1. a \in 1 .. Room /\ b \in 1 .. Room
      BY <1>5
    <3>2. i + 1 # i /\ i + 1 \in (1 .. len) \ {i}
      BY <1>5
    <3>3. CASE a # i /\ b # i
      BY <1>7, <2>1, <2>2, <3>1, <3>3 DEF Once
    <3>4. CASE a = i /\ b # i
      BY <1>7, <2>1, <2>2, <3>1, <3>2, <3>4 DEF Once
    <3>5. CASE a # i /\ b = i
      BY <1>7, <2>1, <2>2, <3>1, <3>2, <3>5 DEF Once
    <3>6. QED
      BY <3>3, <3>4, <3>5
  <2>3. Once((1 .. len) \ {i + 1})'
    BY <1>2, <2>2 DEF Once
  <2>4. \A j \in Goroutines : moduleCall'[j].op # "find" /\ (moduleCall'[j].op = "move" => j = k)
    BY <1>1, <1>2, <1>6 DEF ListOnce
  <2>5. moduleCall'[k].from = moduleCall'[k].to + 1 /\ moduleCall'[k].to \in 1 .. len'
    BY <1>2, <1>5, <1>6
  <2>6. QED
    BY <1>2, <1>6, <2>3, <2>4, <2>5 DEF ListOnce
<1>10. Ahead'
  BY <1>1, <1>2, <1>6 DEF ListOnce, Ahead
<1>11. QED
  BY <1>8, <1>9, <1>10 DEF ListInv

LEMMA ClearStep ==
  ASSUME ListInv, NEW k \in Goroutines, modules!Clear(k)
  PROVE  ListInv'
<1>1. ListTyped /\ ListOnce
  BY DEF ListInv
<1>2. /\ moduleCall[k].op = "move" /\ moduleCall[k].from > len
      /\ array' = [i \in DOMAIN array |-> IF i \in moduleCall[k].to .. len THEN NoModule ELSE array[i]]
      /\ len' = moduleCall[k].to - 1
      /\ moduleCall' = [moduleCall EXCEPT ![k] = modules!Idle]
  BY DEF modules!Clear
<1>3. len \in Nat /\ len <= Room /\ Room \in Nat
  BY <1>1, RoomType DEF ListTyped
<1>4. moduleCall[k].to = len /\ len > 0
  <2>1. PICK i \in 1 .. len : i = moduleCall[k].to /\ i + 1 = moduleCall[k].from
    BY <1>1, <1>2 DEF ListOnce
  <2>2. QED
    BY <1>2, <1>3, <2>1
<1>5. /\ len' = len - 1 /\ len' \in 0 .. Room
      /\ array' = [i \in 1 .. Room |-> IF i = len THEN NoModule ELSE array[i]]
  BY <1>1, <1>2, <1>3, <1>4 DEF ListTyped
<1>6. /\ moduleCall'[k] = modules!Idle /\ moduleCall'[k].op = "idle"
      /\ \A j \in Goroutines \ {k} : moduleCall'[j] = moduleCall[j]
      /\ moduleCall' \in [Goroutines -> {modules!Idle} \cup MoveCalls \cup FindCalls]
  BY <1>1, <1>2 DEF ListTyped, modules!Idle
<1>7. ListTyped'
  <2>1. array' \in [1 .. Room -> Things \cup {NoModule}]
    BY <1>1, <1>5 DEF ListTyped
  <2>2. \A i \in 1 .. Room : array'[i] = NoModule <=> i > len'
    BY <1>1, <1>3, <1>5 DEF ListTyped
  <2>3. QED
    BY <1>5, <1>6, <2>1, <2>2 DEF ListTyped
<1>8. \A j \in Goroutines : moduleCall'[j].op \notin {"find", "move"}
  BY <1>1, <1>2, <1>6 DEF ListOnce
<1>9. ListOnce'
  <2>1. Once((1 .. len) \ {len})
    BY <1>1, <1>2, <1>4 DEF ListOnce
  <2>2. \A i \in 1 .. len' : i \in (1 .. len) \ {len} /\ array'[i] = array[i]
    BY <1>3, <1>5
  <2>3. Once(1 .. len)'
    BY <2>1, <2>2 DEF Once
  <2>4. QED
    BY <1>8, <2>3 DEF ListOnce
<1>10. Ahead'
  BY <1>8 DEF Ahead
<1>11. QED
  BY <1>7, <1>9, <1>10 DEF ListInv

LEMMA ListInit == ASSUME modules!Init PROVE ListInv
<1>1. Room \in Nat /\ modules!Cardinality(Things) = Room
  BY RoomType, ListCardinality DEF Room
<1>2. array = [i \in 1 .. Room |-> NoModule] /\ len = 0 /\ moduleCall = [k \in Goroutines |-> modules!Idle]
  BY <1>1 DEF modules!Init
<1>3. \A k \in Goroutines : moduleCall[k].op = "idle"
  BY <1>2 DEF modules!Idle
<1>4. ListTyped
  BY <1>1, <1>2 DEF ListTyped
<1>5. ListOnce /\ Ahead
  BY <1>2, <1>3 DEF ListOnce, Ahead, Once
<1>6. QED
  BY <1>4, <1>5 DEF ListInv

LEMMA ListNext == ASSUME ListInv, modules!Next PROVE ListInv'
<1>1. ASSUME NEW k \in Goroutines, modules!Found(k) \/ modules!NotFound(k) PROVE ListInv'
  BY <1>1, ReturnStep DEF modules!Found, modules!NotFound, modules!Looks
<1>2. QED
  BY <1>1, LoadStep, UnloadStep, MoveStep, ClearStep, FindStep, SkipStep DEF modules!Next

LEMMA ListStays == ASSUME ListInv, UNCHANGED moduleVars PROVE ListInv'
BY DEF moduleVars, ListInv, ListTyped, ListOnce, Ahead, Once

(* A lookup finds a module that is loaded all the time it takes             *)
(* (LoadedIsFound of ModuleList), and between the calls the slice holds     *)
(* every module once and nothing else (Settled).                            *)
THEOREM PartsLoadedIsFound == PartsSpec => []LoadedIsFound
<1> DEFINE Inv == part = "modules" => ListInv
<1>1. PartsInit => Inv
  BY ListInit DEF PartsInit, Begin
<1>2. Inv /\ [PartsNext]_partsVars => Inv'
  <2>1. SUFFICES ASSUME Inv, [PartsNext]_partsVars, part' = "modules" PROVE ListInv'
    OBVIOUS
  <2>2. part = "modules" /\ ListInv
    BY <2>1 DEF PartsNext, partsVars
  <2>3. modules!Next \/ UNCHANGED moduleVars
    BY <2>1, <2>2 DEF PartsNext, partsVars
  <2>4. QED
    BY <2>2, <2>3, ListNext, ListStays
<1>3. Inv => LoadedIsFound
  <2>1. SUFFICES ASSUME ListInv PROVE modules!LoadedIsFound /\ modules!Settled
    BY DEF LoadedIsFound
  <2>2. modules!LoadedIsFound
    <3>1. SUFFICES ASSUME NEW k \in Goroutines, moduleCall[k].op = "find", moduleCall[k].sure
                   PROVE  \E i \in moduleCall[k].i .. moduleCall[k].len :
                            modules!Looks(k) /\ array[i] = moduleCall[k].of
      BY DEF modules!LoadedIsFound
    <3>2. PICK j \in moduleCall[k].i .. moduleCall[k].len : array[j] = moduleCall[k].of
      BY <2>1, <3>1 DEF ListInv, Ahead
    <3>3. moduleCall[k].i \in Nat /\ moduleCall[k].len \in Nat
      BY <2>1, <3>1, ListCalls, RoomType DEF ListInv, FindCalls
    <3>4. moduleCall[k].i <= moduleCall[k].len
      BY <3>2, <3>3
    <3>5. QED
      BY <3>1, <3>2, <3>4 DEF modules!Looks
  <2>3. modules!Settled
    <3>1. SUFFICES ASSUME modules!Unlocked
                   PROVE  /\ \A i \in DOMAIN array : array[i] = NoModule <=> i > len
                          /\ modules!Cardinality(modules!Listed) = len
      BY DEF modules!Settled
    <3>2. ListTyped /\ Once(1 .. len)
      BY <2>1, <3>1, NoMoves DEF ListInv, ListOnce
    <3>3. Cardinality(modules!Listed) = len
      BY <3>2, ListedOnce
    <3>4. QED
      BY <3>2, <3>3, ListCardinality DEF ListTyped
  <2>4. QED
    BY <2>2, <2>3
<1>4. QED
  BY <1>1, <1>2, <1>3, PTL DEF PartsSpec

-----------------------------------------------------------------------------
(* File descriptors                                                         *)

AllFiles == files!Std \cup Things

StoreCalls == [step : {"store"}, to : 0 .. MaxFd, file : Things]
CloseCalls == [step : {"close"}, file : AllFiles]

(* A number is stored to by one caller, and nothing was stored there; the   *)
(* host's files have standard descriptors only, which are never counted up. *)
FilesTyped ==
  /\ fd \in 3 .. MaxFd
  /\ DOMAIN fileMap \subseteq 0 .. fd
  /\ fileMap \in [DOMAIN fileMap -> AllFiles]
  /\ \A n \in DOMAIN fileMap : fileMap[n] \in files!Std => n < 3
  /\ refs \subseteq AllFiles /\ files!Std \subseteq refs
  /\ count \in [AllFiles -> Int] /\ fileCloses \in [AllFiles -> Nat]
  /\ \A f \in files!Std : count[f] <= 0 /\ fileCloses[f] = 0
  /\ doing \in [Goroutines -> {files!Idle} \cup StoreCalls \cup CloseCalls]
  /\ \A c \in Goroutines : doing[c].step = "store" =>
       /\ doing[c].to \notin DOMAIN fileMap /\ doing[c].to <= fd
       /\ \A d \in Goroutines : doing[d].step = "store" /\ doing[d].to = doing[c].to => d = c
  /\ filesDown \in BOOLEAN
  /\ filesDown => DOMAIN fileMap = {}

(* Who has a file: descriptors, callers who close it, callers who store it  *)
Open(f) == {n \in DOMAIN fileMap : fileMap[n] = f}
Held(f) == {c \in Goroutines : doing[c] = files!Close(f)}
New(f) == {c \in Goroutines : doing[c].step = "store" /\ doing[c].file = f}
Users(f) == Cardinality(Open(f)) + Cardinality(Held(f)) + Cardinality(New(f))

(* A file without a fileRef has one user; a fileRef counts its users, and   *)
(* after dtor those too who are gone.                                       *)
FileCounted(f) ==
  /\ f \notin refs => Users(f) <= 1 /\ (fileCloses[f] = 0 => count[f] = 1)
  /\ f \in refs => Users(f) <= count[f] /\ (~filesDown => count[f] = Users(f))
  /\ Users(f) > 0 => fileCloses[f] = 0
  /\ fileCloses[f] <= 1
  /\ ~filesDown /\ f \in refs /\ Users(f) = 0 => fileCloses[f] = 1

FilesInv == FilesTyped /\ \A f \in Things : FileCounted(f)

LEMMA UsersType ==
  ASSUME FilesTyped, NEW f
  PROVE  /\ IsFiniteSet(Open(f)) /\ IsFiniteSet(Held(f)) /\ IsFiniteSet(New(f))
         /\ Cardinality(Open(f)) \in Nat /\ Cardinality(Held(f)) \in Nat
         /\ Cardinality(New(f)) \in Nat /\ Users(f) \in Nat
         /\ Users(f) = 0 <=> Open(f) = {} /\ Held(f) = {} /\ New(f) = {}
<1>1. Open(f) \subseteq 0 .. fd /\ Held(f) \subseteq Goroutines /\ New(f) \subseteq Goroutines
  BY DEF FilesTyped, Open, Held, New
<1>2. IsFiniteSet(0 .. fd) /\ IsFiniteSet(Goroutines)
  <2>1. fd \in Int
    BY PartsAssumption DEF FilesTyped
  <2>2. QED
    BY <2>1, PartsAssumption, FS_Interval
<1>3. IsFiniteSet(Open(f)) /\ IsFiniteSet(Held(f)) /\ IsFiniteSet(New(f))
  BY <1>1, <1>2, FS_Subset
<1>4. /\ Cardinality(Open(f)) \in Nat /\ Cardinality(Held(f)) \in Nat
      /\ Cardinality(New(f)) \in Nat
      /\ Cardinality(Open(f)) = 0 <=> Open(f) = {}
      /\ Cardinality(Held(f)) = 0 <=> Held(f) = {}
      /\ Cardinality(New(f)) = 0 <=> New(f) = {}
  BY <1>3, FS_CardinalityType, FS_EmptySet
<1>5. QED
  BY <1>3, <1>4 DEF Users

LEMMA UsersCount == FilesTyped => \A g : Users(g) \in Nat
BY UsersType

(* What a step may do to the users of a file                                *)
Stays(f) ==
  /\ Users(f)' = Users(f) /\ count'[f] = count[f] /\ fileCloses'[f] = fileCloses[f]
  /\ f \in refs' <=> f \in refs
  /\ filesDown' = filesDown
Begins(f) ==
  /\ Users(f) = 0 /\ ~filesDown /\ fileCloses[f] = 0
  /\ Users(f)' = 1 /\ count'[f] = count[f] /\ fileCloses'[f] = fileCloses[f]
  /\ f \in refs' <=> f \in refs
  /\ filesDown' = filesDown
Shares(f) ==
  /\ Users(f) > 0 /\ ~filesDown
  /\ Users(f)' = Users(f) + 1 /\ count'[f] = count[f] + 1 /\ fileCloses'[f] = fileCloses[f]
  /\ f \in refs'
  /\ filesDown' = filesDown
Leaves(f) ==
  /\ Users(f) > 0
  /\ Users(f)' = Users(f) - 1 /\ count'[f] = count[f] - 1
  /\ fileCloses'[f] = IF files!LastOf(f) THEN fileCloses[f] + 1 ELSE fileCloses[f]
  /\ f \in refs' <=> f \in refs
  /\ filesDown' = filesDown
Forgets(f) ==
  /\ Users(f)' <= Users(f) /\ count'[f] = count[f] /\ fileCloses'[f] = fileCloses[f]
  /\ f \in refs' <=> f \in refs
  /\ filesDown'

Uses(f) == Stays(f) \/ Begins(f) \/ Shares(f) \/ Leaves(f) \/ Forgets(f)

LEMMA UsesCounted ==
  ASSUME FilesTyped, FilesTyped', NEW f \in Things, FileCounted(f), Uses(f)
  PROVE  /\ FileCounted(f)'
         /\ Users(f) > 0 /\ ~filesDown' => Users(f)' > 0 \/ fileCloses'[f] = 1
<1>1. Users(f) \in Nat /\ Users(f)' \in Nat
  <2>1. Users(f) \in Nat
    BY UsersType
  <2>2. (FilesTyped => \A g : Users(g) \in Nat)'
    BY UsersCount, PTL
  <2>3. QED
    BY <2>1, <2>2
<1>2. /\ count[f] \in Int /\ count'[f] \in Int
      /\ fileCloses[f] \in Nat /\ fileCloses'[f] \in Nat
      /\ filesDown \in BOOLEAN /\ filesDown' \in BOOLEAN
  BY DEF FilesTyped, AllFiles
<1>3. CASE Stays(f)
  BY <1>1, <1>2, <1>3 DEF FileCounted, Stays
<1>4. CASE Begins(f)
  BY <1>1, <1>2, <1>4 DEF FileCounted, Begins
<1>5. CASE Shares(f)
  BY <1>1, <1>2, <1>5 DEF FileCounted, Shares
<1>6. CASE Leaves(f)
  BY <1>1, <1>2, <1>6 DEF FileCounted, Leaves, files!LastOf
<1>7. CASE Forgets(f)
  BY <1>1, <1>2, <1>7 DEF FileCounted, Forgets
<1>8. QED
  BY <1>3, <1>4, <1>5, <1>6, <1>7 DEF Uses

(* A member more or less                                                    *)
LEMMA OneMore ==
  ASSUME NEW S, IsFiniteSet(S), NEW x, x \notin S
  PROVE  Cardinality(S \cup {x}) = Cardinality(S) + 1 /\ Cardinality(S) \in Nat
BY FS_AddElement, FS_CardinalityType

LEMMA OneLess ==
  ASSUME NEW S, IsFiniteSet(S), NEW x \in S
  PROVE  Cardinality(S \ {x}) = Cardinality(S) - 1 /\ Cardinality(S) \in Nat
BY FS_RemoveElement, FS_CardinalityType

(* What a caller does next is no other call.                                *)
LEMMA CallKinds ==
  ASSUME FilesTyped, NEW c \in Goroutines
  PROVE  /\ doing[c].step = "store" <=> doing[c] \in StoreCalls
         /\ doing[c].step = "close" <=> doing[c] \in CloseCalls
         /\ doing[c].step = "close" => doing[c] = files!Close(doing[c].file)
         /\ doing[c] = files!Idle => doing[c].step = "idle"
         /\ doing[c].step # "idle" => doing[c].file \in AllFiles
         /\ \A f : doing[c] = files!Close(f) => doing[c].step = "close" /\ doing[c].file = f
<1>1. doing[c] \in {files!Idle} \cup StoreCalls \cup CloseCalls
  BY DEF FilesTyped
<1>2. QED
  BY <1>1 DEF files!Idle, files!Close, StoreCalls, CloseCalls, AllFiles

LEMMA IdleHoldsNone == \A f : files!Idle # files!Close(f)
<1>1. ASSUME NEW f, files!Idle = files!Close(f) PROVE FALSE
  <2>1. files!Idle.step = "idle" /\ files!Close(f).step = "close"
    BY DEF files!Idle, files!Close
  <2>2. QED
    BY <1>1, <2>1
<1>2. QED
  BY <1>1

LEMMA ReserveUses ==
  ASSUME FilesInv, NEW c \in Goroutines, NEW g \in Things, files!Reserve(c, g)
  PROVE  FilesTyped' /\ \A f \in Things : Uses(f)
<1>1. FilesTyped /\ FileCounted(g)
  BY DEF FilesInv
<1>2. /\ doing[c] = files!Idle /\ fd < MaxFd /\ fd' = fd + 1
      /\ ~files!Described(g) /\ ~files!InHands(g) /\ fileCloses[g] = 0 /\ ~filesDown
      /\ doing' = [doing EXCEPT ![c] = files!Store(fd + 1, g)]
      /\ UNCHANGED <<fileMap, refs, count, fileCloses, filesDown>>
  BY DEF files!Reserve
<1> DEFINE s == files!Store(fd + 1, g)
<1>3. fd \in Int /\ MaxFd \in Int /\ fd + 1 \in 0 .. MaxFd /\ 3 <= fd
  BY <1>1, <1>2, PartsAssumption DEF FilesTyped
<1>4. s \in StoreCalls /\ s.step = "store" /\ s.to = fd + 1 /\ s.file = g
  BY <1>3 DEF StoreCalls, files!Store
<1>5. \A f : s # files!Close(f)
  BY DEF files!Store, files!Close
<1> HIDE DEF s
<1>6. doing'[c] = s /\ \A d \in Goroutines \ {c} : doing'[d] = doing[d]
  BY <1>1, <1>2 DEF FilesTyped, s
<1>7. doing[c].step = "idle"
  BY <1>1, <1>2, CallKinds
<1>8. FilesTyped'
  <2>1. doing' \in [Goroutines -> {files!Idle} \cup StoreCalls \cup CloseCalls]
    BY <1>1, <1>2, <1>4 DEF FilesTyped, s
  <2>2. fd' \in 3 .. MaxFd /\ DOMAIN fileMap \subseteq 0 .. fd'
    BY <1>1, <1>2, <1>3 DEF FilesTyped
  <2>3. ASSUME NEW d \in Goroutines, doing'[d].step = "store"
        PROVE  /\ doing'[d].to \notin DOMAIN fileMap /\ doing'[d].to <= fd'
               /\ \A e \in Goroutines :
                    doing'[e].step = "store" /\ doing'[e].to = doing'[d].to => e = d
    <3>1. fd + 1 \notin DOMAIN fileMap /\ fd + 1 <= fd'
      BY <1>1, <1>2, <1>3 DEF FilesTyped
    <3>2. \A e \in Goroutines : doing[e].step = "store" =>
            /\ doing[e].to \notin DOMAIN fileMap /\ doing[e].to <= fd' /\ doing[e].to # fd + 1
            /\ \A b \in Goroutines : doing[b].step = "store" /\ doing[b].to = doing[e].to => b = e
      <4>1. SUFFICES ASSUME NEW e \in Goroutines, doing[e].step = "store"
                     PROVE  doing[e].to <= fd' /\ doing[e].to # fd + 1
        BY <1>1 DEF FilesTyped
      <4>2. doing[e].to <= fd /\ doing[e] \in StoreCalls
        BY <1>1, <4>1, CallKinds DEF FilesTyped
      <4>3. QED
        BY <1>2, <1>3, <4>2 DEF StoreCalls
    <3>3. CASE d = c
      BY <1>4, <1>6, <3>1, <3>2, <3>3
    <3>4. CASE d # c
      BY <1>4, <1>6, <2>3, <3>2, <3>4
    <3>5. QED
      BY <3>3, <3>4
  <2>4. QED
    BY <1>1, <1>2, <2>1, <2>2, <2>3 DEF FilesTyped
<1>9. ASSUME NEW f \in Things PROVE Uses(f)
  <2>1. Open(f)' = Open(f)
    BY <1>2 DEF Open
  <2>2. Held(f)' = Held(f)
    BY <1>2, <1>5, <1>6, <1>7, CallKinds, <1>1 DEF Held
  <2>3. CASE f # g
    <3>1. New(f)' = New(f)
      BY <1>4, <1>6, <1>7, <2>3 DEF New
    <3>2. QED
      BY <1>2, <2>1, <2>2, <3>1 DEF Uses, Stays, Users
  <2>4. CASE f = g
    <3>1. Open(f) = {} /\ Held(f) = {} /\ New(f) = {}
      BY <1>1, <1>2, <2>4, CallKinds DEF Open, Held, New, files!Described, files!InHands, files!Idle
    <3>2. New(f)' = New(f) \cup {c}
      BY <1>4, <1>6, <1>7, <2>4 DEF New
    <3>3. Users(f) = 0 /\ IsFiniteSet(New(f)) /\ c \notin New(f)
      BY <1>1, <3>1, UsersType
    <3>4. Cardinality(New(f)') = Cardinality(New(f)) + 1
      BY <3>2, <3>3, OneMore
    <3>5. Users(f)' = Users(f) + 1
      BY <1>1, <2>1, <2>2, <3>4, UsersType DEF Users
    <3>6. QED
      BY <1>2, <2>4, <3>3, <3>5 DEF Uses, Begins
  <2>5. QED
    BY <2>3, <2>4
<1>10. QED
  BY <1>8, <1>9

(* The file is stored: its caller has it no more, its descriptor has.       *)
LEMMA StoreFileUses ==
  ASSUME FilesInv, NEW c \in Goroutines, files!StoreFile(c)
  PROVE  FilesTyped' /\ \A f \in Things : Uses(f)
<1>1. FilesTyped
  BY DEF FilesInv
<1>2. /\ doing[c].step = "store" /\ ~filesDown
      /\ fileMap' = files!Put(fileMap, doing[c].to, doing[c].file)
      /\ doing' = [doing EXCEPT ![c] = files!Idle]
      /\ UNCHANGED <<fd, refs, count, fileCloses, filesDown>>
  BY DEF files!StoreFile
<1>3. doing[c] \in StoreCalls
  BY <1>1, <1>2, CallKinds
<1>4. PICK n \in 0 .. MaxFd, g \in Things : n = doing[c].to /\ g = doing[c].file
  BY <1>3 DEF StoreCalls
<1>5. n \notin DOMAIN fileMap /\ n <= fd /\ fd \in Int /\ n \in Int
  BY <1>1, <1>2, <1>4, PartsAssumption DEF FilesTyped
<1>6. /\ DOMAIN fileMap' = DOMAIN fileMap \cup {n}
      /\ fileMap'[n] = g /\ \A m \in DOMAIN fileMap : fileMap'[m] = fileMap[m]
      /\ fileMap' \in [DOMAIN fileMap' -> AllFiles]
  BY <1>1, <1>2, <1>4, <1>5 DEF files!Put, FilesTyped, AllFiles
<1>7. /\ doing'[c] = files!Idle /\ doing'[c].step = "idle"
      /\ \A d \in Goroutines \ {c} : doing'[d] = doing[d]
      /\ doing' \in [Goroutines -> {files!Idle} \cup StoreCalls \cup CloseCalls]
  BY <1>1, <1>2 DEF FilesTyped, files!Idle
<1>8. FilesTyped'
  <2>1. DOMAIN fileMap' \subseteq 0 .. fd'
    BY <1>1, <1>2, <1>4, <1>5, <1>6 DEF FilesTyped
  <2>2. ASSUME NEW m \in DOMAIN fileMap', fileMap'[m] \in files!Std PROVE m < 3
    BY <1>1, <1>6, <2>2, PartsAssumption DEF FilesTyped
  <2>3. ASSUME NEW d \in Goroutines, doing'[d].step = "store"
        PROVE  /\ doing'[d].to \notin DOMAIN fileMap' /\ doing'[d].to <= fd'
               /\ \A e \in Goroutines :
                    doing'[e].step = "store" /\ doing'[e].to = doing'[d].to => e = d
    <3>1. d # c /\ doing[d].step = "store" /\ doing'[d] = doing[d]
      BY <1>7, <2>3
    <3>2. doing[d].to # n /\ doing[d].to \notin DOMAIN fileMap /\ doing[d].to <= fd
      BY <1>1, <1>2, <1>4, <3>1 DEF FilesTyped
    <3>3. \A e \in Goroutines : doing[e].step = "store" /\ doing[e].to = doing[d].to => e = d
      BY <1>1, <3>1 DEF FilesTyped
    <3>4. QED
      BY <1>2, <1>6, <1>7, <3>1, <3>2, <3>3
  <2>4. QED
    BY <1>1, <1>2, <1>6, <1>7, <2>1, <2>2, <2>3 DEF FilesTyped
<1>9. ASSUME NEW f \in Things PROVE Uses(f)
  <2>1. Held(f)' = Held(f)
    BY <1>1, <1>2, <1>7, CallKinds, IdleHoldsNone DEF Held
  <2>2. CASE f # g
    <3>1. Open(f)' = Open(f)
      BY <1>6, <2>2 DEF Open
    <3>2. New(f)' = New(f)
      BY <1>4, <1>7, <2>2 DEF New
    <3>3. QED
      BY <1>2, <2>1, <3>1, <3>2 DEF Uses, Stays, Users
  <2>3. CASE f = g
    <3>1. Open(f)' = Open(f) \cup {n} /\ n \notin Open(f)
      BY <1>5, <1>6, <2>3 DEF Open
    <3>2. New(f)' = New(f) \ {c} /\ c \in New(f)
      BY <1>2, <1>4, <1>7, <2>3 DEF New
    <3>3. Cardinality(Open(f)') = Cardinality(Open(f)) + 1
      BY <1>1, <3>1, OneMore, UsersType
    <3>4. Cardinality(New(f)') = Cardinality(New(f)) - 1
      BY <1>1, <3>2, OneLess, UsersType
    <3>5. Users(f)' = Users(f)
      BY <1>1, <2>1, <3>3, <3>4, UsersType DEF Users
    <3>6. QED
      BY <1>2, <3>5 DEF Uses, Stays
  <2>4. QED
    BY <2>2, <2>3
<1>10. QED
  BY <1>8, <1>9

(* The descriptor goes, and its caller has the file to close it.            *)
LEMMA CloseDescriptorUses ==
  ASSUME FilesInv, NEW c \in Goroutines, NEW n \in DOMAIN fileMap,
         files!CloseFileDescriptor(c, n)
  PROVE  FilesTyped' /\ \A f \in Things : Uses(f)
<1>1. FilesTyped
  BY DEF FilesInv
<1>2. /\ doing[c] = files!Idle
      /\ fileMap' = files!Without(fileMap, n)
      /\ doing' = [doing EXCEPT ![c] = files!Close(fileMap[n])]
      /\ UNCHANGED <<fd, refs, count, fileCloses, filesDown>>
  BY DEF files!CloseFileDescriptor
<1>3. PICK g \in AllFiles : g = fileMap[n]
  BY <1>1 DEF FilesTyped
<1>4. /\ DOMAIN fileMap' = DOMAIN fileMap \ {n}
      /\ \A m \in DOMAIN fileMap' : fileMap'[m] = fileMap[m]
      /\ fileMap' \in [DOMAIN fileMap' -> AllFiles]
  BY <1>1, <1>2 DEF files!Without, FilesTyped
<1>5. /\ files!Close(g) \in CloseCalls
      /\ files!Close(g).step = "close" /\ files!Close(g).file = g
      /\ \A f : files!Close(g) = files!Close(f) => f = g
  <2>1. ASSUME NEW f, files!Close(g) = files!Close(f) PROVE f = g
    <3>1. files!Close(g).file = files!Close(f).file
      BY <2>1
    <3>2. QED
      BY <3>1 DEF files!Close
  <2>2. QED
    BY <1>3, <2>1 DEF files!Close, CloseCalls
<1>6. /\ doing'[c] = files!Close(g) /\ \A d \in Goroutines \ {c} : doing'[d] = doing[d]
      /\ doing' \in [Goroutines -> {files!Idle} \cup StoreCalls \cup CloseCalls]
  BY <1>1, <1>2, <1>3, <1>5 DEF FilesTyped
<1>7. doing[c].step = "idle"
  BY <1>1, <1>2, CallKinds
<1>8. FilesTyped'
  <2>1. ASSUME NEW d \in Goroutines, doing'[d].step = "store"
        PROVE  /\ doing'[d].to \notin DOMAIN fileMap' /\ doing'[d].to <= fd'
               /\ \A e \in Goroutines :
                    doing'[e].step = "store" /\ doing'[e].to = doing'[d].to => e = d
    <3>1. d # c /\ doing[d].step = "store" /\ doing'[d] = doing[d]
      BY <1>5, <1>6, <2>1
    <3>2. doing[d].to \notin DOMAIN fileMap /\ doing[d].to <= fd
      BY <1>1, <3>1 DEF FilesTyped
    <3>3. \A e \in Goroutines : doing[e].step = "store" /\ doing[e].to = doing[d].to => e = d
      BY <1>1, <3>1 DEF FilesTyped
    <3>4. QED
      BY <1>2, <1>4, <1>5, <1>6, <3>1, <3>2, <3>3
  <2>2. QED
    BY <1>1, <1>2, <1>4, <1>6, <2>1 DEF FilesTyped
<1>9. ASSUME NEW f \in Things PROVE Uses(f)
  <2>1. New(f)' = New(f)
    BY <1>5, <1>6, <1>7 DEF New
  <2>2. CASE f # g
    <3>1. Open(f)' = Open(f)
      BY <1>3, <1>4, <2>2 DEF Open
    <3>2. Held(f)' = Held(f)
      BY <1>1, <1>5, <1>6, <1>7, <2>2, CallKinds DEF Held
    <3>3. QED
      BY <1>2, <2>1, <3>1, <3>2 DEF Uses, Stays, Users
  <2>3. CASE f = g
    <3>1. Open(f)' = Open(f) \ {n} /\ n \in Open(f)
      BY <1>3, <1>4, <2>3 DEF Open
    <3>2. Held(f)' = Held(f) \cup {c} /\ c \notin Held(f)
      BY <1>1, <1>6, <1>7, <2>3, CallKinds DEF Held
    <3>3. Cardinality(Open(f)') = Cardinality(Open(f)) - 1
      BY <1>1, <3>1, OneLess, UsersType
    <3>4. Cardinality(Held(f)') = Cardinality(Held(f)) + 1
      BY <1>1, <3>2, OneMore, UsersType
    <3>5. Users(f)' = Users(f)
      BY <1>1, <2>1, <3>3, <3>4, UsersType DEF Users
    <3>6. QED
      BY <1>2, <3>5 DEF Uses, Stays
  <2>4. QED
    BY <2>2, <2>3
<1>10. QED
  BY <1>8, <1>9

(* fileRef.Close, by the caller who has the file                            *)
LEMMA CloseFileUses ==
  ASSUME FilesInv, NEW c \in Goroutines, files!CloseFile(c)
  PROVE  FilesTyped' /\ \A f \in Things : Uses(f)
<1>1. FilesTyped
  BY DEF FilesInv
<1>2. PICK g \in AllFiles :
        /\ doing[c].step = "close" /\ doing[c].file = g /\ doing[c] = files!Close(g)
        /\ count' = [count EXCEPT ![g] = @ - 1]
        /\ fileCloses' = IF files!LastOf(g) THEN [fileCloses EXCEPT ![g] = @ + 1] ELSE fileCloses
        /\ doing' = [doing EXCEPT ![c] = files!Idle]
        /\ UNCHANGED <<fd, fileMap, refs, filesDown>>
  BY <1>1, CallKinds DEF files!CloseFile
<1>3. /\ doing'[c] = files!Idle /\ doing'[c].step = "idle"
      /\ \A d \in Goroutines \ {c} : doing'[d] = doing[d]
      /\ doing' \in [Goroutines -> {files!Idle} \cup StoreCalls \cup CloseCalls]
  BY <1>1, <1>2 DEF FilesTyped, files!Idle
<1>4. /\ count' \in [AllFiles -> Int] /\ count'[g] = count[g] - 1
      /\ \A f \in AllFiles \ {g} : count'[f] = count[f]
  BY <1>1, <1>2 DEF FilesTyped
<1>5. /\ fileCloses' \in [AllFiles -> Nat]
      /\ fileCloses'[g] = IF files!LastOf(g) THEN fileCloses[g] + 1 ELSE fileCloses[g]
      /\ \A f \in AllFiles \ {g} : fileCloses'[f] = fileCloses[f]
  <2>1. CASE files!LastOf(g)
    BY <1>1, <1>2, <2>1 DEF FilesTyped
  <2>2. CASE ~files!LastOf(g)
    BY <1>1, <1>2, <2>2 DEF FilesTyped
  <2>3. QED
    BY <2>1, <2>2
<1>6. FilesTyped'
  <2>1. ASSUME NEW f \in files!Std PROVE count'[f] <= 0 /\ fileCloses'[f] = 0
    <3>1. f \in AllFiles /\ f \in refs /\ count[f] <= 0 /\ fileCloses[f] = 0 /\ count[f] \in Int
      BY <1>1 DEF FilesTyped, AllFiles
    <3>2. ~files!LastOf(f)
      BY <3>1 DEF files!LastOf
    <3>3. CASE f = g
      BY <1>4, <1>5, <3>1, <3>2, <3>3
    <3>4. CASE f # g
      BY <1>4, <1>5, <3>1, <3>4
    <3>5. QED
      BY <3>3, <3>4
  <2>2. ASSUME NEW d \in Goroutines, doing'[d].step = "store"
        PROVE  /\ doing'[d].to \notin DOMAIN fileMap' /\ doing'[d].to <= fd'
               /\ \A e \in Goroutines :
                    doing'[e].step = "store" /\ doing'[e].to = doing'[d].to => e = d
    BY <1>1, <1>2, <1>3, <2>2 DEF FilesTyped
  <2>3. QED
    BY <1>1, <1>2, <1>3, <1>4, <1>5, <2>1, <2>2 DEF FilesTyped
<1>7. ASSUME NEW f \in Things PROVE Uses(f)
  <2>1. Open(f)' = Open(f) /\ f \in AllFiles
    BY <1>2 DEF Open, AllFiles
  <2>2. New(f)' = New(f)
    BY <1>2, <1>3 DEF New
  <2>3. CASE f # g
    <3>1. Held(f)' = Held(f)
      BY <1>1, <1>2, <1>3, <2>3, CallKinds, IdleHoldsNone DEF Held
    <3>2. QED
      BY <1>2, <1>4, <1>5, <2>1, <2>2, <2>3, <3>1 DEF Uses, Stays, Users
  <2>4. CASE f = g
    <3>1. Held(f)' = Held(f) \ {c} /\ c \in Held(f)
      BY <1>1, <1>2, <1>3, <2>4, CallKinds, IdleHoldsNone DEF Held
    <3>2. Cardinality(Held(f)') = Cardinality(Held(f)) - 1
      BY <1>1, <3>1, OneLess, UsersType
    <3>3. Users(f) > 0 /\ Users(f)' = Users(f) - 1
      BY <1>1, <2>1, <2>2, <3>1, <3>2, UsersType DEF Users
    <3>4. QED
      BY <1>2, <1>4, <1>5, <2>4, <3>3 DEF Uses, Leaves
  <2>5. QED
    BY <2>3, <2>4
<1>8. QED
  BY <1>6, <1>7

(* A file that has a descriptor is not the host's when it is duplicated.    *)
LEMMA OfDup ==
  ASSUME FilesTyped, NEW o \in files!Dups
  PROVE  o \in DOMAIN fileMap /\ fileMap[o] \in Things /\ ~filesDown
BY DEF files!Dups, FilesTyped, AllFiles

(* DupFile: one descriptor more                                             *)
LEMMA DupFileUses ==
  ASSUME FilesInv, NEW o \in files!Dups, files!DupFile(o)
  PROVE  FilesTyped' /\ \A f \in Things : Uses(f)
<1>1. FilesTyped
  BY DEF FilesInv
<1>2. PICK g \in Things : g = fileMap[o] /\ o \in DOMAIN fileMap /\ ~filesDown
  BY <1>1, OfDup
<1>3. PICK n \in Int : n = fd + 1
  BY <1>1, PartsAssumption DEF FilesTyped
<1>4. /\ fd < MaxFd /\ fd' = n
      /\ refs' = refs \cup {g}
      /\ count' = [count EXCEPT ![g] = @ + 1]
      /\ fileMap' = files!Put(fileMap, n, g)
      /\ UNCHANGED <<fileCloses, doing, filesDown>>
  BY <1>2, <1>3 DEF files!DupFile
<1>5. fd \in Int /\ 3 <= fd /\ n \in 3 .. MaxFd /\ n \notin DOMAIN fileMap
  BY <1>1, <1>3, <1>4, PartsAssumption DEF FilesTyped
<1>6. /\ DOMAIN fileMap' = DOMAIN fileMap \cup {n}
      /\ fileMap'[n] = g /\ \A m \in DOMAIN fileMap : fileMap'[m] = fileMap[m]
      /\ fileMap' \in [DOMAIN fileMap' -> AllFiles]
  BY <1>1, <1>2, <1>4, <1>5 DEF files!Put, FilesTyped, AllFiles
<1>7. g \in AllFiles /\ g \notin files!Std
  BY <1>2, PartsAssumption DEF AllFiles
<1>8. /\ count' \in [AllFiles -> Int] /\ count'[g] = count[g] + 1
      /\ \A f \in AllFiles \ {g} : count'[f] = count[f]
  BY <1>1, <1>4, <1>7 DEF FilesTyped
<1>9. FilesTyped'
  <2>1. fd' \in 3 .. MaxFd /\ DOMAIN fileMap' \subseteq 0 .. fd'
    BY <1>1, <1>3, <1>4, <1>5, <1>6 DEF FilesTyped
  <2>2. ASSUME NEW m \in DOMAIN fileMap', fileMap'[m] \in files!Std PROVE m < 3
    BY <1>1, <1>6, <1>7, <2>2 DEF FilesTyped
  <2>3. ASSUME NEW f \in files!Std PROVE count'[f] <= 0 /\ fileCloses'[f] = 0
    BY <1>1, <1>4, <1>7, <1>8 DEF FilesTyped, AllFiles
  <2>4. ASSUME NEW d \in Goroutines, doing[d].step = "store"
        PROVE  /\ doing[d].to \notin DOMAIN fileMap' /\ doing[d].to <= fd'
               /\ \A e \in Goroutines :
                    doing[e].step = "store" /\ doing[e].to = doing[d].to => e = d
    <3>1. doing[d].to \in Int /\ doing[d].to <= fd /\ doing[d].to \notin DOMAIN fileMap
      BY <1>1, <2>4, CallKinds DEF FilesTyped, StoreCalls
    <3>2. doing[d].to # n /\ doing[d].to <= fd'
      BY <1>3, <1>4, <1>5, <3>1
    <3>3. QED
      BY <1>1, <1>6, <2>4, <3>1, <3>2 DEF FilesTyped
  <2>5. refs' \subseteq AllFiles /\ files!Std \subseteq refs'
    BY <1>1, <1>4, <1>7 DEF FilesTyped
  <2>6. filesDown' => DOMAIN fileMap' = {}
    BY <1>2, <1>4
  <2>7. QED
    BY <1>1, <1>4, <1>6, <1>8, <2>1, <2>2, <2>3, <2>4, <2>5, <2>6 DEF FilesTyped
<1>10. ASSUME NEW f \in Things PROVE Uses(f)
  <2>1. Held(f)' = Held(f) /\ New(f)' = New(f) /\ f \in AllFiles
    BY <1>4 DEF Held, New, AllFiles
  <2>2. CASE f # g
    <3>1. Open(f)' = Open(f)
      BY <1>6, <2>2 DEF Open
    <3>2. QED
      BY <1>4, <1>8, <2>1, <2>2, <3>1 DEF Uses, Stays, Users
  <2>3. CASE f = g
    <3>1. Open(f)' = Open(f) \cup {n} /\ n \notin Open(f) /\ Open(f) # {}
      BY <1>2, <1>5, <1>6, <2>3 DEF Open
    <3>2. Cardinality(Open(f)') = Cardinality(Open(f)) + 1
      BY <1>1, <3>1, OneMore, UsersType
    <3>3. Users(f)' = Users(f) + 1 /\ Users(f) > 0
      BY <1>1, <2>1, <3>1, <3>2, UsersType DEF Users
    <3>4. QED
      BY <1>2, <1>4, <1>8, <2>3, <3>3 DEF Uses, Shares
  <2>4. QED
    BY <2>2, <2>3
<1>11. QED
  BY <1>9, <1>10

(* Dup2File: a descriptor in use goes from one file to another.             *)
LEMMA Dup2FileUses ==
  ASSUME FilesInv, NEW o \in files!Dups, NEW n \in DOMAIN fileMap, files!Dup2File(o, n)
  PROVE  FilesTyped' /\ \A f \in Things : Uses(f)
<1>1. FilesTyped
  BY DEF FilesInv
<1>2. PICK g \in Things : g = fileMap[o] /\ o \in DOMAIN fileMap /\ ~filesDown
  BY <1>1, OfDup
<1>3. n # o /\ n >= 3 /\ n \in Int
  BY <1>1 DEF files!Dup2File, FilesTyped
<1>4. PICK h \in Things : h = fileMap[n]
  <2>1. fileMap[n] \in AllFiles /\ (fileMap[n] \in files!Std => n < 3)
    BY <1>1 DEF FilesTyped
  <2>2. QED
    BY <1>3, <2>1 DEF AllFiles
<1>5. /\ refs' = refs \cup {g}
      /\ count' = [f \in DOMAIN count |->
                     (IF f \in {h} THEN count[f] - 1 ELSE count[f]) + (IF f = g THEN 1 ELSE 0)]
      /\ fileCloses' = [f \in DOMAIN fileCloses |->
                          IF f \in {h} /\ files!LastOf(f) THEN fileCloses[f] + 1 ELSE fileCloses[f]]
      /\ fileMap' = files!Put(fileMap, n, g)
      /\ UNCHANGED <<fd, doing, filesDown>>
  BY <1>2, <1>4 DEF files!Dup2File, files!Shared
<1>6. /\ DOMAIN fileMap' = DOMAIN fileMap
      /\ fileMap'[n] = g /\ \A m \in DOMAIN fileMap \ {n} : fileMap'[m] = fileMap[m]
      /\ fileMap' \in [DOMAIN fileMap' -> AllFiles]
  BY <1>1, <1>2, <1>5 DEF files!Put, FilesTyped, AllFiles
<1>7. g \in AllFiles /\ h \in AllFiles /\ g \notin files!Std /\ h \notin files!Std
  BY <1>2, <1>4, PartsAssumption DEF AllFiles
<1>8. /\ count' \in [AllFiles -> Int]
      /\ \A f \in AllFiles : count'[f] = (IF f = h THEN count[f] - 1 ELSE count[f])
                                           + (IF f = g THEN 1 ELSE 0)
  BY <1>1, <1>5 DEF FilesTyped
<1>9. /\ fileCloses' \in [AllFiles -> Nat]
      /\ \A f \in AllFiles :
           fileCloses'[f] = IF f = h /\ files!LastOf(f) THEN fileCloses[f] + 1 ELSE fileCloses[f]
  BY <1>1, <1>5 DEF FilesTyped
<1>10. FilesTyped'
  <2>1. ASSUME NEW m \in DOMAIN fileMap', fileMap'[m] \in files!Std PROVE m < 3
    BY <1>1, <1>6, <1>7, <2>1 DEF FilesTyped
  <2>2. ASSUME NEW f \in files!Std PROVE count'[f] <= 0 /\ fileCloses'[f] = 0
    <3>1. f \in AllFiles /\ f # g /\ f # h /\ count[f] \in Int
      BY <1>1, <1>7 DEF AllFiles, FilesTyped
    <3>2. count'[f] = count[f] + 0 /\ fileCloses'[f] = fileCloses[f]
      BY <1>8, <1>9, <3>1
    <3>3. QED
      BY <1>1, <3>1, <3>2 DEF FilesTyped
  <2>3. refs' \subseteq AllFiles /\ files!Std \subseteq refs'
    BY <1>1, <1>5, <1>7 DEF FilesTyped
  <2>4. QED
    BY <1>1, <1>2, <1>5, <1>6, <1>8, <1>9, <2>1, <2>2, <2>3 DEF FilesTyped
<1>11. ASSUME NEW f \in Things PROVE Uses(f)
  <2>1. Held(f)' = Held(f) /\ New(f)' = New(f) /\ f \in AllFiles
    BY <1>5 DEF Held, New, AllFiles
  <2>2. count[f] \in Int /\ FileCounted(f)
    BY <1>1, <2>1 DEF FilesTyped, FilesInv
  <2>3. CASE f # g /\ f # h
    <3>1. Open(f)' = Open(f)
      BY <1>4, <1>6, <2>3 DEF Open
    <3>2. count'[f] = count[f] /\ fileCloses'[f] = fileCloses[f]
      BY <1>8, <1>9, <2>1, <2>2, <2>3
    <3>3. QED
      BY <1>5, <2>1, <2>3, <3>1, <3>2 DEF Uses, Stays, Users
  <2>4. CASE f = g /\ f # h
    <3>1. Open(f)' = Open(f) \cup {n} /\ n \notin Open(f) /\ Open(f) # {}
      BY <1>2, <1>4, <1>6, <2>4 DEF Open
    <3>2. Cardinality(Open(f)') = Cardinality(Open(f)) + 1
      BY <1>1, <3>1, OneMore, UsersType
    <3>3. Users(f)' = Users(f) + 1 /\ Users(f) > 0
      BY <1>1, <2>1, <3>1, <3>2, UsersType DEF Users
    <3>4. count'[f] = count[f] + 1 /\ fileCloses'[f] = fileCloses[f]
      BY <1>8, <1>9, <2>1, <2>4
    <3>5. QED
      BY <1>2, <1>5, <2>4, <3>3, <3>4 DEF Uses, Shares
  <2>5. CASE f # g /\ f = h
    <3>1. Open(f)' = Open(f) \ {n} /\ n \in Open(f)
      BY <1>4, <1>6, <2>5 DEF Open
    <3>2. Cardinality(Open(f)') = Cardinality(Open(f)) - 1
      BY <1>1, <3>1, OneLess, UsersType
    <3>3. Users(f)' = Users(f) - 1 /\ Users(f) > 0
      BY <1>1, <2>1, <3>1, <3>2, UsersType DEF Users
    <3>4. /\ count'[f] = count[f] - 1
          /\ fileCloses'[f] = IF files!LastOf(f) THEN fileCloses[f] + 1 ELSE fileCloses[f]
      BY <1>8, <1>9, <2>1, <2>2, <2>5
    <3>5. QED
      BY <1>5, <2>5, <3>3, <3>4 DEF Uses, Leaves
  <2>6. CASE f = g /\ f = h
    <3>1. Open(f)' = Open(f) /\ n \in Open(f) /\ o \in Open(f)
      BY <1>2, <1>4, <1>6, <2>6 DEF Open
    <3>2. Users(f) > 1
      <4>1. Cardinality(Open(f) \ {n}) = Cardinality(Open(f)) - 1 /\ IsFiniteSet(Open(f) \ {n})
        BY <1>1, <3>1, OneLess, UsersType, FS_RemoveElement
      <4>2. o \in Open(f) \ {n}
        BY <1>3, <3>1
      <4>3. Cardinality(Open(f) \ {n}) \in Nat \ {0}
        BY <4>1, <4>2, FS_CardinalityType, FS_EmptySet
      <4>4. QED
        BY <1>1, <4>1, <4>3, UsersType DEF Users
    <3>3. f \in refs /\ ~files!LastOf(f)
      BY <1>1, <1>2, <2>2, <3>2, UsersType DEF FileCounted, files!LastOf
    <3>4. count'[f] = count[f] /\ fileCloses'[f] = fileCloses[f]
      BY <1>8, <1>9, <2>1, <2>2, <2>6, <3>3
    <3>5. QED
      BY <1>5, <2>1, <3>1, <3>3, <3>4 DEF Uses, Stays, Users
  <2>7. QED
    BY <2>3, <2>4, <2>5, <2>6
<1>12. QED
  BY <1>10, <1>11

(* dtor forgets the descriptors; who closes a file goes on.                 *)
LEMMA DtorUses ==
  ASSUME FilesInv, files!Dtor
  PROVE  FilesTyped' /\ \A f \in Things : Uses(f)
<1>1. FilesTyped
  BY DEF FilesInv
<1>2. /\ ~filesDown /\ filesDown' = TRUE /\ fileMap' = [n \in {} |-> 0]
      /\ UNCHANGED <<fd, refs, count, fileCloses, doing>>
  BY DEF files!Dtor
<1>3. DOMAIN fileMap' = {} /\ fileMap' \in [DOMAIN fileMap' -> AllFiles]
  BY <1>2
<1>4. FilesTyped'
  BY <1>1, <1>2, <1>3 DEF FilesTyped
<1>5. ASSUME NEW f \in Things PROVE Uses(f)
  <2>1. Held(f)' = Held(f) /\ New(f)' = New(f)
    BY <1>2 DEF Held, New
  <2>2. Open(f)' = {}
    BY <1>3 DEF Open
  <2>3. Cardinality(Open(f)') = 0
    BY <2>2, FS_EmptySet
  <2>4. Users(f)' <= Users(f)
    BY <1>1, <2>1, <2>3, UsersType DEF Users
  <2>5. QED
    BY <1>2, <2>4 DEF Uses, Forgets
<1>6. QED
  BY <1>4, <1>5

LEMMA FilesUses ==
  ASSUME FilesInv, files!Next \/ UNCHANGED filesVars
  PROVE  FilesTyped' /\ \A f \in Things : Uses(f)
<1>1. CASE UNCHANGED filesVars
  BY <1>1 DEF filesVars, FilesInv, FilesTyped, Uses, Stays, Users, Open, Held, New
<1>2. ASSUME NEW o \in files!Dups, NEW n \in files!Targets, files!Dup2File(o, n)
      PROVE  FilesTyped' /\ \A f \in Things : Uses(f)
  <2>1. n \in DOMAIN fileMap
    BY <1>2 DEF files!Targets
  <2>2. QED
    BY <1>2, <2>1, Dup2FileUses
<1>3. QED
  BY <1>1, <1>2, ReserveUses, StoreFileUses, CloseDescriptorUses, CloseFileUses, DupFileUses,
     DtorUses DEF files!Next

LEMMA FilesKept ==
  ASSUME FilesInv, files!Next \/ UNCHANGED filesVars
  PROVE  FilesInv'
<1>1. FilesTyped /\ FilesTyped'
  BY FilesUses DEF FilesInv
<1>2. ASSUME NEW f \in Things PROVE FileCounted(f)'
  BY <1>1, FilesUses, UsesCounted DEF FilesInv
<1>3. QED
  BY <1>1, <1>2 DEF FilesInv

LEMMA FilesBegin == ASSUME files!Init PROVE FilesInv
<1>1. FilesTyped
  <2>1. /\ fd = 3 /\ fileMap = [n \in files!Std |-> n] /\ refs = files!Std
        /\ count = [f \in AllFiles |-> IF f \in files!Std THEN 0 ELSE 1]
        /\ fileCloses = [f \in AllFiles |-> 0]
        /\ doing = [c \in Goroutines |-> files!Idle] /\ filesDown = FALSE
    BY DEF files!Init, AllFiles
  <2>2. DOMAIN fileMap \subseteq 0 .. fd /\ \A n \in DOMAIN fileMap : n < 3
    BY <2>1 DEF files!Std
  <2>3. fd \in 3 .. MaxFd
    BY <2>1, PartsAssumption
  <2>4. \A c \in Goroutines : doing[c].step = "idle"
    BY <2>1 DEF files!Idle
  <2>5. fileMap \in [DOMAIN fileMap -> AllFiles] /\ \A n \in DOMAIN fileMap : fileMap[n] = n
    BY <2>1 DEF AllFiles
  <2>6. count \in [AllFiles -> Int] /\ \A f \in files!Std : count[f] <= 0 /\ fileCloses[f] = 0
    BY <2>1 DEF AllFiles
  <2>7. QED
    BY <2>1, <2>2, <2>3, <2>4, <2>5, <2>6 DEF FilesTyped, AllFiles
<1>2. ASSUME NEW f \in Things PROVE FileCounted(f)
  <2>1. f \notin files!Std
    BY PartsAssumption
  <2>2. /\ f \notin refs /\ count[f] = 1 /\ fileCloses[f] = 0
        /\ \A n \in DOMAIN fileMap : fileMap[n] # f
        /\ \A c \in Goroutines : doing[c] = files!Idle
    BY <2>1 DEF files!Init
  <2>3. Open(f) = {} /\ Held(f) = {} /\ New(f) = {}
    BY <2>2, IdleHoldsNone DEF Open, Held, New, files!Idle
  <2>4. Users(f) = 0
    BY <1>1, <2>3, UsersType
  <2>5. QED
    BY <2>2, <2>4 DEF FileCounted
<1>3. QED
  BY <1>1, <1>2 DEF FilesInv

(* Described and InHands are about the users of a file.                     *)
LEMMA UsersOf ==
  FilesTyped => \A f \in Things : files!Described(f) \/ files!InHands(f) <=> Users(f) > 0
<1>1. SUFFICES ASSUME FilesTyped, NEW f \in Things
               PROVE  files!Described(f) \/ files!InHands(f) <=> Users(f) > 0
  OBVIOUS
<1>2. files!Described(f) <=> Open(f) # {}
  BY DEF files!Described, Open
<1>3. files!InHands(f) <=> Held(f) # {} \/ New(f) # {}
  <2>1. ASSUME NEW c \in Goroutines
        PROVE  doing[c] # files!Idle /\ doing[c].file = f <=> c \in Held(f) \/ c \in New(f)
    <3>1. doing[c] # files!Idle => doing[c].step \in {"store", "close"}
      BY <1>1 DEF FilesTyped, StoreCalls, CloseCalls
    <3>2. QED
      BY <1>1, <3>1, CallKinds, IdleHoldsNone DEF Held, New
  <2>2. QED
    BY <2>1 DEF files!InHands, Held, New
<1>4. QED
  BY <1>1, <1>2, <1>3, UsersType

LEMMA FilesMoves ==
  ASSUME part = "files" => FilesInv, [PartsNext]_partsVars
  PROVE  (FilesInv /\ (files!Next \/ UNCHANGED filesVars)) \/ UNCHANGED files!vars
<1>1. CASE UNCHANGED filesVars
  BY <1>1 DEF filesVars, files!vars
<1>2. CASE part = "files" /\ files!Next
  BY <1>2
<1>3. QED
  BY <1>1, <1>2 DEF PartsNext, partsVars

LEMMA FilesStep ==
  ASSUME part = "files" => FilesInv, [PartsNext]_partsVars
  PROVE  (part = "files" => FilesInv)'
<1>1. SUFFICES ASSUME part' = "files" PROVE FilesInv'
  OBVIOUS
<1>2. part = "files" /\ FilesInv
  BY <1>1 DEF PartsNext, partsVars
<1>3. files!Next \/ UNCHANGED filesVars
  BY <1>2 DEF PartsNext, partsVars
<1>4. QED
  BY <1>2, <1>3, FilesKept

LEMMA FileCardinality == \A S : files!Cardinality(S) = Cardinality(S)
BY Zenon DEF files!Cardinality, Cardinality

LEMMA CountsHold ==
  ASSUME FilesInv
  PROVE  files!TypeOK /\ files!ClosedWithLast /\ files!HostFilesKept
<1>1. FilesTyped
  BY DEF FilesInv
<1>2. ASSUME NEW f \in Things, ~filesDown, f \in refs \/ Open(f) \cup Held(f) \cup New(f) # {}
      PROVE  count[f] = Users(f)
  <2>1. FileCounted(f) /\ Users(f) \in Nat /\ (f \in refs \/ Users(f) > 0)
    BY <1>1, <1>2, UsersType DEF FilesInv
  <2>2. QED
    BY <1>2, <2>1 DEF FileCounted
<1>3. files!TypeOK
  <2>1. ASSUME NEW f \in Things, ~filesDown,
               \/ f \in refs
               \/ {n \in DOMAIN fileMap : fileMap[n] = f}
                    \cup {c \in Goroutines : doing[c] = files!Close(f)}
                    \cup {c \in Goroutines : doing[c].step = "store" /\ doing[c].file = f} # {}
        PROVE  count[f] = files!Cardinality({n \in DOMAIN fileMap : fileMap[n] = f})
                 + files!Cardinality({c \in Goroutines : doing[c] = files!Close(f)})
                 + files!Cardinality({c \in Goroutines : doing[c].step = "store" /\ doing[c].file = f})
    BY <1>2, <2>1, FileCardinality DEF Users, Open, Held, New
  <2>2. QED
    BY <1>1, <2>1 DEF files!TypeOK, FilesTyped
<1>4. files!ClosedWithLast
  BY <1>1, UsersOf DEF files!ClosedWithLast, FilesInv, FileCounted
<1>5. files!HostFilesKept
  BY <1>1 DEF files!HostFilesKept, FilesTyped
<1>6. QED
  BY <1>3, <1>4, <1>5

(* Every fileRef counts the users of its file, and the file is closed once, *)
(* after the last of them (TypeOK, ClosedWithLast and HostFilesKept of      *)
(* FileDescriptors).                                                        *)
THEOREM PartsFilesCounted == PartsSpec => []FilesCounted
<1>1. PartsInit => (part = "files" => FilesInv)
  BY FilesBegin DEF PartsInit, Begin
<1>2. (part = "files" => FilesInv) => FilesCounted
  BY CountsHold DEF FilesCounted
<1>3. QED
  BY <1>1, <1>2, FilesStep, PTL DEF PartsSpec

(* The last who has a file closes it (NothingForgotten of FileDescriptors). *)
THEOREM PartsNothingForgotten == PartsSpec => NothingForgotten
<1> DEFINE Kept == \A f \in Things :
             (files!Described(f) \/ files!InHands(f)) /\ ~filesDown' =>
               files!Described(f)' \/ files!InHands(f)' \/ fileCloses'[f] = 1
<1>1. PartsInit => (part = "files" => FilesInv)
  BY FilesBegin DEF PartsInit, Begin
<1>2. (FilesTyped => \A f \in Things : files!Described(f) \/ files!InHands(f) <=> Users(f) > 0)'
  BY UsersOf, PTL
<1>3. FilesInv /\ (files!Next \/ UNCHANGED filesVars) => Kept
  <2>1. SUFFICES ASSUME FilesInv, files!Next \/ UNCHANGED filesVars, NEW f \in Things,
                        files!Described(f) \/ files!InHands(f), ~filesDown'
                 PROVE  files!Described(f)' \/ files!InHands(f)' \/ fileCloses'[f] = 1
    OBVIOUS
  <2>2. FilesTyped /\ FilesTyped' /\ FileCounted(f) /\ Uses(f)
    BY <2>1, FilesUses DEF FilesInv
  <2>3. Users(f) > 0
    BY <2>1, <2>2, UsersOf
  <2>4. Users(f)' > 0 \/ fileCloses'[f] = 1
    BY <2>1, <2>2, <2>3, UsesCounted
  <2>5. QED
    BY <1>2, <2>2, <2>4
<1>4. (part = "files" => FilesInv) /\ [PartsNext]_partsVars => [Kept]_files!vars
  BY <1>3, FilesMoves
<1>5. QED
  BY <1>1, <1>4, FilesStep, PTL DEF PartsSpec, NothingForgotten, files!NothingForgotten

-----------------------------------------------------------------------------
(* Argument passing                                                         *)

TP == INSTANCE MapTableProofs WITH
  Limit <- MaxAddr, Requests <- Ranges, Callers <- Goroutines, Overlap <- FALSE,
  call <- mapCall, down <- mapsDown

(* What the code of regStream takes for granted of a stream, whose fields   *)
(* hold anything else.                                                      *)
Standing(s) ==
  /\ s = [gr |-> s.gr, vr |-> s.vr, st |-> s.st, value |-> s.value,
          stack |-> s.stack, base |-> s.base, buf |-> s.buf, out |-> s.out,
          regs |-> s.regs, halves |-> s.halves, sp |-> s.sp, mem |-> s.mem]
  /\ s.gr \in Nat /\ s.st \in Nat /\ s.vr \in 0 .. RegCount
  /\ \A c \in DOMAIN s.regs : Len(s.regs[c]) = PointerSize

(* The stack of the task has been taken from the top down, and nothing was  *)
(* written below the stack pointer or above the top.                        *)
StackTaken(s) ==
  /\ s.sp \in Int /\ s.sp <= Top /\ s.sp % StackAlign = 0
  /\ \A a \in DOMAIN s.mem : a \in Int /\ s.sp <= a /\ a < Top

(* The buffer is no longer than the room PlaceStack takes for it.           *)
Buffered(s) == s.stack = "buffer" /\ Len(s.buf) \in 0 .. s.st

(* From s to u the stream has gone on, and the task has its stack as it was *)
GoesOn(s, u) ==
  /\ Standing(u) /\ u.base = s.base
  /\ Buffered(s) => Buffered(u)
SameStack(s, u) == u.sp = s.sp /\ u.mem = s.mem

(* ... or has taken more of it.                                             *)
Takes(s, u) == GoesOn(s, u) /\ StackTaken(u)

StreamPieces == [op : {"write", "skip", "float", "double", "stream"}, n : Nat]

StreamInv ==
  /\ Standing(rs) /\ StackTaken(rs)
  /\ phase \in {"write", "read", "return", "back", "panic"}
  /\ phase \in {"write", "read"} => rs.gr % PointerSize = 0 /\ rs.st % 4 = 0
  /\ phase = "write" => Buffered(rs)
  /\ phase = "read" => \A a \in DOMAIN rs.mem : rs.base <= a
  /\ sent \in Seq(ArgKinds) /\ \E S : got \in Seq(S)
  /\ phase = "return" => ret.kind \in RetKinds

-----------------------------------------------------------------------------
(* Numbers and sequences                                                    *)

(* A multiple leaves no remainder.                                          *)
LEMMA NoRemainder ==
  ASSUME NEW a \in Nat \ {0}, NEW q \in Int
  PROVE  (q * a) % a = 0 /\ q * a \in Int
OBVIOUS

LEMMA Quotient ==
  ASSUME NEW a \in Nat \ {0}, NEW n \in Int, n % a = 0
  PROVE  \E q \in Int : n = q * a
<1>1. n \div a \in Int /\ n = a * (n \div a) + (n % a)
  OBVIOUS
<1> DEFINE q == n \div a
<1>2. q \in Int /\ n = a * q + 0
  BY <1>1
<1> HIDE DEF q
<1>3. a * q = q * a /\ a * q \in Int
  BY <1>2
<1>4. QED
  BY <1>2, <1>3

(* AlignTo rounds up to a multiple.                                         *)
LEMMA AlignsUp ==
  ASSUME NEW a \in Nat \ {0}, NEW n \in Nat
  PROVE  /\ arm64!AlignTo(n, a) \in Nat /\ n <= arm64!AlignTo(n, a)
         /\ arm64!AlignTo(n, a) % a = 0
<1> DEFINE q == (n + a - 1) \div a
<1>1. n + a - 1 \in Nat
  OBVIOUS
<1>2. /\ q \in Nat /\ n + a - 1 = a * q + ((n + a - 1) % a)
      /\ (n + a - 1) % a \in 0 .. a - 1
  BY <1>1
<1>3. arm64!AlignTo(n, a) = q * a
  BY DEF arm64!AlignTo
<1>4. PICK r \in 0 .. a - 1 : n + a - 1 = a * q + r
  BY <1>2
<1> HIDE DEF q
<1>5. q \in Nat /\ a * q = q * a /\ q * a \in Nat
  BY <1>2
<1>6. (q * a) % a = 0
  BY <1>5, NoRemainder
<1>7. n <= q * a
  BY <1>4, <1>5
<1>8. QED
  BY <1>3, <1>5, <1>6, <1>7

(* StackAlloc of n bytes moves the pointer by a multiple.                   *)
LEMMA AlignsDown ==
  ASSUME NEW a \in Nat \ {0}, NEW x \in Int, x % a = 0, NEW n \in Int, n % a = 0
  PROVE  (x - n) % a = 0 /\ x - n \in Int
<1>1. PICK p \in Int : x = p * a
  BY Quotient
<1>2. PICK q \in Int : n = q * a
  BY Quotient
<1>3. x - n = (p - q) * a /\ p - q \in Int
  BY <1>1, <1>2
<1>4. QED
  BY <1>3, NoRemainder

(* A function of the numbers to m is a sequence of m.                       *)
LEMMA SequenceOf ==
  ASSUME NEW m \in Nat, NEW f, f = [j \in 1 .. m |-> f[j]]
  PROVE  f \in Seq({f[j] : j \in 1 .. m}) /\ Len(f) = m
<1> DEFINE S == {f[j] : j \in 1 .. m}
<1>1. f \in [1 .. m -> S]
  OBVIOUS
<1> HIDE DEF S
<1>2. f \in Seq(S)
  BY <1>1
<1>3. Len(f) = m
  BY <1>1, <1>2
<1>4. QED
  BY <1>2, <1>3 DEF S

(* Sub-sequences, and what is left of a sequence.                           *)
LEMMA LengthOfPart ==
  ASSUME NEW S, NEW b \in Seq(S), NEW n \in 0 .. Len(b)
  PROVE  /\ SubSeq(b, 1, n) \in Seq(S) /\ Len(SubSeq(b, 1, n)) = n
         /\ arm64!Drop(b, n) \in Seq(S) /\ Len(arm64!Drop(b, n)) = Len(b) - n
BY SubSeqProperties DEF arm64!Drop

-----------------------------------------------------------------------------
(* Operations of a stream                                                   *)

(* What the constants are.                                                  *)
StreamNumbers ==
  /\ RegCount \in Nat /\ PointerSize \in Nat \ {0} /\ SingleStep \in Nat
  /\ ValueSize \in Nat /\ ValueSize >= PointerSize
  /\ StackAlign \in Nat \ {0} /\ Top \in Nat /\ Top % StackAlign = 0

(* Going on twice is going on.                                              *)
LEMMA GoesOnTwice ==
  ASSUME NEW s, NEW t, NEW u, GoesOn(s, t), GoesOn(t, u)
  PROVE  GoesOn(s, u)
BY DEF GoesOn

(* The buffer grows by what is written to it.                               *)
LEMMA BufferGrows ==
  ASSUME NEW buf, NEW off \in Nat, NEW n \in Nat, NEW b,
         Len(b) = n, Len(buf) \in 0 .. off
  PROVE  Len(arm64!BufferWrite(buf, off, b)) = off + n
<1> DEFINE m == IF off + Len(b) > Len(buf) THEN off + Len(b) ELSE Len(buf)
           e(j) == IF j > off /\ j <= off + Len(b) THEN b[j - off]
                   ELSE IF j <= Len(buf) THEN buf[j] ELSE arm64!Zero
           f == [j \in 1 .. m |-> e(j)]
<1>1. m = off + n /\ m \in Nat
  OBVIOUS
<1>2. arm64!BufferWrite(buf, off, b) = f
  BY DEF arm64!BufferWrite
<1> HIDE DEF m, e
<1>3. f = [j \in 1 .. m |-> f[j]]
  OBVIOUS
<1> HIDE DEF f
<1>4. Len(f) = m
  BY <1>1, <1>3, SequenceOf
<1>5. QED
  BY <1>1, <1>2, <1>4

LEMMA ToStackGoesOn ==
  ASSUME NEW s, Standing(s), NEW b, Len(b) \in Nat
  PROVE  GoesOn(s, arm64!ToStack(s, b)) /\ SameStack(s, arm64!ToStack(s, b))
<1>1. PICK u : u = arm64!ToStack(s, b)
  OBVIOUS
<1>2. u = [s EXCEPT !.st = s.st + Len(b),
                    !.stack = IF s.stack = "nil" THEN "panic" ELSE s.stack,
                    !.buf = IF s.stack = "buffer"
                              THEN arm64!BufferWrite(s.buf, s.st, b) ELSE s.buf]
  BY <1>1 DEF arm64!ToStack
<1>3. u = [gr |-> s.gr, vr |-> s.vr, st |-> s.st + Len(b), value |-> s.value,
           stack |-> IF s.stack = "nil" THEN "panic" ELSE s.stack,
           base |-> s.base,
           buf |-> IF s.stack = "buffer"
                     THEN arm64!BufferWrite(s.buf, s.st, b) ELSE s.buf,
           out |-> s.out,
           regs |-> s.regs, halves |-> s.halves, sp |-> s.sp, mem |-> s.mem]
  BY <1>2 DEF Standing
<1>4. Standing(u)
  BY <1>3 DEF Standing
<1>5. ASSUME Buffered(s) PROVE Buffered(u)
  <2>1. s.stack = "buffer" /\ Len(s.buf) \in 0 .. s.st /\ s.st \in Nat
    BY <1>5 DEF Buffered, Standing
  <2>2. Len(arm64!BufferWrite(s.buf, s.st, b)) = s.st + Len(b)
    BY <2>1, BufferGrows
  <2>3. u.stack = "buffer" /\ u.buf = arm64!BufferWrite(s.buf, s.st, b)
        /\ u.st = s.st + Len(b)
    BY <1>3, <2>1
  <2>4. QED
    BY <2>1, <2>2, <2>3 DEF Buffered
<1>6. QED
  BY <1>1, <1>3, <1>4, <1>5 DEF GoesOn, SameStack

LEMMA FromStackGoesOn ==
  ASSUME NEW s, Standing(s), NEW n \in Nat
  PROVE  GoesOn(s, arm64!FromStack(s, n)) /\ SameStack(s, arm64!FromStack(s, n))
<1>1. PICK u : u = arm64!FromStack(s, n)
  OBVIOUS
<1>2. PICK more : more = IF s.stack = "memory" THEN arm64!Peek(s.mem, s.base + s.st, n)
                                               ELSE arm64!Blank(n)
  OBVIOUS
<1>3. u = [s EXCEPT !.st = s.st + n,
                    !.stack = IF s.stack = "nil" THEN "panic" ELSE s.stack,
                    !.out = s.out \o more]
  BY <1>1, <1>2 DEF arm64!FromStack
<1>4. u = [gr |-> s.gr, vr |-> s.vr, st |-> s.st + n, value |-> s.value,
           stack |-> IF s.stack = "nil" THEN "panic" ELSE s.stack,
           base |-> s.base, buf |-> s.buf, out |-> s.out \o more,
           regs |-> s.regs, halves |-> s.halves, sp |-> s.sp, mem |-> s.mem]
  BY <1>3 DEF Standing
<1>5. Standing(u)
  BY <1>4 DEF Standing
<1>6. Buffered(s) => Buffered(u)
  BY <1>4 DEF Buffered, Standing
<1>7. QED
  BY <1>1, <1>4, <1>5, <1>6 DEF GoesOn, SameStack

-----------------------------------------------------------------------------
(* Write and Read                                                           *)

(* The recursive function of Write exists: so many turns can be made.       *)
LEMMA WriteTurns ==
  ASSUME NEW t, NEW n \in Nat
  PROVE  \E f : f = [k \in 0 .. n |-> IF k = 0 THEN t ELSE arm64!WriteTurn(f[k - 1])]
<1> DEFINE Is(f, m) ==
             f = [k \in 0 .. m |-> IF k = 0 THEN t ELSE arm64!WriteTurn(f[k - 1])]
           T == {m \in Nat : \E f : Is(f, m)}
<1>1. 0 \in T
  <2>1. Is([k \in 0 .. 0 |-> t], 0)
    OBVIOUS
  <2> HIDE DEF Is
  <2>2. QED
    BY <2>1
<1>2. ASSUME NEW m \in Nat, m \in T PROVE m + 1 \in T
  <2>1. PICK f : Is(f, m)
    BY <1>2
  <2> DEFINE g == [k \in 0 .. m + 1 |->
                     IF k = m + 1 THEN arm64!WriteTurn(f[m]) ELSE f[k]]
  <2>2. \A k \in 0 .. m : f[k] = IF k = 0 THEN t ELSE arm64!WriteTurn(f[k - 1])
    BY <2>1
  <2>3. ASSUME NEW k \in 0 .. m + 1
        PROVE  g[k] = IF k = 0 THEN t ELSE arm64!WriteTurn(g[k - 1])
    <3>1. CASE k = m + 1
      BY <3>1
    <3>2. CASE k # m + 1
      <4>1. k \in 0 .. m /\ g[k] = f[k]
        BY <3>2
      <4>2. k # 0 => k - 1 \in 0 .. m /\ g[k - 1] = f[k - 1]
        BY <3>2
      <4>3. QED
        BY <2>2, <4>1, <4>2
    <3>3. QED
      BY <3>1, <3>2
  <2>4. Is(g, m + 1)
    <3>1. g = [k \in 0 .. m + 1 |-> g[k]]
      OBVIOUS
    <3> HIDE DEF g
    <3>2. QED
      BY <2>3, <3>1
  <2> HIDE DEF Is, g
  <2>5. QED
    BY <2>4
<1>3. Nat \subseteq T
  <2> HIDE DEF T
  <2>1. QED
    BY <1>1, <1>2, TP!EveryNumber
<1>4. QED
  BY <1>3

(* A turn of Write goes on with what is left.                               *)
Writes(S, s, t) ==
  /\ t = [s |-> t.s, count |-> t.count, i |-> t.i, b |-> t.b]
  /\ GoesOn(s, t.s) /\ SameStack(s, t.s)
  /\ t.i \in 0 .. PointerSize - 1 /\ t.b \in Seq(S)

LEMMA WriteTurnGoesOn ==
  ASSUME StreamNumbers, NEW S, NEW s, NEW t, Writes(S, s, t)
  PROVE  Writes(S, s, arm64!WriteTurn(t))
<1> DEFINE n == arm64!Least(ValueSize - t.i, Len(t.b))
           v == arm64!Overlay(t.s.value, t.i, t.b)
<1>1. Standing(t.s) /\ Len(t.b) \in Nat
  BY DEF Writes, GoesOn
<1>2. CASE t.b = << >>
  BY <1>2 DEF arm64!WriteTurn
<1>3. CASE t.b # << >> /\ t.s.gr >= arm64!Limit
  <2>1. PICK u : u = arm64!WriteTurn(t)
    OBVIOUS
  <2>2. u = [t EXCEPT !.s = arm64!ToStack(t.s, t.b), !.b = << >>]
    BY <1>3, <2>1 DEF arm64!WriteTurn
  <2>3. u = [s |-> arm64!ToStack(t.s, t.b), count |-> t.count, i |-> t.i, b |-> << >>]
    BY <2>2 DEF Writes
  <2>4. GoesOn(s, u.s) /\ SameStack(s, u.s)
    <3>1. GoesOn(t.s, u.s) /\ SameStack(t.s, u.s)
      BY <1>1, <2>3, ToStackGoesOn
    <3>2. QED
      BY <3>1, GoesOnTwice DEF Writes, SameStack
  <2>5. << >> \in Seq(S)
    OBVIOUS
  <2>6. QED
    BY <2>1, <2>3, <2>4, <2>5 DEF Writes
<1>4. CASE t.b # << >> /\ ~(t.s.gr >= arm64!Limit)
  <2>1. PICK u : u = arm64!WriteTurn(t)
    OBVIOUS
  <2>2. PICK r : r = [arm64!RegWrite(t.s, t.count, v) EXCEPT !.value = v, !.gr = @ + n]
    OBVIOUS
  <2>3. u = [s |-> r, count |-> t.count + 1, i |-> 0, b |-> arm64!Drop(t.b, n)]
    BY <1>4, <2>1, <2>2 DEF arm64!WriteTurn
  <2>4. n \in 0 .. Len(t.b)
    BY <1>1 DEF Writes, StreamNumbers, arm64!Least
  <2>5. Len(SubSeq(v, 1, PointerSize)) = PointerSize
    <3>1. v = [j \in 1 .. ValueSize |-> v[j]]
      BY DEF arm64!Overlay
    <3> HIDE DEF v
    <3>2. v \in Seq({v[j] : j \in 1 .. ValueSize}) /\ Len(v) = ValueSize
      BY <3>1, SequenceOf DEF StreamNumbers
    <3>3. PointerSize \in 0 .. Len(v)
      BY <3>2 DEF StreamNumbers
    <3>4. QED
      BY <3>2, <3>3, LengthOfPart
  <2>6. arm64!Drop(t.b, n) \in Seq(S)
    <3> HIDE DEF n
    <3>1. QED
      BY <2>4, LengthOfPart DEF Writes
  <2>7. r = [gr |-> t.s.gr + n, vr |-> t.s.vr, st |-> t.s.st, value |-> v,
             stack |-> t.s.stack, base |-> t.s.base, buf |-> t.s.buf,
             out |-> t.s.out,
             regs |-> [t.s.regs EXCEPT ![t.count] = SubSeq(v, 1, PointerSize)],
             halves |-> t.s.halves, sp |-> t.s.sp, mem |-> t.s.mem]
    <3> HIDE DEF n, v
    <3>1. PICK w : w = arm64!RegWrite(t.s, t.count, v)
      OBVIOUS
    <3>2. w = [gr |-> t.s.gr, vr |-> t.s.vr, st |-> t.s.st, value |-> t.s.value,
               stack |-> t.s.stack, base |-> t.s.base, buf |-> t.s.buf,
               out |-> t.s.out,
               regs |-> [t.s.regs EXCEPT ![t.count] = SubSeq(v, 1, PointerSize)],
               halves |-> t.s.halves, sp |-> t.s.sp, mem |-> t.s.mem]
      BY <1>1, <3>1 DEF Standing, arm64!RegWrite
    <3>3. r = [w EXCEPT !.value = v, !.gr = w.gr + n]
      BY <2>2, <3>1
    <3>4. QED
      BY <3>2, <3>3
  <2>8. Standing(r)
    <3> HIDE DEF n, v
    <3>1. r.gr \in Nat /\ r.st \in Nat /\ r.vr \in 0 .. RegCount
      BY <1>1, <2>4, <2>7 DEF Standing
    <3>2. ASSUME NEW c \in DOMAIN r.regs PROVE Len(r.regs[c]) = PointerSize
      <4>1. r.regs = [t.s.regs EXCEPT ![t.count] = SubSeq(v, 1, PointerSize)]
        BY <2>7
      <4>2. c \in DOMAIN t.s.regs
        BY <4>1
      <4>3. r.regs[c] = IF c = t.count THEN SubSeq(v, 1, PointerSize) ELSE t.s.regs[c]
        BY <4>1, <4>2
      <4>4. QED
        BY <1>1, <2>5, <4>2, <4>3 DEF Standing
    <3>3. QED
      BY <2>7, <3>1, <3>2 DEF Standing
  <2>9. GoesOn(s, r) /\ SameStack(s, r)
    <3> HIDE DEF n, v
    <3>1. GoesOn(t.s, r) /\ SameStack(t.s, r)
      BY <2>7, <2>8 DEF GoesOn, SameStack, Buffered
    <3>2. QED
      BY <3>1, GoesOnTwice DEF Writes, SameStack
  <2>10. QED
    <3> HIDE DEF n, v
    <3>1. 0 \in 0 .. PointerSize - 1
      BY DEF StreamNumbers
    <3>2. QED
      BY <2>1, <2>3, <2>6, <2>9, <3>1 DEF Writes
<1>5. QED
  BY <1>2, <1>3, <1>4

LEMMA WriteGoesOn ==
  ASSUME StreamNumbers, NEW S, NEW s, Standing(s), NEW b \in Seq(S)
  PROVE  GoesOn(s, arm64!Write(s, b)) /\ SameStack(s, arm64!Write(s, b))
<1> DEFINE n == Len(b)
           t == [s |-> s, count |-> s.gr \div PointerSize, i |-> s.gr % PointerSize,
                 b |-> b]
           Is(f) == f = [k \in 0 .. n |->
                           IF k = 0 THEN t ELSE arm64!WriteTurn(f[k - 1])]
           turn == CHOOSE f : Is(f)
<1>1. n \in Nat
  OBVIOUS
<1>2. Is(turn)
  <2> HIDE DEF n, t
  <2>1. \E f : Is(f)
    BY <1>1, WriteTurns
  <2> HIDE DEF Is
  <2>2. QED
    BY <2>1
<1>3. arm64!Write(s, b) = turn[n].s
  BY DEF arm64!Write
<1>4. Writes(S, s, t)
  <2>1. s.gr % PointerSize \in 0 .. PointerSize - 1
    BY DEF Standing, StreamNumbers
  <2>2. GoesOn(s, s) /\ SameStack(s, s)
    BY DEF GoesOn, SameStack
  <2>3. QED
    BY <2>1, <2>2 DEF Writes
<1> HIDE DEF turn, t
<1>5. \A k \in 0 .. n : turn[k] = IF k = 0 THEN t ELSE arm64!WriteTurn(turn[k - 1])
  BY <1>2
<1> HIDE DEF n
<1> DEFINE T == {k \in Nat : k <= n => Writes(S, s, turn[k])}
<1>6. 0 \in T
  BY <1>1, <1>4, <1>5
<1>7. ASSUME NEW k \in Nat, k \in T PROVE k + 1 \in T
  <2>1. SUFFICES ASSUME k + 1 <= n PROVE Writes(S, s, turn[k + 1])
    OBVIOUS
  <2>2. Writes(S, s, turn[k]) /\ turn[k + 1] = arm64!WriteTurn(turn[k])
    BY <1>1, <1>5, <1>7, <2>1
  <2>3. QED
    BY <2>2, WriteTurnGoesOn
<1>8. Nat \subseteq T
  <2> HIDE DEF T
  <2>1. QED
    BY <1>6, <1>7, TP!EveryNumber
<1>9. Writes(S, s, turn[n])
  BY <1>1, <1>8
<1>10. QED
  BY <1>3, <1>9 DEF Writes

(* The recursive function of Read exists: so many turns can be made.       *)
LEMMA ReadTurns ==
  ASSUME NEW t, NEW n \in Nat
  PROVE  \E f : f = [k \in 0 .. n |-> IF k = 0 THEN t ELSE arm64!ReadTurn(f[k - 1])]
<1> DEFINE Is(f, m) ==
             f = [k \in 0 .. m |-> IF k = 0 THEN t ELSE arm64!ReadTurn(f[k - 1])]
           T == {m \in Nat : \E f : Is(f, m)}
<1>1. 0 \in T
  <2>1. Is([k \in 0 .. 0 |-> t], 0)
    OBVIOUS
  <2> HIDE DEF Is
  <2>2. QED
    BY <2>1
<1>2. ASSUME NEW m \in Nat, m \in T PROVE m + 1 \in T
  <2>1. PICK f : Is(f, m)
    BY <1>2
  <2> DEFINE g == [k \in 0 .. m + 1 |->
                     IF k = m + 1 THEN arm64!ReadTurn(f[m]) ELSE f[k]]
  <2>2. \A k \in 0 .. m : f[k] = IF k = 0 THEN t ELSE arm64!ReadTurn(f[k - 1])
    BY <2>1
  <2>3. ASSUME NEW k \in 0 .. m + 1
        PROVE  g[k] = IF k = 0 THEN t ELSE arm64!ReadTurn(g[k - 1])
    <3>1. CASE k = m + 1
      BY <3>1
    <3>2. CASE k # m + 1
      <4>1. k \in 0 .. m /\ g[k] = f[k]
        BY <3>2
      <4>2. k # 0 => k - 1 \in 0 .. m /\ g[k - 1] = f[k - 1]
        BY <3>2
      <4>3. QED
        BY <2>2, <4>1, <4>2
    <3>3. QED
      BY <3>1, <3>2
  <2>4. Is(g, m + 1)
    <3>1. g = [k \in 0 .. m + 1 |-> g[k]]
      OBVIOUS
    <3> HIDE DEF g
    <3>2. QED
      BY <2>3, <3>1
  <2> HIDE DEF Is, g
  <2>5. QED
    BY <2>4
<1>3. Nat \subseteq T
  <2> HIDE DEF T
  <2>1. QED
    BY <1>1, <1>2, TP!EveryNumber
<1>4. QED
  BY <1>3


(* A turn of Read goes on with what is left.                                *)
Reads(s, t) ==
  /\ t = [s |-> t.s, count |-> t.count, i |-> t.i, left |-> t.left]
  /\ GoesOn(s, t.s) /\ SameStack(s, t.s)
  /\ t.i \in 0 .. PointerSize - 1 /\ t.left \in Nat

LEMMA ReadTurnGoesOn ==
  ASSUME StreamNumbers, NEW s, NEW t, Reads(s, t)
  PROVE  Reads(s, arm64!ReadTurn(t))
<1> DEFINE n == arm64!Least(ValueSize - t.i, t.left)
           v == IF t.i > 0 THEN t.s.value ELSE arm64!RegRead(t.s, t.count)
<1>1. Standing(t.s)
  BY DEF Reads, GoesOn
<1>2. CASE t.left = 0
  BY <1>2 DEF arm64!ReadTurn
<1>3. CASE t.left # 0 /\ t.s.gr >= arm64!Limit
  <2>1. PICK u : u = arm64!ReadTurn(t)
    OBVIOUS
  <2>2. u = [t EXCEPT !.s = arm64!FromStack(t.s, t.left), !.left = 0]
    BY <1>3, <2>1 DEF arm64!ReadTurn
  <2>3. u = [s |-> arm64!FromStack(t.s, t.left), count |-> t.count, i |-> t.i, left |-> 0]
    BY <2>2 DEF Reads
  <2>4. GoesOn(s, u.s) /\ SameStack(s, u.s)
    <3>1. t.left \in Nat
      BY DEF Reads
    <3>2. GoesOn(t.s, u.s) /\ SameStack(t.s, u.s)
      BY <1>1, <2>3, <3>1, FromStackGoesOn
    <3>3. QED
      BY <3>2, GoesOnTwice DEF Reads, SameStack
  <2>5. QED
    BY <2>1, <2>3, <2>4 DEF Reads
<1>4. CASE t.left # 0 /\ ~(t.s.gr >= arm64!Limit)
  <2>1. PICK u : u = arm64!ReadTurn(t)
    OBVIOUS
  <2>2. PICK piece : piece = SubSeq(v, t.i + 1, t.i + n)
    OBVIOUS
  <2>3. PICK r : r = [t.s EXCEPT !.value = v, !.gr = @ + n, !.out = @ \o piece]
    OBVIOUS
  <2>4. u = [s |-> r, count |-> t.count + 1, i |-> 0, left |-> t.left - n]
    BY <1>4, <2>1, <2>2, <2>3 DEF arm64!ReadTurn
  <2>5. n \in 0 .. t.left
    BY DEF Reads, StreamNumbers, arm64!Least
  <2> HIDE DEF n, v
  <2>6. r = [gr |-> t.s.gr + n, vr |-> t.s.vr, st |-> t.s.st, value |-> v,
             stack |-> t.s.stack, base |-> t.s.base, buf |-> t.s.buf,
             out |-> t.s.out \o piece,
             regs |-> t.s.regs, halves |-> t.s.halves, sp |-> t.s.sp, mem |-> t.s.mem]
    BY <1>1, <2>3 DEF Standing
  <2>7. t.left \in Nat
    BY DEF Reads
  <2>8. Standing(r)
    BY <1>1, <2>5, <2>6, <2>7 DEF Standing
  <2>9. GoesOn(s, r) /\ SameStack(s, r)
    <3>1. GoesOn(t.s, r) /\ SameStack(t.s, r)
      BY <2>6, <2>8 DEF GoesOn, SameStack, Buffered
    <3>2. QED
      BY <3>1, GoesOnTwice DEF Reads, SameStack
  <2>10. QED
    <3>1. 0 \in 0 .. PointerSize - 1 /\ t.left - n \in Nat
      BY <2>5, <2>7 DEF StreamNumbers
    <3>2. QED
      BY <2>1, <2>4, <2>9, <3>1 DEF Reads
<1>5. QED
  BY <1>2, <1>3, <1>4

LEMMA ReadGoesOn ==
  ASSUME StreamNumbers, NEW s, Standing(s), NEW n \in Nat
  PROVE  GoesOn(s, arm64!Read(s, n)) /\ SameStack(s, arm64!Read(s, n))
<1> DEFINE t == [s |-> s, count |-> s.gr \div PointerSize, i |-> s.gr % PointerSize,
                 left |-> n]
           Is(f) == f = [k \in 0 .. n |->
                           IF k = 0 THEN t ELSE arm64!ReadTurn(f[k - 1])]
           turn == CHOOSE f : Is(f)
<1>1. Is(turn)
  <2> HIDE DEF t
  <2>1. \E f : Is(f)
    BY ReadTurns
  <2> HIDE DEF Is
  <2>2. QED
    BY <2>1
<1>2. arm64!Read(s, n) = turn[n].s
  BY DEF arm64!Read, arm64!ReadFrom
<1>3. Reads(s, t)
  <2>1. s.gr % PointerSize \in 0 .. PointerSize - 1
    BY DEF Standing, StreamNumbers
  <2>2. GoesOn(s, s) /\ SameStack(s, s)
    BY DEF GoesOn, SameStack
  <2>3. QED
    BY <2>1, <2>2 DEF Reads
<1> HIDE DEF turn, t
<1>4. \A k \in 0 .. n : turn[k] = IF k = 0 THEN t ELSE arm64!ReadTurn(turn[k - 1])
  BY <1>1
<1> DEFINE T == {k \in Nat : k <= n => Reads(s, turn[k])}
<1>5. 0 \in T
  BY <1>3, <1>4
<1>6. ASSUME NEW k \in Nat, k \in T PROVE k + 1 \in T
  <2>1. SUFFICES ASSUME k + 1 <= n PROVE Reads(s, turn[k + 1])
    OBVIOUS
  <2>2. Reads(s, turn[k]) /\ turn[k + 1] = arm64!ReadTurn(turn[k])
    BY <1>4, <1>6, <2>1
  <2>3. QED
    BY <2>2, ReadTurnGoesOn
<1>7. Nat \subseteq T
  <2> HIDE DEF T
  <2>1. QED
    BY <1>5, <1>6, TP!EveryNumber
<1>8. Reads(s, turn[n])
  BY <1>7
<1>9. QED
  BY <1>2, <1>8 DEF Reads

-----------------------------------------------------------------------------
(* Pieces of arguments                                                      *)

LEMMA SkipGoesOn ==
  ASSUME NEW s, Standing(s), NEW n \in Nat
  PROVE  GoesOn(s, arm64!Skip(s, n)) /\ SameStack(s, arm64!Skip(s, n))
<1>1. PICK u : u = arm64!Skip(s, n)
  OBVIOUS
<1>2. u = [s EXCEPT !.gr = s.gr + n] \/ u = [s EXCEPT !.st = s.st + n]
  BY <1>1 DEF arm64!Skip
<1>3. \E gr, st \in Nat : st >= s.st /\
        u = [gr |-> gr, vr |-> s.vr, st |-> st, value |-> s.value,
             stack |-> s.stack, base |-> s.base, buf |-> s.buf, out |-> s.out,
             regs |-> s.regs, halves |-> s.halves, sp |-> s.sp, mem |-> s.mem]
  <2>1. s.gr + n \in Nat /\ s.st + n \in Nat /\ s.st + n >= s.st
    BY DEF Standing
  <2>2. CASE u = [s EXCEPT !.gr = s.gr + n]
    <3>1. u = [gr |-> s.gr + n, vr |-> s.vr, st |-> s.st, value |-> s.value,
               stack |-> s.stack, base |-> s.base, buf |-> s.buf, out |-> s.out,
               regs |-> s.regs, halves |-> s.halves, sp |-> s.sp, mem |-> s.mem]
      BY <2>2 DEF Standing
    <3>2. QED
      BY <2>1, <3>1 DEF Standing
  <2>3. CASE u = [s EXCEPT !.st = s.st + n]
    <3>1. u = [gr |-> s.gr, vr |-> s.vr, st |-> s.st + n, value |-> s.value,
               stack |-> s.stack, base |-> s.base, buf |-> s.buf, out |-> s.out,
               regs |-> s.regs, halves |-> s.halves, sp |-> s.sp, mem |-> s.mem]
      BY <2>3 DEF Standing
    <3>2. QED
      BY <2>1, <3>1 DEF Standing
  <2>4. QED
    BY <1>2, <2>2, <2>3
<1>4. QED
  BY <1>1, <1>3 DEF Standing, GoesOn, SameStack, Buffered

(* Align goes to a whole register and a whole word of the stack.            *)
LEMMA AlignGoesOn ==
  ASSUME StreamNumbers, NEW s, Standing(s)
  PROVE  /\ GoesOn(s, arm64!Align(s)) /\ SameStack(s, arm64!Align(s))
         /\ arm64!Align(s).gr % PointerSize = 0 /\ arm64!Align(s).st % 4 = 0
<1>1. PICK u : u = arm64!Align(s)
  OBVIOUS
<1>2. PICK gr, st : gr = arm64!AlignTo(s.gr, PointerSize) /\ st = arm64!AlignTo(s.st, 4)
  OBVIOUS
<1>3. gr \in Nat /\ gr % PointerSize = 0
  BY <1>2, AlignsUp DEF StreamNumbers, Standing
<1>4. st \in Nat /\ st % 4 = 0 /\ s.st <= st
  <2>1. 4 \in Nat \ {0} /\ s.st \in Nat
    BY DEF Standing
  <2>2. /\ arm64!AlignTo(s.st, 4) \in Nat /\ s.st <= arm64!AlignTo(s.st, 4)
        /\ arm64!AlignTo(s.st, 4) % 4 = 0
    BY <2>1, AlignsUp
  <2>3. QED
    BY <1>2, <2>2
<1>5. u = [s EXCEPT !.st = st, !.gr = gr]
  BY <1>1, <1>2 DEF arm64!Align
<1>6. u = [gr |-> gr, vr |-> s.vr, st |-> st, value |-> s.value,
           stack |-> s.stack, base |-> s.base, buf |-> s.buf, out |-> s.out,
           regs |-> s.regs, halves |-> s.halves, sp |-> s.sp, mem |-> s.mem]
  BY <1>5 DEF Standing
<1>7. Standing(u)
  BY <1>3, <1>4, <1>6 DEF Standing
<1>8. Buffered(s) => Buffered(u)
  BY <1>4, <1>6 DEF Buffered, Standing
<1>9. QED
  BY <1>1, <1>3, <1>4, <1>6, <1>7, <1>8 DEF GoesOn, SameStack

(* Vector registers are written or read one after the other.                *)
LEMMA VectorGoesOn ==
  ASSUME NEW s, Standing(s), s.vr < RegCount, RegCount \in Nat, NEW out, NEW halves, NEW u,
         u = [gr |-> s.gr, vr |-> s.vr + 1, st |-> s.st, value |-> s.value,
              stack |-> s.stack, base |-> s.base, buf |-> s.buf, out |-> out,
              regs |-> s.regs, halves |-> halves, sp |-> s.sp, mem |-> s.mem]
  PROVE  GoesOn(s, u) /\ SameStack(s, u)
<1>1. s.vr + 1 \in 0 .. RegCount
  BY DEF Standing
<1>2. Standing(u)
  BY <1>1 DEF Standing
<1>3. QED
  BY <1>2 DEF GoesOn, SameStack, Buffered

LEMMA HalfWritten ==
  ASSUME NEW s, Standing(s), s.vr < RegCount, RegCount \in Nat, NEW x, NEW v
  PROVE  /\ GoesOn(s, [s EXCEPT !.halves[x] = v, !.vr = @ + 1])
         /\ SameStack(s, [s EXCEPT !.halves[x] = v, !.vr = @ + 1])
<1>1. PICK u : u = [s EXCEPT !.halves[x] = v, !.vr = @ + 1]
  OBVIOUS
<1>2. u = [gr |-> s.gr, vr |-> s.vr + 1, st |-> s.st, value |-> s.value,
           stack |-> s.stack, base |-> s.base, buf |-> s.buf, out |-> s.out,
           regs |-> s.regs, halves |-> [s.halves EXCEPT ![x] = v],
           sp |-> s.sp, mem |-> s.mem]
  BY <1>1 DEF Standing
<1>3. GoesOn(s, u) /\ SameStack(s, u)
  BY <1>2, VectorGoesOn
<1>4. QED
  BY <1>1, <1>3

LEMMA HalvesRead ==
  ASSUME NEW s, Standing(s), s.vr < RegCount, RegCount \in Nat, NEW v
  PROVE  /\ GoesOn(s, [s EXCEPT !.out = v, !.vr = @ + 1])
         /\ SameStack(s, [s EXCEPT !.out = v, !.vr = @ + 1])
<1>1. PICK u : u = [s EXCEPT !.out = v, !.vr = @ + 1]
  OBVIOUS
<1>2. u = [gr |-> s.gr, vr |-> s.vr + 1, st |-> s.st, value |-> s.value,
           stack |-> s.stack, base |-> s.base, buf |-> s.buf, out |-> v,
           regs |-> s.regs, halves |-> s.halves, sp |-> s.sp, mem |-> s.mem]
  BY <1>1 DEF Standing
<1>3. GoesOn(s, u) /\ SameStack(s, u)
  BY <1>2, VectorGoesOn
<1>4. QED
  BY <1>1, <1>3

LEMMA VectorsGoOn ==
  ASSUME StreamNumbers, NEW s, Standing(s), NEW b, Len(b) \in Nat
  PROVE  /\ GoesOn(s, arm64!WriteFloat(s, b)) /\ SameStack(s, arm64!WriteFloat(s, b))
         /\ GoesOn(s, arm64!WriteDouble(s, b)) /\ SameStack(s, arm64!WriteDouble(s, b))
         /\ GoesOn(s, arm64!ReadFloat(s)) /\ SameStack(s, arm64!ReadFloat(s))
         /\ GoesOn(s, arm64!ReadDouble(s)) /\ SameStack(s, arm64!ReadDouble(s))
<1>1. CASE s.vr >= RegCount
  <2>1. /\ arm64!WriteFloat(s, b) = arm64!ToStack(s, b)
        /\ arm64!WriteDouble(s, b) = arm64!ToStack(s, b)
        /\ arm64!ReadFloat(s) = arm64!FromStack(s, 4)
        /\ arm64!ReadDouble(s) = arm64!FromStack(s, 8)
    BY <1>1 DEF arm64!WriteFloat, arm64!WriteDouble, arm64!ReadFloat, arm64!ReadDouble
  <2>2. QED
    BY <2>1, ToStackGoesOn, FromStackGoesOn
<1>2. CASE ~(s.vr >= RegCount)
  <2>1. s.vr < RegCount /\ RegCount \in Nat
    BY <1>2 DEF Standing, StreamNumbers
  <2>2. GoesOn(s, arm64!WriteFloat(s, b)) /\ SameStack(s, arm64!WriteFloat(s, b))
    <3>1. arm64!WriteFloat(s, b) =
            [s EXCEPT !.halves[s.vr * SingleStep] = b, !.vr = @ + 1]
      BY <1>2 DEF arm64!WriteFloat
    <3>2. GoesOn(s, [s EXCEPT !.halves[s.vr * SingleStep] = b, !.vr = @ + 1])
          /\ SameStack(s, [s EXCEPT !.halves[s.vr * SingleStep] = b, !.vr = @ + 1])
      BY <2>1, HalfWritten, Zenon
    <3>3. QED
      BY <3>1, <3>2, Zenon
  <2>3. GoesOn(s, arm64!WriteDouble(s, b)) /\ SameStack(s, arm64!WriteDouble(s, b))
    <3>1. arm64!WriteDouble(s, b) =
            [s EXCEPT !.halves[s.vr * SingleStep] = SubSeq(b, 1, 4), !.vr = @ + 1]
      BY <1>2 DEF arm64!WriteDouble
    <3>2. PICK v : v = SubSeq(b, 1, 4)
      OBVIOUS
    <3>3. GoesOn(s, [s EXCEPT !.halves[s.vr * SingleStep] = v, !.vr = @ + 1])
          /\ SameStack(s, [s EXCEPT !.halves[s.vr * SingleStep] = v, !.vr = @ + 1])
      BY <2>1, HalfWritten, Zenon
    <3>4. QED
      BY <3>1, <3>2, <3>3, Zenon
  <2>4. GoesOn(s, arm64!ReadFloat(s)) /\ SameStack(s, arm64!ReadFloat(s))
    <3>1. arm64!ReadFloat(s) =
            [s EXCEPT !.out = s.out \o s.halves[s.vr * SingleStep], !.vr = @ + 1]
      BY <1>2 DEF arm64!ReadFloat
    <3>2. QED
      BY <2>1, <3>1, HalvesRead, Zenon
  <2>5. GoesOn(s, arm64!ReadDouble(s)) /\ SameStack(s, arm64!ReadDouble(s))
    <3>1. arm64!ReadDouble(s) =
            [s EXCEPT !.out = s.out \o s.halves[2 * s.vr] \o s.halves[2 * s.vr + 1],
                      !.vr = @ + 1]
      BY <1>2 DEF arm64!ReadDouble
    <3>2. QED
      BY <2>1, <3>1, HalvesRead, Zenon
  <2>6. QED
    BY <2>2, <2>3, <2>4, <2>5
<1>3. QED
  BY <1>1, <1>2

(* StackAlloc takes room for n bytes below the stack pointer.               *)
LEMMA StackAllocTakes ==
  ASSUME StreamNumbers, NEW s, Standing(s), StackTaken(s), NEW n \in Nat
  PROVE  /\ Takes(s, arm64!StackAlloc(s, n))
         /\ arm64!StackAlloc(s, n).sp + n <= s.sp
         /\ arm64!StackAlloc(s, n).mem = s.mem
         /\ arm64!StackAlloc(s, n).gr = s.gr /\ arm64!StackAlloc(s, n).st = s.st
         /\ arm64!StackAlloc(s, n).buf = s.buf
<1>1. PICK u : u = arm64!StackAlloc(s, n)
  OBVIOUS
<1>2. PICK m : m = arm64!AlignTo(n, StackAlign)
  OBVIOUS
<1>3. m \in Nat /\ n <= m /\ m % StackAlign = 0
  BY <1>2, AlignsUp DEF StreamNumbers
<1>4. u = [s EXCEPT !.sp = s.sp - m]
  BY <1>1, <1>2 DEF arm64!StackAlloc
<1>5. u = [gr |-> s.gr, vr |-> s.vr, st |-> s.st, value |-> s.value,
           stack |-> s.stack, base |-> s.base, buf |-> s.buf, out |-> s.out,
           regs |-> s.regs, halves |-> s.halves, sp |-> s.sp - m, mem |-> s.mem]
  BY <1>4 DEF Standing
<1>6. s.sp - m \in Int /\ (s.sp - m) % StackAlign = 0
  BY <1>3, AlignsDown DEF StreamNumbers, StackTaken
<1>7. Standing(u)
  BY <1>5 DEF Standing
<1>8. StackTaken(u)
  BY <1>3, <1>5, <1>6 DEF StackTaken, StreamNumbers
<1>9. u.sp + n <= s.sp
  BY <1>3, <1>5 DEF StackTaken
<1>10. QED
  BY <1>1, <1>5, <1>7, <1>8, <1>9 DEF Takes, GoesOn, Buffered

(* What is written into that room lies below the top.                       *)
LEMMA PokeTakes ==
  ASSUME StreamNumbers, NEW s, Standing(s), StackTaken(s), NEW b, Len(b) \in Nat,
         s.sp + Len(b) <= Top, NEW u, u = [s EXCEPT !.mem = arm64!Poke(@, s.sp, b)]
  PROVE  Takes(s, u) /\ u.sp = s.sp
<1>1. PICK m : m = arm64!Poke(s.mem, s.sp, b)
  OBVIOUS
<1>2. u = [s EXCEPT !.mem = m]
  BY <1>1
<1>3. u = [gr |-> s.gr, vr |-> s.vr, st |-> s.st, value |-> s.value,
           stack |-> s.stack, base |-> s.base, buf |-> s.buf, out |-> s.out,
           regs |-> s.regs, halves |-> s.halves, sp |-> s.sp, mem |-> m]
  BY <1>2 DEF Standing
<1>4. DOMAIN m = (s.sp .. s.sp + Len(b) - 1) \cup DOMAIN s.mem
  BY <1>1 DEF arm64!Poke
<1>5. \A a \in DOMAIN m : a \in Int /\ s.sp <= a /\ a < Top
  BY <1>4 DEF StackTaken, StreamNumbers
<1>6. Standing(u)
  BY <1>3 DEF Standing
<1>7. StackTaken(u)
  BY <1>3, <1>5 DEF StackTaken
<1>8. QED
  BY <1>3, <1>6, <1>7 DEF Takes, GoesOn, Buffered

(* WriteStream takes room for what the pointer is to, and writes there.     *)
LEMMA WriteStreamTakes ==
  ASSUME StreamNumbers, NEW s, Standing(s), StackTaken(s), NEW b, Len(b) \in Nat
  PROVE  Takes(s, arm64!WriteStream(s, b))
<1>1. PICK t : t = arm64!StackAlloc(s, Len(b))
  OBVIOUS
<1>2. Takes(s, t) /\ t.sp + Len(b) <= s.sp
  BY <1>1, StackAllocTakes
<1>3. PICK u : u = [t EXCEPT !.mem = arm64!Poke(@, t.sp, b)]
  OBVIOUS
<1>4. Standing(t) /\ StackTaken(t) /\ t.sp + Len(b) <= Top
  BY <1>2 DEF Takes, GoesOn, StackTaken, StreamNumbers
<1>5. Takes(t, u)
  BY <1>3, <1>4, PokeTakes
<1>6. PICK w : w = arm64!AddressBytes(t.sp)
  OBVIOUS
<1>7. w \in Seq({w[j] : j \in 1 .. PointerSize})
  <2>1. w = [j \in 1 .. PointerSize |-> w[j]] /\ PointerSize \in Nat
    BY <1>6 DEF arm64!AddressBytes, StreamNumbers
  <2>2. QED
    BY <2>1, SequenceOf
<1>8. GoesOn(u, arm64!Write(u, w)) /\ SameStack(u, arm64!Write(u, w))
  BY <1>5, <1>7, WriteGoesOn DEF Takes, GoesOn
<1>9. arm64!WriteStream(s, b) = arm64!Write(u, w)
  BY <1>1, <1>3, <1>6 DEF arm64!WriteStream
<1>10. StackTaken(arm64!Write(u, w))
  BY <1>5, <1>8 DEF Takes, StackTaken, SameStack
<1>11. GoesOn(s, u)
  BY <1>2, <1>5, GoesOnTwice DEF Takes
<1>12. GoesOn(s, arm64!Write(u, w))
  BY <1>8, <1>11, GoesOnTwice
<1>13. QED
  BY <1>9, <1>10, <1>12 DEF Takes

(* What is put out tells nothing of the rest of a stream.                   *)
LEMMA OutGoesOn ==
  ASSUME NEW s, Standing(s), NEW v
  PROVE  /\ GoesOn(s, [s EXCEPT !.out = v]) /\ SameStack(s, [s EXCEPT !.out = v])
         /\ GoesOn([s EXCEPT !.out = v], s) /\ SameStack([s EXCEPT !.out = v], s)
<1>1. PICK u : u = [s EXCEPT !.out = v]
  OBVIOUS
<1>2. u = [gr |-> s.gr, vr |-> s.vr, st |-> s.st, value |-> s.value,
           stack |-> s.stack, base |-> s.base, buf |-> s.buf, out |-> v,
           regs |-> s.regs, halves |-> s.halves, sp |-> s.sp, mem |-> s.mem]
  BY <1>1 DEF Standing
<1>3. Standing(u)
  BY <1>2 DEF Standing
<1>4. QED
  BY <1>1, <1>2, <1>3 DEF GoesOn, SameStack, Buffered

LEMMA ReadStreamGoesOn ==
  ASSUME StreamNumbers, NEW s, Standing(s), NEW n
  PROVE  GoesOn(s, arm64!ReadStream(s, n)) /\ SameStack(s, arm64!ReadStream(s, n))
<1>1. PICK r : r = [s EXCEPT !.out = << >>]
  OBVIOUS
<1>2. GoesOn(s, r) /\ SameStack(s, r)
  BY <1>1, OutGoesOn
<1>3. PICK t : t = arm64!Read(r, PointerSize)
  OBVIOUS
<1>4. GoesOn(r, t) /\ SameStack(r, t)
  BY <1>2, <1>3, ReadGoesOn DEF GoesOn, StreamNumbers
<1>5. \E v : arm64!ReadStream(s, n) = [t EXCEPT !.out = v]
  <2> DEFINE A == {a \in DOMAIN s.mem : arm64!AddressBytes(a) = t.out}
             v == s.out \o IF A = {} THEN arm64!Blank(n)
                           ELSE arm64!Peek(s.mem, CHOOSE a \in A : TRUE, n)
  <2>1. arm64!ReadStream(s, n) = [t EXCEPT !.out = v]
    BY <1>1, <1>3 DEF arm64!ReadStream
  <2>2. QED
    BY <2>1
<1>6. PICK v : arm64!ReadStream(s, n) = [t EXCEPT !.out = v]
  BY <1>5
<1>7. Standing(t)
  BY <1>4 DEF GoesOn
<1>8. GoesOn(t, [t EXCEPT !.out = v]) /\ SameStack(t, [t EXCEPT !.out = v])
  BY <1>7, OutGoesOn
<1>9. GoesOn(s, t) /\ SameStack(s, t)
  BY <1>2, <1>4, GoesOnTwice DEF SameStack
<1>10. GoesOn(s, [t EXCEPT !.out = v]) /\ SameStack(s, [t EXCEPT !.out = v])
  BY <1>8, <1>9, GoesOnTwice DEF SameStack
<1>11. QED
  BY <1>6, <1>10

(* The bytes of a piece are as many as its type has.                        *)
LEMMA OriginLength ==
  ASSUME NEW arg, NEW i, NEW n \in Nat
  PROVE  \E S : arm64!Origin(arg, i, n) \in Seq(S) /\ Len(arm64!Origin(arg, i, n)) = n
<1>1. PICK b : b = arm64!Origin(arg, i, n)
  OBVIOUS
<1>2. b = [j \in 1 .. n |-> b[j]]
  BY <1>1 DEF arm64!Origin
<1>3. b \in Seq({b[j] : j \in 1 .. n}) /\ Len(b) = n
  BY <1>2, SequenceOf
<1>4. QED
  BY <1>1, <1>3

LEMMA EncodePieceTakes ==
  ASSUME StreamNumbers, NEW s, Standing(s), StackTaken(s), NEW arg, NEW i,
         NEW p \in StreamPieces
  PROVE  Takes(s, arm64!EncodePiece(s, arg, i, p))
<1>1. p.op \in {"write", "skip", "float", "double", "stream"} /\ p.n \in Nat
  BY DEF StreamPieces
<1>2. PICK b : b = arm64!Origin(arg, i, p.n)
  OBVIOUS
<1>3. PICK S : b \in Seq(S) /\ Len(b) \in Nat
  BY <1>1, <1>2, OriginLength
<1>4. PICK u : u = arm64!EncodePiece(s, arg, i, p)
  OBVIOUS
<1>5. CASE p.op = "stream"
  <2>1. u = arm64!WriteStream(s, b)
    BY <1>2, <1>4, <1>5 DEF arm64!EncodePiece
  <2>2. QED
    BY <1>3, <1>4, <2>1, WriteStreamTakes
<1>6. CASE p.op # "stream"
  <2>1. GoesOn(s, u) /\ SameStack(s, u)
    <3>1. CASE p.op = "write"
      <4>1. u = arm64!Write(s, b)
        BY <1>2, <1>4, <3>1 DEF arm64!EncodePiece
      <4>2. QED
        BY <1>3, <4>1, WriteGoesOn
    <3>2. CASE p.op = "skip"
      <4>1. u = arm64!Skip(s, p.n)
        BY <1>4, <3>2 DEF arm64!EncodePiece
      <4>2. QED
        BY <1>1, <4>1, SkipGoesOn
    <3>3. CASE p.op = "float"
      <4>1. u = arm64!WriteFloat(s, b)
        BY <1>2, <1>4, <3>3 DEF arm64!EncodePiece
      <4>2. QED
        BY <1>3, <4>1, VectorsGoOn
    <3>4. CASE p.op = "double"
      <4>1. u = arm64!WriteDouble(s, b)
        BY <1>2, <1>4, <3>4 DEF arm64!EncodePiece
      <4>2. QED
        BY <1>3, <4>1, VectorsGoOn
    <3>5. QED
      BY <1>1, <1>6, <3>1, <3>2, <3>3, <3>4
  <2>2. StackTaken(u)
    BY <2>1 DEF StackTaken, SameStack
  <2>3. QED
    BY <1>4, <2>1, <2>2 DEF Takes
<1>7. QED
  BY <1>5, <1>6

LEMMA DecodePieceGoesOn ==
  ASSUME StreamNumbers, NEW s, Standing(s), NEW p \in StreamPieces
  PROVE  GoesOn(s, arm64!DecodePiece(s, p)) /\ SameStack(s, arm64!DecodePiece(s, p))
<1>1. p.op \in {"write", "skip", "float", "double", "stream"} /\ p.n \in Nat
  BY DEF StreamPieces
<1>2. PICK u : u = arm64!DecodePiece(s, p)
  OBVIOUS
<1>3. GoesOn(s, u) /\ SameStack(s, u)
  <2>1. CASE p.op = "write"
    <3>1. u = arm64!Read(s, p.n)
      BY <1>2, <2>1 DEF arm64!DecodePiece
    <3>2. QED
      BY <1>1, <3>1, ReadGoesOn
  <2>2. CASE p.op = "skip"
    <3>1. u = arm64!Skip(s, p.n)
      BY <1>2, <2>2 DEF arm64!DecodePiece
    <3>2. QED
      BY <1>1, <3>1, SkipGoesOn
  <2>3. CASE p.op = "float"
    <3>1. u = arm64!ReadFloat(s)
      BY <1>2, <2>3 DEF arm64!DecodePiece
    <3>2. Len(<< >>) \in Nat
      OBVIOUS
    <3>3. QED
      BY <3>1, <3>2, VectorsGoOn
  <2>4. CASE p.op = "double"
    <3>1. u = arm64!ReadDouble(s)
      BY <1>2, <2>4 DEF arm64!DecodePiece
    <3>2. Len(<< >>) \in Nat
      OBVIOUS
    <3>3. QED
      BY <3>1, <3>2, VectorsGoOn
  <2>5. CASE p.op = "stream"
    <3>1. u = arm64!ReadStream(s, p.n)
      BY <1>2, <2>5 DEF arm64!DecodePiece
    <3>2. QED
      BY <3>1, ReadStreamGoesOn
  <2>6. QED
    BY <1>1, <2>1, <2>2, <2>3, <2>4, <2>5
<1>4. QED
  BY <1>2, <1>3

-----------------------------------------------------------------------------
(* Encode and Decode                                                        *)

EncodeOf(f, n, t, arg, pieces) ==
  f = [k \in 0 .. n |-> IF k = 0 THEN t ELSE arm64!EncodePiece(f[k - 1], arg, k, pieces[k])]

LEMMA EncodeTurns ==
  ASSUME NEW t, NEW arg, NEW pieces, NEW n \in Nat
  PROVE  \E f : EncodeOf(f, n, t, arg, pieces)
<1> DEFINE T == {m \in Nat : \E f : EncodeOf(f, m, t, arg, pieces)}
<1>1. 0 \in T
  <2>1. EncodeOf([k \in 0 .. 0 |-> t], 0, t, arg, pieces)
    BY DEF EncodeOf
  <2>2. QED
    BY <2>1
<1>2. ASSUME NEW m \in Nat, m \in T PROVE m + 1 \in T
  <2>1. PICK f : EncodeOf(f, m, t, arg, pieces)
    BY <1>2
  <2> DEFINE g == [k \in 0 .. m + 1 |->
                     IF k = m + 1 THEN arm64!EncodePiece(f[m], arg, m + 1, pieces[m + 1]) ELSE f[k]]
  <2>2. \A k \in 0 .. m : f[k] = IF k = 0 THEN t ELSE arm64!EncodePiece(f[k - 1], arg, k, pieces[k])
    BY <2>1 DEF EncodeOf
  <2>3. ASSUME NEW k \in 0 .. m + 1
        PROVE  g[k] = IF k = 0 THEN t ELSE arm64!EncodePiece(g[k - 1], arg, k, pieces[k])
    <3>1. CASE k = m + 1
      BY <3>1
    <3>2. CASE k # m + 1
      <4>1. k \in 0 .. m /\ g[k] = f[k]
        BY <3>2
      <4>2. k # 0 => k - 1 \in 0 .. m /\ g[k - 1] = f[k - 1]
        BY <3>2
      <4>3. QED
        BY <2>2, <4>1, <4>2
    <3>3. QED
      BY <3>1, <3>2
  <2>4. EncodeOf(g, m + 1, t, arg, pieces)
    <3>1. g = [k \in 0 .. m + 1 |-> g[k]]
      OBVIOUS
    <3> HIDE DEF g
    <3>2. QED
      BY <2>3, <3>1 DEF EncodeOf
  <2> HIDE DEF g
  <2>5. QED
    BY <2>4
<1>3. Nat \subseteq T
  <2> HIDE DEF T
  <2>1. QED
    BY <1>1, <1>2, TP!EveryNumber
<1>4. QED
  BY <1>3


LEMMA EncodeTakes ==
  ASSUME StreamNumbers, NEW s, Standing(s), StackTaken(s), NEW arg,
         NEW pieces \in Seq(StreamPieces)
  PROVE  Takes(s, arm64!Encode(s, arg, pieces))
<1> DEFINE n == Len(pieces)
           Is(f) == f = [k \in 0 .. n |->
                           IF k = 0 THEN s ELSE arm64!EncodePiece(f[k - 1], arg, k, pieces[k])]
           turn == CHOOSE f : Is(f)
<1>1. n \in Nat
  OBVIOUS
<1>2. Is(turn)
  <2>1. \E f : Is(f)
    <3> HIDE DEF n
    <3>1. \E f : EncodeOf(f, n, s, arg, pieces)
      BY <1>1, EncodeTurns
    <3>2. QED
      BY <3>1 DEF EncodeOf
  <2> HIDE DEF Is
  <2>2. QED
    BY <2>1
<1>3. arm64!Encode(s, arg, pieces) = turn[n]
  BY DEF arm64!Encode
<1>4. Takes(s, s)
  BY DEF Takes, GoesOn
<1> HIDE DEF turn
<1>5. \A k \in 0 .. n : turn[k] = IF k = 0 THEN s
                                  ELSE arm64!EncodePiece(turn[k - 1], arg, k, pieces[k])
  BY <1>2
<1>6. \A k \in 1 .. n : pieces[k] \in StreamPieces
  OBVIOUS
<1> HIDE DEF n
<1> DEFINE T == {k \in Nat : k <= n => Takes(s, turn[k])}
<1>7. 0 \in T
  BY <1>1, <1>4, <1>5
<1>8. ASSUME NEW k \in Nat, k \in T PROVE k + 1 \in T
  <2>1. SUFFICES ASSUME k + 1 <= n PROVE Takes(s, turn[k + 1])
    OBVIOUS
  <2>2. /\ Takes(s, turn[k]) /\ pieces[k + 1] \in StreamPieces
        /\ turn[k + 1] = arm64!EncodePiece(turn[k], arg, k + 1, pieces[k + 1])
    <3>1. k + 1 \in 0 .. n /\ k + 1 \in 1 .. n /\ k + 1 # 0 /\ (k + 1) - 1 = k /\ k <= n
      BY <1>1, <2>1
    <3>2. QED
      BY <1>5, <1>6, <1>8, <3>1
  <2>3. Takes(turn[k], turn[k + 1])
    BY <2>2, EncodePieceTakes DEF Takes, GoesOn
  <2>4. QED
    BY <2>2, <2>3, GoesOnTwice DEF Takes
<1>9. Nat \subseteq T
  <2> HIDE DEF T
  <2>1. QED
    BY <1>7, <1>8, TP!EveryNumber
<1>10. QED
  BY <1>1, <1>3, <1>9

DecodeOf(f, n, t, pieces) ==
  f = [k \in 0 .. n |-> IF k = 0 THEN t ELSE arm64!DecodePiece(f[k - 1], pieces[k])]

LEMMA DecodeTurns ==
  ASSUME NEW t, NEW pieces, NEW n \in Nat
  PROVE  \E f : DecodeOf(f, n, t, pieces)
<1> DEFINE T == {m \in Nat : \E f : DecodeOf(f, m, t, pieces)}
<1>1. 0 \in T
  <2>1. DecodeOf([k \in 0 .. 0 |-> t], 0, t, pieces)
    BY DEF DecodeOf
  <2>2. QED
    BY <2>1
<1>2. ASSUME NEW m \in Nat, m \in T PROVE m + 1 \in T
  <2>1. PICK f : DecodeOf(f, m, t, pieces)
    BY <1>2
  <2> DEFINE g == [k \in 0 .. m + 1 |->
                     IF k = m + 1 THEN arm64!DecodePiece(f[m], pieces[m + 1]) ELSE f[k]]
  <2>2. \A k \in 0 .. m : f[k] = IF k = 0 THEN t ELSE arm64!DecodePiece(f[k - 1], pieces[k])
    BY <2>1 DEF DecodeOf
  <2>3. ASSUME NEW k \in 0 .. m + 1
        PROVE  g[k] = IF k = 0 THEN t ELSE arm64!DecodePiece(g[k - 1], pieces[k])
    <3>1. CASE k = m + 1
      BY <3>1
    <3>2. CASE k # m + 1
      <4>1. k \in 0 .. m /\ g[k] = f[k]
        BY <3>2
      <4>2. k # 0 => k - 1 \in 0 .. m /\ g[k - 1] = f[k - 1]
        BY <3>2
      <4>3. QED
        BY <2>2, <4>1, <4>2
    <3>3. QED
      BY <3>1, <3>2
  <2>4. DecodeOf(g, m + 1, t, pieces)
    <3>1. g = [k \in 0 .. m + 1 |-> g[k]]
      OBVIOUS
    <3> HIDE DEF g
    <3>2. QED
      BY <2>3, <3>1 DEF DecodeOf
  <2> HIDE DEF g
  <2>5. QED
    BY <2>4
<1>3. Nat \subseteq T
  <2> HIDE DEF T
  <2>1. QED
    BY <1>1, <1>2, TP!EveryNumber
<1>4. QED
  BY <1>3


LEMMA DecodeGoesOn ==
  ASSUME StreamNumbers, NEW s, Standing(s), NEW pieces \in Seq(StreamPieces)
  PROVE  GoesOn(s, arm64!Decode(s, pieces)) /\ SameStack(s, arm64!Decode(s, pieces))
<1> DEFINE n == Len(pieces)
           t == [s EXCEPT !.out = << >>]
           Is(f) == f = [k \in 0 .. n |->
                           IF k = 0 THEN t ELSE arm64!DecodePiece(f[k - 1], pieces[k])]
           turn == CHOOSE f : Is(f)
           Right(u) == GoesOn(s, u) /\ SameStack(s, u)
<1>1. n \in Nat
  OBVIOUS
<1>2. Is(turn)
  <2> HIDE DEF t
  <2>1. \E f : Is(f)
    <3> HIDE DEF n
    <3>1. \E f : DecodeOf(f, n, t, pieces)
      BY <1>1, DecodeTurns
    <3>2. QED
      BY <3>1 DEF DecodeOf
  <2> HIDE DEF Is
  <2>2. QED
    BY <2>1
<1>3. arm64!Decode(s, pieces) = turn[n]
  BY DEF arm64!Decode
<1>4. Right(t)
  BY OutGoesOn
<1> HIDE DEF turn, t
<1>5. \A k \in 0 .. n : turn[k] = IF k = 0 THEN t
                                  ELSE arm64!DecodePiece(turn[k - 1], pieces[k])
  BY <1>2
<1>6. \A k \in 1 .. n : pieces[k] \in StreamPieces
  OBVIOUS
<1> HIDE DEF n, Right
<1> DEFINE T == {k \in Nat : k <= n => Right(turn[k])}
<1>7. 0 \in T
  BY <1>1, <1>4, <1>5
<1>8. ASSUME NEW k \in Nat, k \in T PROVE k + 1 \in T
  <2>1. SUFFICES ASSUME k + 1 <= n PROVE Right(turn[k + 1])
    OBVIOUS
  <2>2. /\ Right(turn[k]) /\ pieces[k + 1] \in StreamPieces
        /\ turn[k + 1] = arm64!DecodePiece(turn[k], pieces[k + 1])
    <3>1. k + 1 \in 0 .. n /\ k + 1 \in 1 .. n /\ k + 1 # 0 /\ (k + 1) - 1 = k /\ k <= n
      BY <1>1, <2>1
    <3>2. QED
      BY <1>5, <1>6, <1>8, <3>1
  <2>3. GoesOn(turn[k], turn[k + 1]) /\ SameStack(turn[k], turn[k + 1])
    BY <2>2, DecodePieceGoesOn DEF Right, GoesOn
  <2>4. QED
    BY <2>2, <2>3, GoesOnTwice DEF Right, SameStack
<1>9. Nat \subseteq T
  <2> HIDE DEF T
  <2>1. QED
    BY <1>7, <1>8, TP!EveryNumber
<1>10. QED
  BY <1>1, <1>3, <1>9 DEF Right

-----------------------------------------------------------------------------
(* Steps of a call                                                          *)

(* A new stream takes the task as it is.                                    *)
LEMMA NewStreamStands ==
  ASSUME StreamNumbers, NEW s, StackTaken(s), NEW stack, NEW base,
         \A c \in DOMAIN s.regs : Len(s.regs[c]) = PointerSize
  PROVE  LET u == arm64!NewStream(s, stack, base)
         IN  /\ Standing(u) /\ StackTaken(u) /\ u.base = base /\ u.stack = stack
             /\ u.gr = 0 /\ u.st = 0 /\ u.buf = << >> /\ u.mem = s.mem /\ u.sp = s.sp
<1>1. PICK u : u = arm64!NewStream(s, stack, base)
  OBVIOUS
<1>2. u = [gr |-> 0, vr |-> 0, st |-> 0, value |-> arm64!Blank(ValueSize),
           stack |-> stack, base |-> base, buf |-> << >>, out |-> << >>,
           regs |-> s.regs, halves |-> s.halves, sp |-> s.sp, mem |-> s.mem]
  BY <1>1 DEF arm64!NewStream
<1>3. Standing(u) /\ StackTaken(u)
  BY <1>2 DEF Standing, StackTaken, StreamNumbers
<1>4. QED
  BY <1>1, <1>2, <1>3

(* The buffer goes below everything the arguments point to.                 *)
LEMMA PlaceStackTakes ==
  ASSUME StreamNumbers, NEW s, Standing(s), StackTaken(s), Buffered(s)
  PROVE  Takes(s, arm64!PlaceStack(s))
<1>1. CASE s.st = 0
  <2>1. arm64!PlaceStack(s) = s
    BY <1>1 DEF arm64!PlaceStack
  <2>2. QED
    BY <2>1 DEF Takes, GoesOn
<1>2. CASE s.st # 0
  <2>1. PICK t : t = arm64!StackAlloc(s, s.st)
    OBVIOUS
  <2>2. s.st \in Nat /\ Len(s.buf) \in 0 .. s.st
    BY DEF Standing, Buffered
  <2>3. Takes(s, t) /\ t.sp + s.st <= s.sp
    BY <2>1, <2>2, StackAllocTakes
  <2>4. PICK u : u = [t EXCEPT !.mem = arm64!Poke(@, t.sp, s.buf)]
    OBVIOUS
  <2>5. Standing(t) /\ StackTaken(t) /\ t.sp + Len(s.buf) <= Top /\ Len(s.buf) \in Nat
    BY <2>2, <2>3 DEF Takes, GoesOn, StackTaken, StreamNumbers
  <2>6. Takes(t, u)
    BY <2>4, <2>5, PokeTakes
  <2>7. arm64!PlaceStack(s) = u
    BY <1>2, <2>1, <2>4 DEF arm64!PlaceStack
  <2>8. QED
    BY <2>3, <2>6, <2>7, GoesOnTwice DEF Takes
<1>3. QED
  BY <1>1, <1>2

(* Arguments and results are sequences of pieces.                           *)
LEMMA StreamConstants ==
  /\ StreamNumbers
  /\ ArgKinds \subseteq Seq(StreamPieces) /\ RetKinds \subseteq Seq(StreamPieces)
BY PartsAssumption DEF PartsAssumption, StreamNumbers, StreamPieces

LEMMA StreamInit == arm64!Init => StreamInv
<1>1. SUFFICES ASSUME arm64!Init PROVE StreamInv
  OBVIOUS
<1> DEFINE s == [regs |-> [c \in 0 .. RegCount - 1 |-> arm64!Blank(PointerSize)],
                 halves |-> [c \in 0 .. 2 * RegCount - 1 |-> arm64!Blank(4)],
                 sp |-> Top, mem |-> << >>]
<1>2. /\ phase = "write" /\ sent = << >> /\ got = << >>
      /\ rs = arm64!NewStream(s, "buffer", 0)
  BY <1>1 DEF arm64!Init
<1>3. Len(arm64!Blank(PointerSize)) = PointerSize
  <2>1. PICK b : b = arm64!Blank(PointerSize)
    OBVIOUS
  <2>2. b = [j \in 1 .. PointerSize |-> b[j]] /\ PointerSize \in Nat
    BY <2>1, StreamConstants DEF arm64!Blank, StreamNumbers
  <2>3. QED
    BY <2>1, <2>2, SequenceOf
<1>4. \A c \in DOMAIN s.regs : Len(s.regs[c]) = PointerSize
  BY <1>3
<1>5. StackTaken(s)
  <2>1. s.sp = Top /\ s.mem = << >> /\ DOMAIN << >> = {}
    OBVIOUS
  <2>2. QED
    BY <2>1, StreamConstants DEF StackTaken, StreamNumbers
<1> HIDE DEF s
<1>6. /\ Standing(rs) /\ StackTaken(rs) /\ rs.stack = "buffer"
      /\ rs.gr = 0 /\ rs.st = 0 /\ rs.buf = << >>
  BY <1>2, <1>4, <1>5, NewStreamStands, StreamConstants
<1>7. rs.gr % PointerSize = 0 /\ rs.st % 4 = 0
  BY <1>6, StreamConstants DEF StreamNumbers
<1>8. Buffered(rs)
  BY <1>6 DEF Buffered
<1>9. sent \in Seq(ArgKinds) /\ got \in Seq({})
  BY <1>2
<1>10. QED
  BY <1>2, <1>6, <1>7, <1>8, <1>9 DEF StreamInv

LEMMA ArgWriteInv ==
  ASSUME StreamInv, NEW pieces \in ArgKinds, arm64!ArgWrite(pieces)
  PROVE  StreamInv'
<1>1. /\ phase = "write" /\ phase' = "write" /\ got' = got
      /\ sent' = Append(sent, pieces)
      /\ rs' = arm64!Align(arm64!Encode(rs, Len(sent) + 1, pieces))
  BY DEF arm64!ArgWrite
<1>2. Standing(rs) /\ StackTaken(rs) /\ Buffered(rs)
  BY <1>1 DEF StreamInv
<1>3. PICK t : t = arm64!Encode(rs, Len(sent) + 1, pieces)
  OBVIOUS
<1>4. Takes(rs, t)
  BY <1>2, <1>3, StreamConstants, EncodeTakes
<1>5. /\ GoesOn(t, rs') /\ SameStack(t, rs')
      /\ rs'.gr % PointerSize = 0 /\ rs'.st % 4 = 0
  BY <1>1, <1>3, <1>4, AlignGoesOn, StreamConstants DEF Takes, GoesOn
<1>6. Standing(rs') /\ StackTaken(rs') /\ Buffered(rs')
  BY <1>2, <1>4, <1>5 DEF Takes, GoesOn, SameStack, StackTaken
<1>7. sent' \in Seq(ArgKinds) /\ \E S : got' \in Seq(S)
  BY <1>1 DEF StreamInv
<1>8. QED
  BY <1>1, <1>5, <1>6, <1>7 DEF StreamInv, Standing, StackTaken, Buffered

LEMMA CalledInv ==
  ASSUME StreamInv, arm64!Called
  PROVE  StreamInv'
<1>1. /\ phase = "write" /\ phase' = "read" /\ UNCHANGED <<sent, got, ret>>
      /\ rs' = arm64!NewStream(arm64!PlaceStack(rs), "memory", arm64!PlaceStack(rs).sp)
  BY DEF arm64!Called
<1>2. Standing(rs) /\ StackTaken(rs) /\ Buffered(rs)
  BY <1>1 DEF StreamInv
<1>3. PICK s : s = arm64!PlaceStack(rs)
  OBVIOUS
<1>4. Takes(rs, s)
  BY <1>2, <1>3, PlaceStackTakes, StreamConstants
<1>5. StackTaken(s) /\ \A c \in DOMAIN s.regs : Len(s.regs[c]) = PointerSize
  BY <1>4 DEF Takes, GoesOn, Standing
<1>6. rs' = arm64!NewStream(s, "memory", s.sp)
  BY <1>1, <1>3
<1>7. /\ Standing(rs') /\ StackTaken(rs') /\ rs'.base = s.sp
      /\ rs'.gr = 0 /\ rs'.st = 0 /\ rs'.mem = s.mem
  BY <1>5, <1>6, NewStreamStands, StreamConstants
<1>8. rs'.gr % PointerSize = 0 /\ rs'.st % 4 = 0
  BY <1>7, StreamConstants DEF StreamNumbers
<1>9. \A a \in DOMAIN rs'.mem : rs'.base <= a
  BY <1>5, <1>7 DEF StackTaken
<1>10. QED
  BY <1>1, <1>7, <1>8, <1>9 DEF StreamInv, Standing, StackTaken

LEMMA ArgReadInv ==
  ASSUME StreamInv, arm64!ArgRead
  PROVE  StreamInv'
<1> DEFINE s == arm64!Decode(rs, sent[Len(got) + 1])
<1>1. /\ phase = "read" /\ phase' = "read" /\ sent' = sent
      /\ Len(got) < Len(sent) /\ rs' = arm64!Align(s) /\ got' = Append(got, s.out)
  BY DEF arm64!ArgRead
<1>2. Standing(rs) /\ StackTaken(rs) /\ \A a \in DOMAIN rs.mem : rs.base <= a
  BY <1>1 DEF StreamInv
<1>3. PICK S : got \in Seq(S)
  BY DEF StreamInv
<1>4. sent[Len(got) + 1] \in Seq(StreamPieces)
  <2>1. sent \in Seq(ArgKinds) /\ Len(got) + 1 \in 1 .. Len(sent)
    BY <1>1, <1>3 DEF StreamInv
  <2>2. QED
    BY <2>1, StreamConstants
<1>5. GoesOn(rs, s) /\ SameStack(rs, s)
  BY <1>2, <1>4, DecodeGoesOn, StreamConstants
<1> HIDE DEF s
<1>6. /\ GoesOn(s, rs') /\ SameStack(s, rs')
      /\ rs'.gr % PointerSize = 0 /\ rs'.st % 4 = 0
  BY <1>1, <1>5, AlignGoesOn, StreamConstants DEF GoesOn
<1>7. Standing(rs') /\ StackTaken(rs') /\ \A a \in DOMAIN rs'.mem : rs'.base <= a
  BY <1>2, <1>5, <1>6 DEF GoesOn, SameStack, StackTaken
<1>8. got' \in Seq(S \cup {s.out})
  BY <1>1, <1>3
<1>9. sent' \in Seq(ArgKinds) /\ \E R : got' \in Seq(R)
  BY <1>1, <1>8 DEF StreamInv
<1>10. QED
  BY <1>1, <1>6, <1>7, <1>9 DEF StreamInv, Standing, StackTaken

LEMMA CalleeAllocInv ==
  ASSUME StreamInv, arm64!CalleeAlloc
  PROVE  StreamInv'
<1>1. /\ phase = "read" /\ UNCHANGED <<phase, sent, got, ret>>
      /\ rs' = arm64!StackAlloc(rs, StackAlign)
  BY DEF arm64!CalleeAlloc
<1>2. Standing(rs) /\ StackTaken(rs)
  BY DEF StreamInv
<1>3. Takes(rs, rs') /\ rs'.mem = rs.mem /\ rs'.gr = rs.gr /\ rs'.st = rs.st
  BY <1>1, <1>2, StackAllocTakes, StreamConstants DEF StreamNumbers
<1>4. Standing(rs') /\ StackTaken(rs') /\ rs'.base = rs.base
  BY <1>3 DEF Takes, GoesOn
<1>5. QED
  BY <1>1, <1>3, <1>4 DEF StreamInv, Standing, StackTaken

LEMMA RetWriteInv ==
  ASSUME StreamInv, NEW pieces \in RetKinds, arm64!RetWrite(pieces)
  PROVE  StreamInv'
<1>1. /\ phase' \in {"panic", "return"} /\ UNCHANGED <<sent, got>>
      /\ rs' = arm64!Encode(arm64!NewStream(rs, "nil", 0), 0, pieces)
      /\ ret'.kind = pieces
  BY DEF arm64!RetWrite
<1>2. PICK s : s = arm64!NewStream(rs, "nil", 0)
  OBVIOUS
<1>3. Standing(s) /\ StackTaken(s)
  BY <1>2, NewStreamStands, StreamConstants DEF StreamInv, Standing
<1>4. Takes(s, rs')
  BY <1>1, <1>2, <1>3, EncodeTakes, StreamConstants
<1>5. Standing(rs') /\ StackTaken(rs')
  BY <1>4 DEF Takes, GoesOn
<1>6. QED
  BY <1>1, <1>5 DEF StreamInv, Standing, StackTaken

LEMMA RetExtractInv ==
  ASSUME StreamInv, arm64!RetExtract
  PROVE  StreamInv'
<1>1. /\ phase = "return" /\ phase' = "back" /\ UNCHANGED <<sent, got>>
      /\ rs' = arm64!Decode(arm64!NewStream(rs, "nil", 0), ret.kind)
  BY DEF arm64!RetExtract
<1>2. PICK s : s = arm64!NewStream(rs, "nil", 0)
  OBVIOUS
<1>3. Standing(s) /\ StackTaken(s)
  BY <1>2, NewStreamStands, StreamConstants DEF StreamInv, Standing
<1>4. ret.kind \in Seq(StreamPieces)
  BY <1>1, StreamConstants DEF StreamInv
<1>5. GoesOn(s, rs') /\ SameStack(s, rs')
  BY <1>1, <1>2, <1>3, <1>4, DecodeGoesOn, StreamConstants
<1>6. Standing(rs') /\ StackTaken(rs')
  BY <1>3, <1>5 DEF GoesOn, SameStack, StackTaken
<1>7. QED
  BY <1>1, <1>6 DEF StreamInv, Standing, StackTaken

LEMMA StreamStep ==
  StreamInv /\ (arm64!Next \/ UNCHANGED streamVars) => StreamInv'
<1>1. SUFFICES ASSUME StreamInv, arm64!Next \/ UNCHANGED streamVars PROVE StreamInv'
  OBVIOUS
<1>2. CASE UNCHANGED streamVars
  BY <1>1, <1>2 DEF streamVars, StreamInv, Standing, StackTaken, Buffered
<1>3. CASE arm64!Next
  BY <1>1, <1>3, ArgWriteInv, CalledInv, ArgReadInv, CalleeAllocInv, RetWriteInv,
     RetExtractInv DEF arm64!Next
<1>4. QED
  BY <1>1, <1>2, <1>3

(* On arm64, what a call puts on the stack lies below the caller's and      *)
(* outside the frame of the callee (StackAlloc of ArgWrite), and every      *)
(* argument begins at a whole register and a whole word (Align).            *)
THEOREM PartsBelowTheCaller == PartsSpec => []BelowTheCaller
<1>1. PartsInit => StreamInv
  BY StreamInit DEF PartsInit
<1>2. StreamInv /\ [PartsNext]_partsVars => StreamInv'
  <2>1. [PartsNext]_partsVars => arm64!Next \/ UNCHANGED streamVars
    BY DEF PartsNext, partsVars
  <2>2. QED
    BY <2>1, StreamStep
<1>3. StreamInv => BelowTheCaller
  BY DEF StreamInv, Standing, StackTaken, BelowTheCaller, arm64!BelowTheCaller,
     arm64!TypeOK
<1>4. QED
  BY <1>1, <1>2, <1>3, PTL DEF PartsSpec

-----------------------------------------------------------------------------
(* The map table                                                            *)

LEMMA TableConstantsHold == TP!TableConstants
BY PartsAssumption DEF TP!TableConstants, Ranges

(* mapDelete deletes the same.                                              *)
LEMMA SameDeleted ==
  \A m, a, n : table!Deleted(m, a, n) = TP!Deleted(m, a, n)
<1>1. \A m, a, n : table!Chain(m, a, n) = TP!Chain(m, a, n)
  BY SMTT(60) DEF table!Chain, TP!Chain, table!RegionAt, TP!RegionAt,
     table!Put, TP!Put, table!Drop, TP!Drop, table!Cardinality, TP!Cardinality
<1>2. \A s : table!Swept(s) = TP!Swept(s)
  BY SMTT(60) DEF table!Swept, TP!Swept, table!LookAt, TP!LookAt,
     table!Touches, TP!Touches, table!CutOut, TP!CutOut, table!Put, TP!Put,
     table!Drop, TP!Drop, table!Min, TP!Min, table!Cardinality, TP!Cardinality
<1>3. QED
  BY <1>1, <1>2 DEF table!Deleted, TP!Deleted

(* memoryManager calls mean the same in both.                               *)
LEMMA TableSteps ==
  /\ table!Init => TP!Init
  /\ table!Next => TP!Next
  /\ TP!vars = tableVars
  /\ TP!TypeOK /\ TP!TableAgrees => table!TypeOK /\ table!TableAgrees
<1>1. table!Init => TP!Init
  BY DEF table!Init, TP!Init, table!Idle, TP!Idle
<1>2. table!Next => TP!Next
  <2>1. \A c, a, n : table!MemMap(c, a, n) => TP!MemMap(c, a, n)
    BY DEF table!MemMap, TP!MemMap, table!Begin, TP!Begin, table!Apart, TP!Apart,
       table!Idle, TP!Idle, table!Align, TP!Align, table!Maps, TP!Maps,
       table!Bytes, TP!Bytes, table!Of, TP!Of, table!Call, TP!Call
  <2>2. \A c, a, n : table!Unmap(c, a, n) => TP!Unmap(c, a, n)
    BY DEF table!Unmap, TP!Unmap, table!Begin, TP!Begin, table!Apart, TP!Apart,
       table!Idle, TP!Idle, table!CanUnmap, TP!CanUnmap, table!InStep, TP!InStep,
       table!Bytes, TP!Bytes, table!Of, TP!Of, table!Call, TP!Call
  <2>3. \A c, a, n : /\ table!MemUnmap(c, a, n) => TP!MemUnmap(c, a, n)
                     /\ table!MapFree(c, a, n) => TP!MapFree(c, a, n)
    BY <2>2 DEF table!MemUnmap, TP!MemUnmap, table!MapFree, TP!MapFree,
       table!Align, TP!Align
  <2>4. \A c, n : table!MapAllocTakes(c, n) => TP!MapAllocTakes(c, n)
    BY DEF table!MapAllocTakes, TP!MapAllocTakes, table!Begin, TP!Begin,
       table!Apart, TP!Apart, table!Idle, TP!Idle, table!Align, TP!Align,
       table!Bytes, TP!Bytes, table!Of, TP!Of, table!Call, TP!Call
  <2>5. \A c : table!MapAllocMaps(c) => TP!MapAllocMaps(c)
    BY DEF table!MapAllocMaps, TP!MapAllocMaps, table!Maps, TP!Maps,
       table!Idle, TP!Idle, table!Bytes, TP!Bytes, table!Of, TP!Of
  <2>6. \A c : /\ table!MapStore(c) => TP!MapStore(c)
               /\ table!MapDelete(c) => TP!MapDelete(c)
    BY SameDeleted DEF table!MapStore, TP!MapStore, table!MapDelete, TP!MapDelete,
       table!Put, TP!Put, table!Idle, TP!Idle
  <2>7. table!Dtor => TP!Dtor
    BY DEF table!Dtor, TP!Dtor, table!Idle, TP!Idle, table!CanUnmap, TP!CanUnmap,
       table!Bytes, TP!Bytes
  <2>8. QED
    BY <2>1, <2>3, <2>4, <2>5, <2>6, <2>7 DEF table!Next, TP!Next
<1>3. TP!vars = tableVars
  BY DEF TP!vars, tableVars
<1>4. TP!TypeOK /\ TP!TableAgrees => table!TypeOK /\ table!TableAgrees
  BY DEF table!TypeOK, TP!TypeOK, table!TableAgrees, TP!TableAgrees,
     table!BytesOf, TP!BytesOf, table!InStep, TP!InStep, table!Bytes, TP!Bytes,
     table!Of, TP!Of
<1>5. QED
  BY <1>1, <1>2, <1>3, <1>4

(* mm.maps covers what the emulator has mapped, but for the calls between   *)
(* the two (TypeOK and TableAgrees of MapTable).                            *)
THEOREM PartsTable == PartsSpec => []TableAgrees
<1> DEFINE Inv == part = "table" => TP!IInv
<1>1. PartsInit => Inv
  BY TableSteps, TableConstantsHold, TP!TableInit DEF PartsInit, Begin
<1>2. Inv /\ [PartsNext]_partsVars => Inv'
  <2>1. SUFFICES ASSUME Inv, [PartsNext]_partsVars, part' = "table" PROVE TP!IInv'
    OBVIOUS
  <2>2. part = "table" /\ TP!IInv
    BY <2>1 DEF PartsNext, partsVars
  <2>3. table!Next \/ UNCHANGED tableVars
    BY <2>1, <2>2 DEF PartsNext, partsVars
  <2>4. [TP!Next]_(TP!vars)
    BY <2>3, TableSteps DEF TP!vars, tableVars
  <2>5. QED
    BY <2>2, <2>4, TableConstantsHold, TP!TableNext
<1>3. Inv => TableAgrees
  BY TableSteps, TableConstantsHold, TP!Agrees DEF TableAgrees
<1>4. QED
  BY <1>1, <1>2, <1>3, PTL DEF PartsSpec

-----------------------------------------------------------------------------
(* Hooks and controls                                                       *)

HP == INSTANCE HookProofs WITH
  Tasks <- Goroutines, Done <- UserHooks,
  KindOf <- [h \in UserHooks |-> IF h \in IntrHooks THEN "intr" ELSE "mem"],
  Serial <- TRUE, MaxCloses <- 1, closes <- hookCloses

LEMMA HookConstantsHold == HP!HookConstants
BY PartsAssumption DEF HP!HookConstants, HP!Kinds, HP!Base, control!Base

LEMMA SameCardinality == \A S : HP!Cardinality(S) = control!Cardinality(S)
BY Zenon DEF HP!Cardinality, control!Cardinality

LEMMA HookSteps ==
  /\ control!Init => HP!Init
  /\ control!Next => HP!Next
  /\ HP!AddrsAccounted => control!AddrsAccounted
<1>1. control!Init => HP!Init
  BY DEF control!Init, HP!Init, control!NoTrap, HP!NoTrap
<1>2. control!Next => HP!Next
  <2>1. \A t : control!AddControl(t) => HP!AddControl(t)
    BY DEF control!AddControl, HP!AddControl, control!Move, HP!Move,
       control!Adding, HP!Adding
  <2>2. \A t : control!TakeAddr(t) => HP!TakeAddr(t)
    BY DEF control!TakeAddr, HP!TakeAddr, control!Move, HP!Move,
       control!Empty, HP!Empty
  <2>3. \A t : control!MapRegion(t) => HP!MapRegion(t)
    BY DEF control!MapRegion, HP!MapRegion, control!Move, HP!Move,
       control!Empty, HP!Empty, control!Base, HP!Base
  <2>4. \A t :
        control!ReadList(t) \/ control!WriteAddrs(t) \/ control!WriteRange(t) \/ control!StoreControl(t) =>
        HP!ReadList(t) \/ HP!WriteAddrs(t) \/ HP!WriteRange(t) \/ HP!StoreControl(t)
    BY DEF control!ReadList, HP!ReadList, control!WriteAddrs, HP!WriteAddrs,
       control!WriteRange, HP!WriteRange, control!StoreControl,
       HP!StoreControl, control!Move, HP!Move
  <2>5. \A t :
        control!CloseHook(t) \/ control!CloseAddr(t) \/ control!Cancel(t) =>
        HP!CloseHook(t) \/ HP!CloseAddr(t) \/ HP!Cancel(t)
    BY DEF control!CloseHook, HP!CloseHook, control!CloseAddr, HP!CloseAddr,
       control!Cancel, HP!Cancel, control!Move, HP!Move, control!CtrlAddrFree,
       HP!CtrlAddrFree, control!Room, HP!Room
  <2>6. \A t :
        control!ReturnToControl(t) \/ control!GuestEvent(t) =>
        HP!ReturnToControl(t) \/ HP!GuestEvent(t)
    BY DEF control!ReturnToControl, HP!ReturnToControl, control!GuestEvent,
       HP!GuestEvent, control!Raise, HP!Raise, control!Live, HP!Live,
       control!NoTrap, HP!NoTrap, control!OwnTrap, HP!OwnTrap, control!Kinds,
       HP!Kinds
  <2>7. \A t : control!Dispatch(t) => HP!Dispatch(t)
    BY DEF control!Dispatch, HP!Dispatch, control!NoTrap, HP!NoTrap,
       control!OwnTrap, HP!OwnTrap, control!Answers, HP!Answers,
       control!Valid, HP!Valid, control!IsControl, HP!IsControl, control!Base,
       HP!Base, control!ControlCalled, HP!ControlCalled
  <2>8. \A h :
        control!AddHook(h) \/ control!CloseUserHook(h) =>
        HP!AddHook(h) \/ HP!CloseUserHook(h)
    BY DEF control!AddHook, HP!AddHook, control!CloseUserHook,
       HP!CloseUserHook
  <2>9. QED
    BY <2>1, <2>2, <2>3, <2>4, <2>5, <2>6, <2>7, <2>8 DEF control!Next, HP!Next
<1>3. HP!AddrsAccounted => control!AddrsAccounted
  <2>1. \A t : HP!Holds(t) <=> control!Holds(t)
    BY DEF HP!Holds, control!Holds
  <2>2. ASSUME NEW a PROVE HP!Copies(a) = control!Copies(a)
    <3>1. {t \in Goroutines : HP!Holds(t) /\ addr[t] = a} =
            {t \in Goroutines : control!Holds(t) /\ addr[t] = a}
      BY <2>1
    <3>2. QED
      BY <3>1, SameCardinality DEF HP!Copies, control!Copies
  <2>3. \A r : HP!Slots(r) = control!Slots(r)
    BY DEF control!Slots, HP!Slots, control!Base, HP!Base
  <2>4. QED
    BY <2>2, <2>3 DEF control!AddrsAccounted, HP!AddrsAccounted
<1>4. QED
  BY <1>1, <1>2, <1>3

LEMMA HookStep ==
  ASSUME part = "control" => HP!IInv, [PartsNext]_partsVars
  PROVE  (part = "control" => HP!IInv)'
<1>1. SUFFICES ASSUME part' = "control" PROVE HP!IInv'
  OBVIOUS
<1>2. part = "control" /\ HP!IInv
  BY <1>1 DEF PartsNext, partsVars
<1>3. control!Next \/ UNCHANGED hookVars
  BY <1>2 DEF PartsNext, partsVars
<1>4. [HP!Next]_(HP!vars)
  BY <1>3, HookSteps DEF HP!vars, hookVars
<1>5. QED
  BY <1>2, <1>4, HookConstantsHold, HP!NextInv

(* Every trap address is in one channel or with one control                 *)
(* (AddrsAccounted of HookControl).                                         *)
THEOREM PartsAddrs == PartsSpec => []AddrsAccounted
<1>1. PartsInit => (part = "control" => HP!IInv)
  BY HookSteps, HookConstantsHold, HP!InitInv DEF PartsInit, Begin
<1>2. (part = "control" => HP!IInv) => AddrsAccounted
  BY HookSteps, HookConstantsHold, HP!OnePlace DEF AddrsAccounted
<1>3. QED
  BY <1>1, <1>2, HookStep, PTL DEF PartsSpec

(* Steps of another part leave the hooks alone.                             *)
LEMMA HookMoves ==
  ASSUME part = "control" => HP!IInv, [PartsNext]_partsVars
  PROVE  (HP!IInv /\ [HP!Next]_(HP!vars)) \/ UNCHANGED control!vars
<1>1. CASE UNCHANGED hookVars
  BY <1>1 DEF hookVars, control!vars
<1>2. CASE part = "control" /\ control!Next
  BY <1>2, HookSteps
<1>3. QED
  BY <1>1, <1>2 DEF PartsNext, partsVars

(* A task whose guest returns to its open control ends as done, and by      *)
(* nothing else (ReturnEndsTask and EndedByOwnReturn of HookControl).       *)
THEOREM PartsDoneByReturn == PartsSpec => DoneByReturn
<1> DEFINE Ends == \A t \in Goroutines :
             trap[t] = control!OwnTrap(t) /\ trap'[t] = control!NoTrap /\ at[t] = "open" =>
               result'[t] = "done"
           Own == \A t \in Goroutines :
             result'[t] = "done" /\ result[t] # "done" => trap[t] = control!OwnTrap(t)
<1>1. PartsInit => (part = "control" => HP!IInv)
  BY HookSteps, HookConstantsHold, HP!InitInv DEF PartsInit, Begin
<1>2. HP!IInv /\ [HP!Next]_(HP!vars) => Ends /\ Own
  <2>1. control!NoTrap = HP!NoTrap /\ \A t : control!OwnTrap(t) = HP!OwnTrap(t)
    BY DEF control!NoTrap, HP!NoTrap, control!OwnTrap, HP!OwnTrap
  <2>2. SUFFICES ASSUME HP!IInv, [HP!Next]_(HP!vars) PROVE Ends /\ Own
    OBVIOUS
  <2>3. Ends
    BY <2>1, <2>2, HookConstantsHold, HP!ReturnStep
  <2>4. Own
    BY <2>1, <2>2, HookConstantsHold, HP!DoneStep
  <2>5. QED
    BY <2>3, <2>4
<1>3. (part = "control" => HP!IInv) /\ [PartsNext]_partsVars => [Ends /\ Own]_control!vars
  BY <1>2, HookMoves
<1>4. QED
  BY <1>1, <1>3, HookStep, PTL
     DEF PartsSpec, DoneByReturn, control!ReturnEndsTask, control!EndedByOwnReturn

(* Events of guest code reach the hooks of the user (GuestServed of         *)
(* HookControl).                                                            *)
THEOREM PartsGuestServed == PartsSpec => GuestServed
<1> DEFINE Kind == [h \in UserHooks |-> IF h \in IntrHooks THEN "intr" ELSE "mem"]
           Served == \A t \in Goroutines, h \in UserHooks :
             /\ trap[t] # control!NoTrap /\ trap'[t] = control!NoTrap
             /\ trap[t].pc - 1 \in GuestCode
             /\ h \in hooks /\ Kind[h] = trap[t].kind
             => result'[t] # "exception" \/ result[t] = "exception"
<1>1. PartsInit => (part = "control" => HP!IInv)
  BY HookSteps, HookConstantsHold, HP!InitInv DEF PartsInit, Begin
<1>2. HP!IInv /\ [HP!Next]_(HP!vars) => Served
  <2>1. control!NoTrap = HP!NoTrap
    BY DEF control!NoTrap, HP!NoTrap
  <2>2. QED
    BY <2>1, HookConstantsHold, HP!ServedStep
<1>3. (part = "control" => HP!IInv) /\ [PartsNext]_partsVars => [Served]_control!vars
  BY <1>2, HookMoves
<1>4. QED
  BY <1>1, <1>3, HookStep, PTL DEF PartsSpec, GuestServed, control!GuestServed

-----------------------------------------------------------------------------
(* The virtual file system                                                  *)

VP == INSTANCE VirtualFilesProofs WITH
  Clients <- Goroutines, Nodes <- Things \cup {Root} \cup Others,
  Roots <- {Root} \cup Others, None <- NoNode,
  Serial <- TRUE, Alias <- FALSE, DirHandles <- FALSE

AP == INSTANCE VirtualFilesProofs WITH
  Clients <- FewClients, Nodes <- {Root} \cup FewNodes, Roots <- {Root}, None <- NoNode,
  Paths <- FewPaths, Octets <- {0}, MaxData <- 1,
  Serial <- FALSE, Alias <- TRUE, DirHandles <- TRUE

LEMMA VirtualConstantsHold == VP!VirtualConstants /\ AP!VirtualConstants
BY PartsAssumption DEF VP!VirtualConstants, AP!VirtualConstants

LEMMA VirtualReads ==
  /\ virtual!Free = VP!Free
  /\ \A n : virtual!Resolve(n) = VP!Resolve(n)
  /\ \A path : virtual!Walk(path) = VP!Walk(path)
  /\ \A f : virtual!Unread(f) = VP!Unread(f)
<1>1. virtual!Free = VP!Free
  BY DEF virtual!Free, VP!Free
<1>2. \A n : virtual!Resolve(n) = VP!Resolve(n)
  BY DEF virtual!Resolve, VP!Resolve
<1>3. \A path : virtual!Walk(path) = VP!Walk(path)
  BY DEF virtual!Walk, VP!Walk, virtual!Load, VP!Load, virtual!Resolve, VP!Resolve
<1>4. \A f : virtual!Unread(f) = VP!Unread(f)
  BY DEF virtual!Unread, VP!Unread, virtual!Entries, VP!Entries
<1>5. QED
  BY <1>1, <1>2, <1>3, <1>4

LEMMA AliasedReads ==
  /\ aliased!Free = AP!Free
  /\ \A n : aliased!Resolve(n) = AP!Resolve(n)
  /\ \A path : aliased!Walk(path) = AP!Walk(path)
  /\ \A f : aliased!Unread(f) = AP!Unread(f)
<1>1. aliased!Free = AP!Free
  BY DEF aliased!Free, AP!Free
<1>2. \A n : aliased!Resolve(n) = AP!Resolve(n)
  BY DEF aliased!Resolve, AP!Resolve
<1>3. \A path : aliased!Walk(path) = AP!Walk(path)
  BY DEF aliased!Walk, AP!Walk, aliased!Load, AP!Load, aliased!Resolve, AP!Resolve
<1>4. \A f : aliased!Unread(f) = AP!Unread(f)
  BY DEF aliased!Unread, AP!Unread, aliased!Entries, AP!Entries
<1>5. QED
  BY <1>1, <1>2, <1>3, <1>4

(* The steps are those of VirtualFilesProofs.                               *)
LEMMA VirtualSteps == virtual!Next => VP!Next
<1>1. \A c, path : virtual!MkdirBegin(c, path) => VP!MkdirBegin(c, path)
  BY DEF virtual!MkdirBegin, VP!MkdirBegin, virtual!MayBegin, VP!MayBegin, virtual!Enter,
     VP!Enter, virtual!Idle, VP!Idle
<1>2. \A c, path, n : virtual!LinkBegin(c, path, n) => VP!LinkBegin(c, path, n)
  BY VirtualReads DEF virtual!LinkBegin, VP!LinkBegin, virtual!MayBegin, VP!MayBegin,
     virtual!Enter, VP!Enter, virtual!Idle, VP!Idle
<1>3. \A c, path, n : virtual!LinkEntry(c, path, n) => VP!LinkEntry(c, path, n)
  BY DEF virtual!LinkEntry, VP!LinkEntry, virtual!MayBegin, VP!MayBegin, virtual!Enter,
     VP!Enter, virtual!Idle, VP!Idle
<1>4. \A c : virtual!MkdirLoad(c) => VP!MkdirLoad(c)
  BY DEF virtual!MkdirLoad, VP!MkdirLoad, virtual!Load, VP!Load, virtual!Resolve,
     VP!Resolve, virtual!Name, VP!Name, virtual!Depth, VP!Depth, virtual!Enter, VP!Enter
<1>5. \A c : virtual!MkdirStore(c) => VP!MkdirStore(c)
  BY VirtualReads DEF virtual!MkdirStore, VP!MkdirStore, virtual!Name, VP!Name,
     virtual!Enter, VP!Enter
<1>6. \A c : virtual!MkdirReturns(c) => VP!MkdirReturns(c)
  BY DEF virtual!MkdirReturns, VP!MkdirReturns, virtual!Depth, VP!Depth, virtual!Enter,
     VP!Enter
<1>7. \A c : virtual!LinkStore(c) => VP!LinkStore(c)
  BY VirtualReads DEF virtual!LinkStore, VP!LinkStore, virtual!Name, VP!Name,
     virtual!Depth, VP!Depth, virtual!Enter, VP!Enter
<1>8. \A h, path : virtual!OpenDir(h, path) => VP!OpenDir(h, path)
  BY VirtualReads DEF virtual!OpenDir, VP!OpenDir, virtual!Sub, VP!Sub, virtual!Hold,
     VP!Hold, virtual!Unused, VP!Unused
<1>9. \A h, path, access : virtual!Create(h, path, access) => VP!Create(h, path, access)
  BY VirtualReads DEF virtual!Create, VP!Create, virtual!Hold, VP!Hold, virtual!Unused,
     VP!Unused
<1>10. \A h, off : virtual!Seek(h, off) => VP!Seek(h, off)
  BY DEF virtual!Seek, VP!Seek, virtual!Hold, VP!Hold
<1>11. \A h, n : virtual!Read(h, n) => VP!Read(h, n)
  BY DEF virtual!Read, VP!Read, virtual!Hold, VP!Hold
<1>12. \A h, b : virtual!Write(h, b) => VP!Write(h, b)
  BY DEF virtual!Write, VP!Write, virtual!Hold, VP!Hold
<1>13. \A h : virtual!ReadDir(h) => VP!ReadDir(h)
  BY VirtualReads DEF virtual!ReadDir, VP!ReadDir, virtual!Hold, VP!Hold
<1>14. \A h, x : virtual!HandleMkdir(h, x) => VP!HandleMkdir(h, x)
  BY VirtualReads DEF virtual!HandleMkdir, VP!HandleMkdir
<1>15. QED
  BY <1>1, <1>2, <1>3, <1>4, <1>5, <1>6, <1>7, <1>8, <1>9, <1>10, <1>11, <1>12, <1>13,
     <1>14 DEF virtual!Next, VP!Next

LEMMA AliasedSteps == aliased!Next => AP!Next
<1>1. \A c, path : aliased!MkdirBegin(c, path) => AP!MkdirBegin(c, path)
  BY DEF aliased!MkdirBegin, AP!MkdirBegin, aliased!MayBegin, AP!MayBegin, aliased!Enter,
     AP!Enter, aliased!Idle, AP!Idle
<1>2. \A c, path, n : aliased!LinkBegin(c, path, n) => AP!LinkBegin(c, path, n)
  BY AliasedReads DEF aliased!LinkBegin, AP!LinkBegin, aliased!MayBegin, AP!MayBegin,
     aliased!Enter, AP!Enter, aliased!Idle, AP!Idle
<1>3. \A c, path, n : aliased!LinkEntry(c, path, n) => AP!LinkEntry(c, path, n)
  BY DEF aliased!LinkEntry, AP!LinkEntry, aliased!MayBegin, AP!MayBegin, aliased!Enter,
     AP!Enter, aliased!Idle, AP!Idle
<1>4. \A c : aliased!MkdirLoad(c) => AP!MkdirLoad(c)
  BY DEF aliased!MkdirLoad, AP!MkdirLoad, aliased!Load, AP!Load, aliased!Resolve,
     AP!Resolve, aliased!Name, AP!Name, aliased!Depth, AP!Depth, aliased!Enter, AP!Enter
<1>5. \A c : aliased!MkdirStore(c) => AP!MkdirStore(c)
  BY AliasedReads DEF aliased!MkdirStore, AP!MkdirStore, aliased!Name, AP!Name,
     aliased!Enter, AP!Enter
<1>6. \A c : aliased!MkdirReturns(c) => AP!MkdirReturns(c)
  BY DEF aliased!MkdirReturns, AP!MkdirReturns, aliased!Depth, AP!Depth, aliased!Enter,
     AP!Enter
<1>7. \A c : aliased!LinkStore(c) => AP!LinkStore(c)
  BY AliasedReads DEF aliased!LinkStore, AP!LinkStore, aliased!Name, AP!Name,
     aliased!Depth, AP!Depth, aliased!Enter, AP!Enter
<1>8. \A h, path : aliased!OpenDir(h, path) => AP!OpenDir(h, path)
  BY AliasedReads DEF aliased!OpenDir, AP!OpenDir, aliased!Sub, AP!Sub, aliased!Hold,
     AP!Hold, aliased!Unused, AP!Unused
<1>9. \A h, path, access : aliased!Create(h, path, access) => AP!Create(h, path, access)
  BY AliasedReads DEF aliased!Create, AP!Create, aliased!Hold, AP!Hold, aliased!Unused,
     AP!Unused
<1>10. \A h, off : aliased!Seek(h, off) => AP!Seek(h, off)
  BY DEF aliased!Seek, AP!Seek, aliased!Hold, AP!Hold
<1>11. \A h, n : aliased!Read(h, n) => AP!Read(h, n)
  BY DEF aliased!Read, AP!Read, aliased!Hold, AP!Hold
<1>12. \A h, b : aliased!Write(h, b) => AP!Write(h, b)
  BY DEF aliased!Write, AP!Write, aliased!Hold, AP!Hold
<1>13. \A h : aliased!ReadDir(h) => AP!ReadDir(h)
  BY AliasedReads DEF aliased!ReadDir, AP!ReadDir, aliased!Hold, AP!Hold
<1>14. \A h, x : aliased!HandleMkdir(h, x) => AP!HandleMkdir(h, x)
  BY AliasedReads DEF aliased!HandleMkdir, AP!HandleMkdir
<1>15. QED
  BY <1>1, <1>2, <1>3, <1>4, <1>5, <1>6, <1>7, <1>8, <1>9, <1>10, <1>11, <1>12, <1>13,
     <1>14 DEF aliased!Next, AP!Next

LEMMA VirtualSame ==
  /\ virtual!Init => VP!Init
  /\ VP!TypeOK => virtual!TypeOK
  /\ VP!Found => virtual!Found
  /\ VP!KeepsEntries => virtual!KeepsEntries
  /\ VP!KeepsRest => virtual!KeepsRest
  /\ VP!ListsEntries => virtual!ListsEntries
<1>1. virtual!Init => VP!Init
  BY DEF virtual!Init, VP!Init, virtual!Idle, VP!Idle, virtual!Unused, VP!Unused
<1>2. VP!TypeOK => virtual!TypeOK
  BY DEF virtual!TypeOK, VP!TypeOK, virtual!Entries, VP!Entries
<1>3. VP!Found => virtual!Found
  BY VirtualReads DEF virtual!Found, VP!Found, virtual!Sub, VP!Sub
<1>4. VP!KeepsEntries => virtual!KeepsEntries
  BY DEF virtual!KeepsEntries, VP!KeepsEntries
<1>5. VP!KeepsRest => virtual!KeepsRest
  BY DEF virtual!KeepsRest, VP!KeepsRest
<1>6. VP!ListsEntries => virtual!ListsEntries
  BY DEF virtual!ListsEntries, VP!ListsEntries, virtual!Entries, VP!Entries
<1>7. QED
  BY <1>1, <1>2, <1>3, <1>4, <1>5, <1>6

LEMMA AliasedSame ==
  /\ aliased!Init => AP!Init
  /\ AP!TypeOK => aliased!TypeOK
<1>1. aliased!Init => AP!Init
  BY DEF aliased!Init, AP!Init, aliased!Idle, AP!Idle, aliased!Unused, AP!Unused
<1>2. AP!TypeOK => aliased!TypeOK
  BY DEF aliased!TypeOK, AP!TypeOK, aliased!Entries, AP!Entries
<1>3. QED
  BY <1>1, <1>2

VirtualInv ==
  /\ part = "virtual" => VP!Typed /\ VP!AlongPaths /\ VP!AllListed
  /\ part = "aliased" => AP!Typed

(* What a step is to the virtual file system.                               *)
LEMMA VirtualMoves ==
  ASSUME [PartsNext]_partsVars
  PROVE  /\ part' = part
         /\ part = "virtual" => [VP!Next]_(VP!vars)
         /\ part = "aliased" => [AP!Next]_(AP!vars)
         /\ part \notin {"virtual", "aliased"} => UNCHANGED virtualVars
<1>1. part' = part
  BY DEF PartsNext, partsVars
<1>2. part = "virtual" => virtual!Next \/ UNCHANGED virtualVars
  BY DEF PartsNext, partsVars
<1>3. part = "aliased" => aliased!Next \/ UNCHANGED virtualVars
  BY DEF PartsNext, partsVars
<1>4. part \notin {"virtual", "aliased"} => UNCHANGED virtualVars
  BY DEF PartsNext, partsVars
<1>5. UNCHANGED virtualVars => UNCHANGED VP!vars /\ UNCHANGED AP!vars
  BY DEF virtualVars, VP!vars, AP!vars
<1>6. QED
  BY <1>1, <1>2, <1>3, <1>4, <1>5, VirtualSteps, AliasedSteps

LEMMA VirtualInvInit == PartsInit => VirtualInv
<1>1. PartsInit /\ part = "virtual" => VP!Init
  BY VirtualSame DEF PartsInit, Begin
<1>2. PartsInit /\ part = "aliased" => AP!Init
  BY AliasedSame DEF PartsInit, Begin
<1>3. VP!Init => VP!Typed /\ VP!AlongPaths /\ VP!AllListed
  BY VirtualConstantsHold, VP!InitTyped, VP!InitAlong, VP!InitListed
<1>4. AP!Init => AP!Typed
  BY VirtualConstantsHold, AP!InitTyped
<1>5. QED
  BY <1>1, <1>2, <1>3, <1>4 DEF VirtualInv

LEMMA VirtualInvStays ==
  ASSUME VirtualInv, [PartsNext]_partsVars
  PROVE  VirtualInv'
<1>1. CASE part = "virtual"
  <2>1. VP!Typed /\ VP!AlongPaths /\ VP!AllListed /\ [VP!Next]_(VP!vars)
    BY <1>1, VirtualMoves DEF VirtualInv
  <2>2. VP!Typed' /\ VP!AlongPaths' /\ VP!AllListed'
    BY <2>1, VirtualConstantsHold, VP!TypedStays, VP!AlongStays, VP!ListedStays
  <2>3. part' = "virtual"
    BY <1>1, VirtualMoves
  <2>4. QED
    BY <2>2, <2>3 DEF VirtualInv
<1>2. CASE part = "aliased"
  <2>1. AP!Typed /\ [AP!Next]_(AP!vars)
    BY <1>2, VirtualMoves DEF VirtualInv
  <2>2. AP!Typed'
    BY <2>1, VirtualConstantsHold, AP!TypedStays
  <2>3. part' = "aliased"
    BY <1>2, VirtualMoves
  <2>4. QED
    BY <2>2, <2>3 DEF VirtualInv
<1>3. CASE part \notin {"virtual", "aliased"}
  BY <1>3, VirtualMoves DEF VirtualInv
<1>4. QED
  BY <1>1, <1>2, <1>3

(* What Mkdir made and Link linked is found under its path, whatever links  *)
(* there are, while one client at a time is at it; and only directories     *)
(* have entries and no Read or Write slices beyond the end of a file,       *)
(* whoever uses the file system how (dirFS.Mkdir, dirFS.Link, file.Read).   *)
THEOREM PartsFound == PartsSpec => []Found
<1>1. VirtualInv => Found
  <2>1. VP!Typed /\ VP!AlongPaths => VP!TypeOK /\ VP!Found
    BY VP!TypedIsOK DEF VP!AlongPaths
  <2>2. AP!Typed => AP!TypeOK
    BY AP!TypedIsOK
  <2>3. QED
    BY <2>1, <2>2, VirtualSame, AliasedSame DEF VirtualInv, Found
<1>2. QED
  BY <1>1, VirtualInvInit, VirtualInvStays, PTL DEF PartsSpec

(* No Mkdir, Link or OpenFile replaces an entry of a directory, while one   *)
(* client at a time is at it.                                               *)
THEOREM PartsEntriesKept == PartsSpec => EntriesKept
<1>1. ASSUME VirtualInv, [PartsNext]_partsVars
      PROVE  [part = "virtual" => virtual!KeepsEntries]_virtualVars
  <2>1. SUFFICES ASSUME part = "virtual", ~ UNCHANGED virtualVars PROVE virtual!KeepsEntries
    OBVIOUS
  <2>2. VP!Typed /\ VP!AlongPaths /\ [VP!Next]_(VP!vars)
    BY <1>1, <2>1, VirtualMoves DEF VirtualInv
  <2>3. VP!Next
    BY <2>1, <2>2 DEF VP!vars, virtualVars
  <2>4. VP!KeepsEntries
    BY <2>2, <2>3, VirtualConstantsHold, VP!NextAlong
  <2>5. QED
    BY <2>4, VirtualSame
<1>2. QED
  BY <1>1, VirtualInvInit, VirtualInvStays, PTL DEF PartsSpec, EntriesKept

(* Write keeps the bytes before its offset and behind what it writes        *)
(* (file.Write), whoever uses the file system how.                          *)
THEOREM PartsWriteKeepsRest == PartsSpec => WriteKeepsRest
<1>1. ASSUME VirtualInv, [PartsNext]_partsVars
      PROVE  [virtual!KeepsRest]_virtualVars
  <2>1. SUFFICES ASSUME ~ UNCHANGED virtualVars PROVE virtual!KeepsRest
    OBVIOUS
  <2>2. CASE part = "virtual"
    <3>1. VP!Typed /\ [VP!Next]_(VP!vars)
      BY <1>1, <2>2, VirtualMoves DEF VirtualInv
    <3>2. VP!Next
      BY <2>1, <3>1 DEF VP!vars, virtualVars
    <3>3. VP!KeepsRest
      BY <3>1, <3>2, VP!NextKeepsRest
    <3>4. QED
      BY <3>3, VirtualSame
  <2>3. CASE part = "aliased"
    <3>1. AP!Typed /\ [AP!Next]_(AP!vars)
      BY <1>1, <2>3, VirtualMoves DEF VirtualInv
    <3>2. AP!Next
      BY <2>1, <3>1 DEF AP!vars, virtualVars
    <3>3. AP!KeepsRest
      BY <3>1, <3>2, AP!NextKeepsRest
    <3>4. QED
      BY <3>3 DEF AP!KeepsRest, virtual!KeepsRest
  <2>4. QED
    BY <1>1, <2>1, <2>2, <2>3, VirtualMoves
<1>2. QED
  BY <1>1, VirtualInvInit, VirtualInvStays, PTL DEF PartsSpec, WriteKeepsRest

(* ReadDir returns every entry in the end, each of them once (dir.ReadDir), *)
(* while one client at a time is at it and no file system has two names.    *)
THEOREM PartsListsAll == PartsSpec => ListsAll
<1>1. ASSUME VirtualInv, [PartsNext]_partsVars
      PROVE  [part = "virtual" => virtual!ListsEntries]_virtualVars
  <2>1. SUFFICES ASSUME part = "virtual", ~ UNCHANGED virtualVars PROVE virtual!ListsEntries
    OBVIOUS
  <2>2. VP!Typed /\ VP!AlongPaths /\ VP!AllListed /\ [VP!Next]_(VP!vars)
    BY <1>1, <2>1, VirtualMoves DEF VirtualInv
  <2>3. VP!Next
    BY <2>1, <2>2 DEF VP!vars, virtualVars
  <2>4. VP!ListsEntries
    BY <2>2, <2>3, VirtualConstantsHold, VP!NextListed
  <2>5. QED
    BY <2>4, VirtualSame
<1>2. QED
  BY <1>1, VirtualInvInit, VirtualInvStays, PTL DEF PartsSpec, ListsAll
=============================================================================
