------------------------------- MODULE Sockets -------------------------------
(***************************************************************************)
(* The guest's sockets (socket/socket.go).  Listen and Connect look at the *)
(* fields, call the host, which takes long and may fail, and assign what   *)
(* they got; nothing locks a socket.  What a socket opens is a handle.     *)
(***************************************************************************)
EXTENDS Integers

CONSTANTS
  Sockets,    (* sockets of the guest; one of them is created by New       *)
  First,      (* that one; the others come from Accept                     *)
  Callers,    (* goroutines                                                *)
  Parallel,   (* whether calls overlap on one socket (Accept always may)   *)
  MaxOpen     (* bound: how many handles are opened                        *)

VARIABLES
  made,       (* the sockets there are                                     *)
  a,          (* the sockets that have an address                          *)
  l,          (* the listener of every socket, 0 for nil                   *)
  c,          (* its connection                                            *)
  opened,     (* how many handles the host has given out                   *)
  open,       (* those that are open                                       *)
  call        (* the call every goroutine is in, and the handle it got     *)

vars == <<made, a, l, c, opened, open, call>>

Idle == [step |-> "idle", on |-> First, handle |-> 0]

Init ==
  /\ made = {First}
  /\ a = {}
  /\ l = [s \in Sockets |-> 0] /\ c = [s \in Sockets |-> 0]
  /\ opened = 0 /\ open = {}
  /\ call = [k \in Callers |-> Idle]

(* A call that waits in Accept has no say in the fields *)
Free(s) ==
  Parallel \/ \A k \in Callers : call[k].on = s => call[k].step \in {"idle", "accept"}

Enter(k, s, step) ==
  /\ call[k] = Idle /\ s \in made /\ Free(s)
  /\ call' = [call EXCEPT ![k] = [step |-> step, on |-> s, handle |-> 0]]
  /\ UNCHANGED <<made, a, l, c, opened, open>>

(* The host (external) gives a new handle, or fails and gives nil; it gives *)
(* no second listener at an address                                         *)
Opens(k, from, to) ==
  /\ call[k].step = from
  /\ \/ /\ opened < MaxOpen /\ l[call[k].on] \notin open
        /\ opened' = opened + 1
        /\ open' = open \cup {opened'}
        /\ call' = [call EXCEPT ![k] = [step |-> to, on |-> call[k].on, handle |-> opened']]
     \/ /\ call' = [call EXCEPT ![k].step = to]
        /\ UNCHANGED <<opened, open>>

-----------------------------------------------------------------------------
Bind(s) ==
  /\ s \in made /\ Free(s)
  /\ s \notin a /\ c[s] = 0
  /\ a' = a \cup {s}
  /\ UNCHANGED <<made, l, c, opened, open, call>>

(* Changed: a listener does not stop another Listen *)
CanListenAgain(s) == s \in a /\ c[s] = 0

CanListen(s) == s \in a /\ l[s] = 0 /\ c[s] = 0

CanConnect(s) == s \notin a /\ l[s] = 0 /\ c[s] = 0

CanAccept(s) == l[s] # 0 /\ c[s] = 0

Listen(k, s) == CanListen(s) /\ Enter(k, s, "listen")
Connect(k, s) == CanConnect(s) /\ Enter(k, s, "connect")
Accept(k, s) == CanAccept(s) /\ Enter(k, s, "accept")

Dials(k) ==
  /\ \/ Opens(k, "listen", "listening")
     \/ Opens(k, "connect", "connected")
  /\ UNCHANGED <<made, a, l, c>>

(* A call that failed assigns nil *)
ListenReturns(k) ==
  /\ call[k].step = "listening"
  /\ l' = [l EXCEPT ![call[k].on] = call[k].handle]
  /\ call' = [call EXCEPT ![k] = Idle]
  /\ UNCHANGED <<made, a, c, opened, open>>

ConnectReturns(k) ==
  /\ call[k].step = "connected"
  /\ c' = [c EXCEPT ![call[k].on] = call[k].handle]
  /\ call' = [call EXCEPT ![k] = Idle]
  /\ UNCHANGED <<made, a, l, opened, open>>

(* Accept waits for a connection of the listener, and fails once that is    *)
(* closed                                                                   *)
AcceptReturns(k, u) ==
  /\ call[k].step = "accept"
  /\ l[call[k].on] \in open /\ u \notin made /\ opened < MaxOpen
  /\ opened' = opened + 1
  /\ open' = open \cup {opened'}
  /\ made' = made \cup {u}
  /\ c' = [c EXCEPT ![u] = opened']
  /\ call' = [call EXCEPT ![k] = Idle]
  /\ UNCHANGED <<a, l>>

AcceptFails(k) ==
  /\ call[k].step = "accept"
  /\ l[call[k].on] \notin open
  /\ call' = [call EXCEPT ![k] = Idle]
  /\ UNCHANGED <<made, a, l, c, opened, open>>

(* What Close of s closes *)
Shuts(s) == IF l[s] # 0 THEN l[s] ELSE c[s]

(* Close leaves the fields as they are.  It may come while Accept waits.    *)
Close(s) ==
  /\ s \in made
  /\ Free(s)
  /\ open' = open \ {Shuts(s)}
  /\ UNCHANGED <<made, a, l, c, opened, call>>

-----------------------------------------------------------------------------
Next ==
  \/ \E s \in Sockets : Bind(s) \/ Close(s)
  \/ \E k \in Callers :
       \/ \E s \in Sockets :
            Listen(k, s) \/ Connect(k, s) \/ Accept(k, s) \/ AcceptReturns(k, s)
       \/ Dials(k) \/ ListenReturns(k) \/ ConnectReturns(k) \/ AcceptFails(k)

Spec == Init /\ [][Next]_vars

-----------------------------------------------------------------------------
(* Properties *)

(* A socket is a server or a client and never both, whatever calls fail or  *)
(* come after Close: a bound one has no connection, a connected one no      *)
(* listener.                                                                *)
OneRole ==
  \A s \in made : c[s] # 0 => s \notin a /\ l[s] = 0

(* Whatever listener or connection is open is in the hands of a call, or    *)
(* Close of some socket closes it: nothing the guest opened is out of its   *)
(* reach.                                                                   *)
Reachable ==
  \A h \in open :
    \/ \E k \in Callers : call[k].handle = h
    \/ \E s \in made : Shuts(s) = h
=============================================================================
