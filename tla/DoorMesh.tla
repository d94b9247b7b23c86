------------------------------ MODULE DoorMesh ------------------------------
(***************************************************************************)
(* The door mesh (src/socket_bootstrap.js; _wireDoorMesh, _bindPolicy,     *)
(* _onRouteToDoor, deliverDoorSignal of src/bridge_axona_node.js; rule 4   *)
(* of src/server.js).  With BRIDGE_SOCKET_IS_BOOTSTRAP a client negotiates *)
(* a WebRTC channel with the bridge over its own socket, under a door key  *)
(* that carries its connection id.  A bind that would admit a new identity *)
(* passes the bind policy, which may retire one incumbent to make room;    *)
(* when a client's channel has bound and its mesh is large enough the      *)
(* bridge releases its socket.                                             *)
(*                                                                         *)
(* The kernel's mesh and its composite of transports are external: they    *)
(* are modelled by the surfaces the bridge calls and the notices it gets.  *)
(* Every connection is taken as admitted at the door when it connects.     *)
(***************************************************************************)
EXTENDS Integers, Sequences, FiniteSets

CONSTANTS Conn,      \* connections, which are the door keys of this epoch
          Far,       \* channel keys of peers met through the upstream
          Node,      \* identities
          NoNode, NoRoute, Socket,
          Cap,       \* the mesh cap (_arming.meshCap)
          PerMin,    \* BRIDGE_MAKE_ROOM_PER_MIN
          Window,    \* the budget's window, 60 s
          Cooldown,  \* BRIDGE_SOCKET_BOOTSTRAP_COOLDOWN_MS
          MaxInc,    \* bound on the incarnations of a door key
          MaxTime    \* bound on the clock

ASSUME DoorMeshAssumption ==
    /\ Conn \cap Far = {}
    /\ NoNode \notin Node
    /\ {NoRoute, Socket} \cap (Conn \cup Far) = {}
    /\ NoRoute # Socket
    /\ {Cap, PerMin, Window, Cooldown} \subseteq Nat \ {0}
    /\ MaxInc \in Nat \ {0}
    /\ MaxTime \in Nat

Key == Conn \cup Far

VARIABLES now,      \* Date.now()
          sock,     \* the client's socket at the door
          said,     \* connections whose hello over the socket is complete
          sockOf,   \* the one connection an identity is bound to at the door
          chan,     \* the channel under a key
          inc,      \* the incarnation of the channel (mesh.incFor)
          who,      \* the identity bound to the channel (nodeIdFor)
          route,    \* the composite's admitted route of an identity
          marked,   \* _doorChannelBound
          doomed,   \* deferred closes of refused channels, not run yet
          ts,       \* SlidingBudget._ts
          idAt,     \* RecentlyRetired._ids, 0 for no entry
          connAt,   \* RecentlyRetired._conns, 0 for no entry
          spends    \* history: when each incumbent was retired

doorVars == <<sock, said, sockOf>>
chanVars == <<chan, inc, who>>
policyVars == <<ts, idAt, connAt, spends>>
vars == <<now, doorVars, chanVars, route, marked, doomed, policyVars>>

AtDoor == {c \in Conn : sock[c] \in {"open", "closing"}}

Init == /\ now = 1
        /\ sock = [c \in Conn |-> "idle"]
        /\ said = {}
        /\ sockOf = [n \in Node |-> {}]
        /\ chan = [k \in Key |-> "none"]
        /\ inc = [k \in Key |-> 0]
        /\ who = [k \in Key |-> NoNode]
        /\ route = [n \in Node |-> NoRoute]
        /\ marked = {}
        /\ doomed = {}
        /\ ts = <<>>
        /\ idAt = [n \in Node |-> 0]
        /\ connAt = [c \in Conn |-> 0]
        /\ spends = <<>>

-----------------------------------------------------------------------------
(* The budget and the cooldowns *)

(* SlidingBudget._prune: what is older than the window is shifted off the  *)
(* front, up to the first that is not.                                     *)
Young(i) == i = Len(ts) + 1 \/ now - ts[i] < Window
FirstYoung == CHOOSE i \in 1..(Len(ts) + 1) :
                  Young(i) /\ \A j \in 1..(i - 1) : ~Young(j)
Pruned == SubSeq(ts, FirstYoung, Len(ts))

(* Fault: one too many. *)
BudgetOkAtLimit == Len(Pruned) <= PerMin

BudgetOk == Len(Pruned) < PerMin

(* RecentlyRetired._live *)
Live(at) == at # 0 /\ now - at < Cooldown

-----------------------------------------------------------------------------
(* The channels *)

(* A channel is counted once its identity has bound; a peer's of the       *)
(* upstream as soon as it is open (openNonProvisionalCount).               *)
Counted == {k \in Key : chan[k] = "open" /\ (k \in Far \/ who[k] # NoNode)}

(* A channel ends by itself or because the mesh retires it: nobody is      *)
(* bound to it, and the identity it was the route of has no route left.    *)
Emptied(f, k) == [f EXCEPT ![k] = NoNode]
Unrouted(k) == [n \in Node |-> IF route[n] = k THEN NoRoute ELSE route[n]]

(* deliverDoorSignal of an offer: a new negotiation under the door key,    *)
(* unless the connection is in the cooldown.                               *)
DoorOffer(c) ==
    /\ c \in AtDoor
    /\ ~Live(connAt[c])
    /\ chan[c] = "none"
    /\ inc[c] < MaxInc
    /\ chan' = [chan EXCEPT ![c] = "new"]
    /\ inc' = [inc EXCEPT ![c] = @ + 1]
    /\ UNCHANGED <<now, doorVars, who, route, marked, doomed, policyVars>>

(* A peer met through the upstream negotiates without the door.  Its       *)
(* incarnations tell nothing apart: one is the bound.                      *)
FarOffer(k) ==
    /\ k \in Far
    /\ chan[k] = "none"
    /\ inc[k] = 0
    /\ chan' = [chan EXCEPT ![k] = "new"]
    /\ inc' = [inc EXCEPT ![k] = @ + 1]
    /\ UNCHANGED <<now, doorVars, who, route, marked, doomed, policyVars>>

(* The answer has gone out (through the door signal sink, which drops what *)
(* is for a connection no longer there) and the data channel opens.        *)
ChannelOpens(k) ==
    /\ chan[k] = "new"
    /\ k \in Conn => k \in AtDoor
    /\ chan' = [chan EXCEPT ![k] = "open"]
    /\ UNCHANGED <<now, doorVars, inc, who, route, marked, doomed, policyVars>>

(* A channel dies, or the mesh gives it up (a bind deadline, the           *)
(* provisional limit, the degree pass).                                    *)
ChannelEnds(k) ==
    /\ chan[k] # "none"
    /\ chan' = [chan EXCEPT ![k] = "none"]
    /\ who' = Emptied(who, k)
    /\ route' = Unrouted(k)
    /\ UNCHANGED <<now, doorVars, inc, marked, doomed, policyVars>>

-----------------------------------------------------------------------------
(* The bind *)

(* refuse(): the close of the refused channel is put off to the next tick, *)
(* for the incarnation the key holds now.                                  *)
Refusal(k, n) == [key |-> k, node |-> n, inc |-> inc[k]]

(* Fault: the key alone is remembered. *)
HitByKey(d) == chan[d.key] # "none"

(* The deferred close finds the incarnation it was made for. *)
Hit(d) == chan[d.key] # "none" /\ inc[d.key] = d.inc

(* Over the cap, the newcomer counted. *)
NoRoom(k) == Cardinality(Counted \cup {k}) > Cap

(* retireForNewcomer: one incumbent goes, and is remembered by identity    *)
(* and by connection.                                                      *)
MakeRoom(v, k, n) ==
    /\ chan' = [chan EXCEPT ![v] = "none"]
    /\ who' = [who EXCEPT ![v] = NoNode, ![k] = n]
    /\ route' = [Unrouted(v) EXCEPT ![n] = k]
    /\ ts' = Append(Pruned, now)
    /\ spends' = Append(spends, now)
    /\ idAt' = [m \in Node |-> IF who[v] = m THEN now ELSE idAt[m]]
    /\ connAt' = [c \in Conn |-> IF v = c THEN now ELSE connAt[c]]

(* The policy admits a new route over door key c: at once, or in the place *)
(* of an incumbent.  _doorChannelBound learns of it.                       *)
PolicyAdmits(c, n) ==
    /\ ~Live(idAt[n])
    /\ marked' = marked \cup {c}
    /\ IF NoRoom(c)
       THEN BudgetOk /\ \E v \in Counted \ {c} : MakeRoom(v, c, n)
       ELSE /\ who' = [who EXCEPT ![c] = n]
            /\ route' = [route EXCEPT ![n] = c]
            /\ UNCHANGED <<chan, policyVars>>
    /\ UNCHANGED doomed

(* Fault: the refused channel is not closed. *)
PolicyRefusesOnly(c, n) ==
    /\ who' = [who EXCEPT ![c] = n]
    /\ UNCHANGED <<chan, route, marked, doomed, policyVars>>

(* The policy refuses: cooldown, or the kernel's gate, or no room with the *)
(* budget spent or no incumbent that may go.  The gate and the choice of   *)
(* incumbents are the kernel's: a refusal is always possible.              *)
PolicyRefuses(c, n) ==
    /\ who' = [who EXCEPT ![c] = n]
    /\ doomed' = doomed \cup {Refusal(c, n)}
    /\ UNCHANGED <<chan, route, marked, policyVars>>

(* Fault: a switch is not noticed (the door before 2.175.0). *)
RouteToDoorUnnoticed(k) == UNCHANGED marked

(* _onRouteToDoor: the route of an identity has moved to key k. *)
RouteToDoor(k) == marked' = marked \cup ({k} \cap Conn)

(* The identity of a channel binds on it, once.  One that has no route     *)
(* gets it through the policy, if the key is a door key; for one that came *)
(* by the socket this is a switch, which no policy sees.  That the kernel  *)
(* binds an identity on one channel at a time, and so switches a route     *)
(* from the socket only and never from one channel to another, is taken    *)
(* for granted (who[j] # n).                                               *)
BindChannel(k, n) ==
    /\ chan[k] = "open" /\ who[k] = NoNode
    /\ \A j \in Key : who[j] # n
    /\ \A d \in doomed : d.key = k => d.inc # inc[k]
    /\ \/ /\ route[n] = NoRoute /\ k \in Conn
          /\ PolicyAdmits(k, n) \/ PolicyRefuses(k, n)
       \/ /\ route[n] = Socket \/ k \in Far
          /\ who' = [who EXCEPT ![k] = n]
          /\ route' = [route EXCEPT ![n] = k]
          /\ IF route[n] = Socket THEN RouteToDoor(k) ELSE UNCHANGED marked
          /\ UNCHANGED <<chan, doomed, policyVars>>
    /\ UNCHANGED <<now, doorVars, inc>>

(* The identity of a refused channel binds on another one first: the       *)
(* refused key is left without it.                                         *)
LeaveRefused(k) ==
    /\ who[k] # NoNode
    /\ route[who[k]] # k
    /\ who' = Emptied(who, k)
    /\ UNCHANGED <<now, doorVars, chan, inc, route, marked, doomed, policyVars>>

(* The deferred close runs: the refused channel goes, by the identity that *)
(* sits on it or by its key, and no death is reported.                     *)
DeferredClose(d) ==
    /\ d \in doomed
    /\ doomed' = doomed \ {d}
    /\ IF Hit(d) THEN /\ chan' = [chan EXCEPT ![d.key] = "none"]
                      /\ who' = Emptied(who, d.key)
                 ELSE UNCHANGED <<chan, who>>
    /\ UNCHANGED <<now, doorVars, inc, route, marked, policyVars>>

-----------------------------------------------------------------------------
(* The socket *)

Connect(c) ==
    /\ sock[c] = "idle"
    /\ sock' = [sock EXCEPT ![c] = "open"]
    /\ UNCHANGED <<now, said, sockOf, chanVars, route, marked, doomed, policyVars>>

(* The hello over the socket completes: the socket is the route of an      *)
(* identity that has none, and born superseded otherwise.                  *)
SocketHello(c, n) ==
    /\ c \in AtDoor
    /\ c \notin said
    /\ said' = said \cup {c}
    /\ sockOf' = [sockOf EXCEPT ![n] = {c}]
    /\ route' = [route EXCEPT ![n] = IF @ = NoRoute THEN Socket ELSE @]
    /\ UNCHANGED <<now, sock, chanVars, marked, doomed, policyVars>>

(* Rule 4, at a heartbeat that reports a mesh large enough. *)
SocketReleased(c) ==
    /\ c \in AtDoor
    /\ c \in marked
    /\ sock' = [sock EXCEPT ![c] = "closing"]
    /\ UNCHANGED <<now, said, sockOf, chanVars, route, marked, doomed, policyVars>>

(* handleConnClosed: the mark goes; a negotiation that has not opened is   *)
(* cancelled, an open channel is left alone; the death of the socket is    *)
(* the identity's only if the socket is its route.                         *)
SocketClosed(c) ==
    /\ c \in AtDoor
    /\ sock' = [sock EXCEPT ![c] = "gone"]
    /\ said' = said \ {c}
    /\ sockOf' = [n \in Node |-> sockOf[n] \ {c}]
    /\ route' = [n \in Node |-> IF route[n] = Socket /\ c \in sockOf[n]
                                THEN NoRoute ELSE route[n]]
    /\ marked' = marked \ {c}
    /\ chan' = [chan EXCEPT ![c] = IF @ = "new" THEN "none" ELSE @]
    /\ UNCHANGED <<now, inc, who, doomed, policyVars>>

(* Deferred closes run before time passes. *)
Tick ==
    /\ now < MaxTime
    /\ doomed = {}
    /\ now' = now + 1
    /\ UNCHANGED <<doorVars, chanVars, route, marked, doomed, policyVars>>

Next ==
    \/ Tick
    \/ \E d \in doomed : DeferredClose(d)
    \/ \E k \in Key :
        \/ FarOffer(k)
        \/ ChannelOpens(k)
        \/ ChannelEnds(k)
        \/ LeaveRefused(k)
        \/ \E n \in Node : BindChannel(k, n)
    \/ \E c \in Conn :
        \/ Connect(c)
        \/ DoorOffer(c)
        \/ \E n \in Node : SocketHello(c, n)
        \/ SocketReleased(c)
        \/ SocketClosed(c)

Spec == Init /\ [][Next]_vars

-----------------------------------------------------------------------------
(* Properties *)

(* Every variable keeps its type. *)
TypeOK == /\ now \in 1..(MaxTime + 1)
          /\ sock \in [Conn -> {"idle", "open", "closing", "gone"}]
          /\ said \subseteq Conn
          /\ sockOf \in [Node -> SUBSET Conn]
          /\ chan \in [Key -> {"none", "new", "open"}]
          /\ inc \in [Key -> 0..MaxInc]
          /\ who \in [Key -> Node \cup {NoNode}]
          /\ route \in [Node -> Key \cup {NoRoute, Socket}]
          /\ marked \subseteq Conn
          /\ doomed \subseteq [key : Conn, node : Node, inc : 0..MaxInc]
          /\ ts \in Seq(Nat)
          /\ idAt \in [Node -> Nat]
          /\ connAt \in [Conn -> Nat]
          /\ spends \in Seq(Nat)

(* "At most perMin events in any trailing 60 s window": however the binds  *)
(* fall around the window's edge, no window sees more than PerMin          *)
(* incumbents retired.                                                     *)
BudgetHolds == \A i \in DOMAIN spends :
    i + PerMin \in DOMAIN spends => spends[i + PerMin] - spends[i] >= Window

(* A refusal's close, which runs a tick later and by key, never ends a     *)
(* channel that has become somebody's admitted route in between.           *)
RefusalSparesRoutes == \A d \in doomed : Hit(d) =>
    \A n \in Node : route[n] # d.key

(* A refused channel does not linger: whatever channel an identity sits on *)
(* without being admitted over it has its close coming.                    *)
RefusedIsDoomed == \A k \in Key :
    who[k] # NoNode /\ route[who[k]] # k => \E d \in doomed : d.key = k /\ Hit(d)

(* What rule 4 reads is there to be read: an identity routed over its door *)
(* channel, whichever of socket and channel came first, has its connection *)
(* marked as long as the socket is at the door.                            *)
RoutedIsMarked == \A n \in Node :
    route[n] \in AtDoor => route[n] \in marked
=============================================================================
