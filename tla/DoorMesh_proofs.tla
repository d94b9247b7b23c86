--------------------------- MODULE DoorMesh_proofs ---------------------------
(***************************************************************************)
(* Proofs about DoorMesh for every set of connections, channels and        *)
(* identities and every cap, budget, window and cooldown.  MeshInv relates *)
(* seats, routes and deferred closes; BudgetInv relates what the budget    *)
(* remembers to what was spent.  Neither needs the other.                  *)
(***************************************************************************)
EXTENDS DoorMesh, WellFoundedInduction, TLAPS

(* TypeOK without the clock and the budget. *)
SeatTypes == /\ sock \in [Conn -> {"idle", "open", "closing", "gone"}]
             /\ said \subseteq Conn
             /\ sockOf \in [Node -> SUBSET Conn]
             /\ chan \in [Key -> {"none", "new", "open"}]
             /\ inc \in [Key -> 0..MaxInc]
             /\ who \in [Key -> Node \cup {NoNode}]
             /\ route \in [Node -> Key \cup {NoRoute, Socket}]
             /\ marked \subseteq Conn
             /\ doomed \subseteq [key : Conn, node : Node, inc : 0..MaxInc]

(* An identity sits on the channel that is its route, and only an open     *)
(* channel has somebody on it.                                             *)
RoutesBound == \A n \in Node : route[n] \in Key => who[route[n]] = n
SeatsOpen == \A k \in Key : who[k] # NoNode => chan[k] = "open"

(* A deferred close is for an incarnation that was, and a door key has no  *)
(* channel before its connection is made.                                  *)
ClosesArePast == \A d \in doomed : d.inc <= inc[d.key]
ChannelsMet == \A c \in Conn : chan[c] # "none" => sock[c] # "idle"

MeshInv == /\ SeatTypes
           /\ RoutesBound
           /\ SeatsOpen
           /\ ClosesArePast
           /\ ChannelsMet
           /\ RefusalSparesRoutes
           /\ RefusedIsDoomed
           /\ RoutedIsMarked

(* The budget remembers the latest of what was spent, and has forgotten    *)
(* nothing that is still within the window.                                *)
Remembers == /\ ts \in Seq(Nat) /\ spends \in Seq(Nat)
             /\ Len(ts) <= Len(spends)
             /\ \A i \in 1..Len(ts) : ts[i] = spends[Len(spends) - Len(ts) + i]
             /\ \A i \in 1..(Len(spends) - Len(ts)) : now - spends[i] >= Window

BudgetInv == /\ now \in 1..(MaxTime + 1)
             /\ Remembers
             /\ \A i \in 1..Len(spends) : spends[i] <= now
             /\ BudgetHolds
             /\ idAt \in [Node -> Nat] /\ connAt \in [Conn -> Nat]

-----------------------------------------------------------------------------
(* Seats and routes *)

LEMMA MeshInit == Init => MeshInv
BY DoorMeshAssumption
   DEF Init, MeshInv, SeatTypes, RoutesBound, SeatsOpen, ClosesArePast, ChannelsMet,
       RefusalSparesRoutes, RefusedIsDoomed, RoutedIsMarked, Key, AtDoor, Hit

LEMMA OfferKeeps ==
    ASSUME MeshInv, NEW k \in Key, chan[k] = "none", inc[k] < MaxInc,
           k \in Conn => k \in AtDoor,
           chan' = [chan EXCEPT ![k] = "new"], inc' = [inc EXCEPT ![k] = @ + 1],
           UNCHANGED <<sock, said, sockOf, who, route, marked, doomed>>
    PROVE  MeshInv'
<1> USE DEF MeshInv
<1>1. inc[k] \in Nat /\ \A j \in Key : inc[j] \in Nat /\ inc'[j] \in 0..MaxInc
      BY DoorMeshAssumption DEF SeatTypes
<1>2. SeatTypes'
      BY <1>1 DEF SeatTypes
<1>3. who[k] = NoNode
      BY DEF SeatsOpen
<1>4. \A d \in doomed : d.key \in Key /\ d.inc \in Nat
      BY DEF SeatTypes, Key
<1>5. \A d \in doomed : d.inc <= inc'[d.key] /\ (Hit(d)' => Hit(d) /\ d.key # k)
      BY <1>1, <1>4 DEF ClosesArePast, Hit, SeatTypes
<1>6. \A d \in doomed : Hit(d) /\ d.key # k => Hit(d)'
      BY <1>4 DEF Hit, SeatTypes
<1>7. RoutesBound' /\ SeatsOpen' /\ ClosesArePast'
      BY <1>3, <1>5 DEF RoutesBound, SeatsOpen, ClosesArePast, SeatTypes
<1>8. ChannelsMet'
      BY DEF ChannelsMet, AtDoor, SeatTypes, Key
<1>9. RefusalSparesRoutes' /\ RefusedIsDoomed'
      BY <1>3, <1>5, <1>6 DEF RefusalSparesRoutes, RefusedIsDoomed
<1>10. RoutedIsMarked'
       BY DEF RoutedIsMarked, AtDoor
<1> QED BY <1>2, <1>7, <1>8, <1>9, <1>10

(* A channel goes, with whoever sits on it and the route it was. *)
LEMMA ChannelEndsKeeps ==
    ASSUME MeshInv, NEW k \in Key, ChannelEnds(k)
    PROVE  MeshInv'
<1> USE DEF MeshInv
<1>1. /\ chan' = [chan EXCEPT ![k] = "none"]
      /\ who' = [who EXCEPT ![k] = NoNode]
      /\ \A n \in Node : route'[n] = IF route[n] = k THEN NoRoute ELSE route[n]
      /\ DOMAIN route' = Node
      /\ UNCHANGED <<sock, said, sockOf, inc, marked, doomed>>
      BY DEF ChannelEnds, Emptied, Unrouted, doorVars
<1>2. SeatTypes'
      BY <1>1 DEF SeatTypes, ChannelEnds, Unrouted
<1>3. RoutesBound' /\ SeatsOpen' /\ ClosesArePast' /\ ChannelsMet'
      BY <1>1, DoorMeshAssumption
      DEF RoutesBound, SeatsOpen, ClosesArePast, ChannelsMet, SeatTypes, Key
<1>4. \A d \in doomed : Hit(d)' <=> Hit(d) /\ d.key # k
      BY <1>1 DEF Hit, SeatTypes, Key
<1>5. RefusalSparesRoutes'
      BY <1>1, <1>4, DoorMeshAssumption DEF RefusalSparesRoutes, SeatTypes, Key
<1>6. RefusedIsDoomed'
      BY <1>1, <1>4 DEF RefusedIsDoomed, SeatTypes
<1>7. RoutedIsMarked'
      BY <1>1, DoorMeshAssumption DEF RoutedIsMarked, AtDoor, SeatTypes
<1> QED BY <1>2, <1>3, <1>5, <1>6, <1>7

(* An identity takes a seat as its route, which nobody held and no close   *)
(* is coming for, possibly in the place of an incumbent on v.              *)
LEMMA AdmissionKeeps ==
    ASSUME MeshInv, NEW k \in Key, NEW n \in Node, NEW v \in Key \cup {NoRoute},
           chan[k] = "open", who[k] = NoNode, v # k,
           \A j \in Key : who[j] # n,
           \A d \in doomed : d.key = k => d.inc # inc[k],
           \A j \in Key : chan'[j] = IF j = v THEN "none" ELSE chan[j],
           \A j \in Key : who'[j] = IF j = k THEN n ELSE IF j = v THEN NoNode ELSE who[j],
           \A m \in Node : route'[m] = IF m = n THEN k
                                       ELSE IF route[m] = v THEN NoRoute ELSE route[m],
           chan' \in [Key -> {"none", "new", "open"}],
           who' \in [Key -> Node \cup {NoNode}],
           route' \in [Node -> Key \cup {NoRoute, Socket}],
           marked' = marked \/ marked' = marked \cup ({k} \cap Conn),
           k \in Conn => k \in marked',
           UNCHANGED <<sock, said, sockOf, inc, doomed>>
    PROVE  MeshInv'
<1> USE DEF MeshInv
<1>1. SeatTypes'
      BY DEF SeatTypes
<1>2. \A m \in Node : route[m] \in Key => route[m] # k /\ m # n
      BY DoorMeshAssumption DEF RoutesBound
<1>3. RoutesBound'
      BY <1>2, DoorMeshAssumption DEF RoutesBound, SeatTypes, Key
<1>4. SeatsOpen' /\ ClosesArePast' /\ ChannelsMet'
      BY DoorMeshAssumption DEF SeatsOpen, ClosesArePast, ChannelsMet, SeatTypes, Key
<1>5. \A d \in doomed : d.key \in Key /\ (Hit(d)' <=> Hit(d) /\ d.key # v)
      BY DEF Hit, SeatTypes, Key
<1>6. \A d \in doomed : Hit(d) => d.key # k
      BY DEF Hit
<1>7. RefusalSparesRoutes'
      BY <1>5, <1>6, DoorMeshAssumption DEF RefusalSparesRoutes, SeatTypes, Key
<1>8. RefusedIsDoomed'
  <2> SUFFICES ASSUME NEW j \in Key, who'[j] # NoNode, route'[who'[j]] # j
               PROVE  \E d \in doomed : d.key = j /\ Hit(d)'
      BY DEF RefusedIsDoomed
  <2>1. j # k /\ j # v /\ who'[j] = who[j] /\ who[j] # n /\ who[j] \in Node
        BY DEF SeatTypes
  <2>2. route[who[j]] # j
        BY <2>1
  <2> QED BY <1>5, <2>1, <2>2 DEF RefusedIsDoomed
<1>9. RoutedIsMarked'
  <2> SUFFICES ASSUME NEW m \in Node, route'[m] \in AtDoor'
               PROVE  route'[m] \in marked'
      BY DEF RoutedIsMarked
  <2>1. AtDoor' = AtDoor /\ NoRoute \notin AtDoor /\ AtDoor \subseteq Conn
        BY DoorMeshAssumption DEF AtDoor
  <2> QED BY <2>1 DEF RoutedIsMarked
<1> QED BY <1>1, <1>3, <1>4, <1>7, <1>8, <1>9

LEMMA BindKeeps ==
    ASSUME MeshInv, NEW k \in Key, NEW n \in Node, BindChannel(k, n)
    PROVE  MeshInv'
<1> USE DEF MeshInv
<1>1. /\ chan[k] = "open" /\ who[k] = NoNode
      /\ \A j \in Key : who[j] # n
      /\ \A d \in doomed : d.key = k => d.inc # inc[k]
      /\ UNCHANGED <<sock, said, sockOf, inc>>
      BY DEF BindChannel, doorVars
<1>2. NoRoute \notin Key
      BY DoorMeshAssumption DEF Key
<1>3. ASSUME k \in Conn, PolicyAdmits(k, n) PROVE MeshInv'
  <2>1. marked' = marked \cup {k} /\ doomed' = doomed
        BY <1>3 DEF PolicyAdmits
  <2>2. CASE \E v \in Counted \ {k} : MakeRoom(v, k, n)
    <3>1. PICK v \in Counted \ {k} : MakeRoom(v, k, n)
          BY <2>2
    <3>2. /\ v \in Key /\ v # k
          /\ chan' = [chan EXCEPT ![v] = "none"]
          /\ who' = [who EXCEPT ![v] = NoNode, ![k] = n]
          /\ route' = [Unrouted(v) EXCEPT ![n] = k]
          BY <3>1 DEF MakeRoom, Counted
    <3>3. Unrouted(v) \in [Node -> Key \cup {NoRoute, Socket}]
          BY DEF Unrouted, SeatTypes
    <3>4. /\ \A j \in Key : chan'[j] = IF j = v THEN "none" ELSE chan[j]
          /\ chan' \in [Key -> {"none", "new", "open"}]
          BY <3>2 DEF SeatTypes
    <3>5. /\ \A j \in Key : who'[j] = IF j = k THEN n ELSE IF j = v THEN NoNode ELSE who[j]
          /\ who' \in [Key -> Node \cup {NoNode}]
          BY <3>2 DEF SeatTypes
    <3>6. /\ \A m \in Node : route'[m] = IF m = n THEN k
                                         ELSE IF route[m] = v THEN NoRoute ELSE route[m]
          /\ route' \in [Node -> Key \cup {NoRoute, Socket}]
          BY <3>2, <3>3 DEF Unrouted, Key
    <3> QED BY <1>1, <1>3, <2>1, <3>2, <3>4, <3>5, <3>6, AdmissionKeeps
  <2>3. CASE who' = [who EXCEPT ![k] = n] /\ route' = [route EXCEPT ![n] = k] /\ chan' = chan
    <3> DEFINE v == NoRoute
    <3>1. \A j \in Key : chan'[j] = IF j = v THEN "none" ELSE chan[j]
          BY <1>2, <2>3
    <3>2. \A j \in Key : who'[j] = IF j = k THEN n ELSE IF j = v THEN NoNode ELSE who[j]
          BY <1>2, <2>3 DEF SeatTypes
    <3>3. \A m \in Node : route'[m] = IF m = n THEN k
                                      ELSE IF route[m] = v THEN NoRoute ELSE route[m]
          BY <2>3 DEF SeatTypes
    <3>4. /\ chan' \in [Key -> {"none", "new", "open"}]
          /\ who' \in [Key -> Node \cup {NoNode}]
          /\ route' \in [Node -> Key \cup {NoRoute, Socket}]
          BY <2>3 DEF SeatTypes
    <3> QED BY <1>1, <1>2, <1>3, <2>1, <3>1, <3>2, <3>3, <3>4, AdmissionKeeps
  <2> QED BY <1>3, <2>2, <2>3 DEF PolicyAdmits
<1>4. ASSUME k \in Conn, route[n] = NoRoute, PolicyRefuses(k, n) PROVE MeshInv'
  <2>1. /\ who' = [who EXCEPT ![k] = n]
        /\ doomed' = doomed \cup {Refusal(k, n)}
        /\ UNCHANGED <<chan, route, marked>>
        BY <1>4 DEF PolicyRefuses
  <2>2. /\ Refusal(k, n) \in [key : Conn, node : Node, inc : 0..MaxInc]
        /\ Refusal(k, n).key = k /\ Refusal(k, n).inc = inc[k]
        BY <1>4 DEF Refusal, SeatTypes
  <2>3. SeatTypes'
        BY <1>1, <2>1, <2>2 DEF SeatTypes
  <2>4. \A m \in Node : route[m] # k
        BY <1>1, <1>4, DoorMeshAssumption DEF RoutesBound
  <2>5. \A d : Hit(d)' <=> Hit(d)
        BY <1>1, <2>1 DEF Hit
  <2>6. Hit(Refusal(k, n))
        BY <1>1, <2>2 DEF Hit
  <2>7. RoutesBound' /\ SeatsOpen' /\ ChannelsMet'
        BY <1>1, <2>1, <2>4 DEF RoutesBound, SeatsOpen, ChannelsMet, SeatTypes
  <2>8. ClosesArePast'
        BY <1>1, <2>1, <2>2, DoorMeshAssumption DEF ClosesArePast, SeatTypes
  <2>9. RefusalSparesRoutes'
        BY <2>1, <2>2, <2>4, <2>5 DEF RefusalSparesRoutes
  <2>10. RefusedIsDoomed'
         BY <2>1, <2>2, <2>5, <2>6 DEF RefusedIsDoomed, SeatTypes
  <2>11. RoutedIsMarked'
         BY <1>1, <2>1 DEF RoutedIsMarked, AtDoor
  <2> QED BY <2>3, <2>7, <2>8, <2>9, <2>10, <2>11
<1>5. ASSUME route[n] = Socket \/ k \in Far,
             who' = [who EXCEPT ![k] = n], route' = [route EXCEPT ![n] = k],
             IF route[n] = Socket THEN RouteToDoor(k) ELSE UNCHANGED marked,
             UNCHANGED <<chan, doomed>>
      PROVE  MeshInv'
  <2> DEFINE v == NoRoute
  <2>1. \A j \in Key : chan'[j] = IF j = v THEN "none" ELSE chan[j]
        BY <1>2, <1>5
  <2>2. \A j \in Key : who'[j] = IF j = k THEN n ELSE IF j = v THEN NoNode ELSE who[j]
        BY <1>2, <1>5 DEF SeatTypes
  <2>3. \A m \in Node : route'[m] = IF m = n THEN k
                                    ELSE IF route[m] = v THEN NoRoute ELSE route[m]
        BY <1>5 DEF SeatTypes
  <2>4. /\ chan' \in [Key -> {"none", "new", "open"}]
        /\ who' \in [Key -> Node \cup {NoNode}]
        /\ route' \in [Node -> Key \cup {NoRoute, Socket}]
        BY <1>5 DEF SeatTypes
  <2>5. /\ marked' = marked \/ marked' = marked \cup ({k} \cap Conn)
        /\ k \in Conn => k \in marked'
        BY <1>5, DoorMeshAssumption DEF RouteToDoor
  <2> QED BY <1>1, <1>2, <1>5, <2>1, <2>2, <2>3, <2>4, <2>5, AdmissionKeeps
<1> QED BY <1>3, <1>4, <1>5 DEF BindChannel

(* Somebody leaves a seat that is not his route, and the channel stays or  *)
(* goes with him and the close that came for him.                          *)
LEMMA LeaveRefusedKeeps ==
    ASSUME MeshInv, NEW k \in Key, LeaveRefused(k)
    PROVE  MeshInv'
<1> USE DEF MeshInv
<1>1. /\ who[k] # NoNode /\ route[who[k]] # k
      /\ who' = [who EXCEPT ![k] = NoNode]
      /\ UNCHANGED <<sock, said, sockOf, chan, inc, route, marked, doomed>>
      BY DEF LeaveRefused, Emptied, doorVars
<1>2. \A n \in Node : route[n] # k
      BY <1>1 DEF RoutesBound
<1>3. \A d : Hit(d)' <=> Hit(d)
      BY <1>1 DEF Hit
<1> QED BY <1>1, <1>2, <1>3
        DEF SeatTypes, RoutesBound, SeatsOpen, ClosesArePast, ChannelsMet,
            RefusalSparesRoutes, RefusedIsDoomed, RoutedIsMarked, AtDoor

LEMMA DeferredCloseKeeps ==
    ASSUME MeshInv, NEW d \in doomed, DeferredClose(d)
    PROVE  MeshInv'
<1> USE DEF MeshInv
<1>1. /\ doomed' = doomed \ {d} /\ d.key \in Key
      /\ UNCHANGED <<sock, said, sockOf, inc, route, marked>>
      BY DEF DeferredClose, doorVars, SeatTypes, Key
<1>2. CASE Hit(d)
  <2>1. /\ chan' = [chan EXCEPT ![d.key] = "none"]
        /\ who' = [who EXCEPT ![d.key] = NoNode]
        BY <1>2 DEF DeferredClose, Emptied
  <2>2. \A n \in Node : route[n] # d.key
        BY <1>2 DEF RefusalSparesRoutes
  <2>3. SeatTypes' /\ RoutesBound' /\ SeatsOpen' /\ ClosesArePast'
        BY <1>1, <2>1, <2>2 DEF SeatTypes, RoutesBound, SeatsOpen, ClosesArePast
  <2>4. ChannelsMet'
        BY <1>1, <2>1 DEF SeatTypes, ChannelsMet, Key
  <2>5. \A e \in doomed : e.key \in Key /\ (Hit(e)' <=> Hit(e) /\ e.key # d.key)
        BY <1>1, <2>1 DEF Hit, SeatTypes, Key
  <2>6. RefusalSparesRoutes'
        BY <1>1, <2>5 DEF RefusalSparesRoutes
  <2>7. RefusedIsDoomed'
        BY <1>1, <2>1, <2>5 DEF RefusedIsDoomed, SeatTypes
  <2>8. RoutedIsMarked'
        BY <1>1 DEF RoutedIsMarked, AtDoor
  <2> QED BY <2>3, <2>4, <2>6, <2>7, <2>8
<1>3. CASE ~Hit(d)
  <2>1. UNCHANGED <<chan, who>>
        BY <1>3 DEF DeferredClose
  <2>2. \A e : Hit(e)' <=> Hit(e)
        BY <1>1, <2>1 DEF Hit
  <2>3. RefusedIsDoomed'
        BY <1>1, <1>3, <2>1, <2>2 DEF RefusedIsDoomed
  <2> QED BY <1>1, <2>1, <2>2, <2>3
          DEF SeatTypes, RoutesBound, SeatsOpen, ClosesArePast, ChannelsMet,
              RefusalSparesRoutes, RoutedIsMarked, AtDoor
<1> QED BY <1>2, <1>3

LEMMA SocketStepsKeep ==
    ASSUME MeshInv, NEW c \in Conn,
           \/ Connect(c)
           \/ \E n \in Node : SocketHello(c, n)
           \/ SocketReleased(c)
           \/ SocketClosed(c)
    PROVE  MeshInv'
<1> USE DEF MeshInv
<1>1. NoRoute \notin Key /\ Socket \notin Key /\ Conn \subseteq Key
      BY DoorMeshAssumption DEF Key
<1>2. CASE Connect(c) \/ SocketReleased(c)
  <2>1. /\ UNCHANGED <<said, sockOf, chan, inc, who, route, marked, doomed>>
        /\ \/ sock[c] = "idle" /\ sock' = [sock EXCEPT ![c] = "open"]
           \/ c \in marked /\ sock' = [sock EXCEPT ![c] = "closing"]
        BY <1>2 DEF Connect, SocketReleased, chanVars
  <2>2. SeatTypes' /\ ChannelsMet'
        BY <2>1 DEF SeatTypes, ChannelsMet
  <2>3. \A d : Hit(d)' <=> Hit(d)
        BY <2>1 DEF Hit
  <2>4. AtDoor' \subseteq AtDoor \cup {c}
        BY <2>1 DEF AtDoor, SeatTypes
  <2>5. sock[c] = "idle" => chan[c] = "none" /\ who[c] = NoNode
        BY <1>1 DEF ChannelsMet, SeatsOpen, SeatTypes
  <2>6. RoutedIsMarked'
    <3>1. \A n \in Node : route[n] = c => who[c] = n
          BY <1>1 DEF RoutesBound
    <3> QED BY <1>1, <2>1, <2>4, <2>5, <3>1, DoorMeshAssumption DEF RoutedIsMarked
  <2> QED BY <2>1, <2>2, <2>3, <2>6
          DEF RoutesBound, SeatsOpen, ClosesArePast, RefusalSparesRoutes, RefusedIsDoomed
<1>3. ASSUME NEW n \in Node, SocketHello(c, n) PROVE MeshInv'
  <2>1. /\ said' = said \cup {c} /\ sockOf' = [sockOf EXCEPT ![n] = {c}]
        /\ \A m \in Node : \/ route'[m] = route[m]
                           \/ route[m] = NoRoute /\ route'[m] = Socket
        /\ UNCHANGED <<sock, chan, inc, who, marked, doomed>>
        BY <1>3 DEF SocketHello, chanVars, SeatTypes
  <2>2. SeatTypes'
        BY <1>3, <2>1 DEF SocketHello, SeatTypes
  <2>3. \A d : Hit(d)' <=> Hit(d)
        BY <2>1 DEF Hit
  <2>4. AtDoor' = AtDoor /\ AtDoor \subseteq Key
        BY <1>1, <2>1 DEF AtDoor
  <2>5. RefusalSparesRoutes'
        BY <1>1, <2>1, <2>3 DEF RefusalSparesRoutes, SeatTypes
  <2>6. RefusedIsDoomed'
        BY <1>1, <2>1, <2>3 DEF RefusedIsDoomed, SeatTypes
  <2> QED BY <1>1, <2>1, <2>2, <2>4, <2>5, <2>6
          DEF RoutesBound, SeatsOpen, ClosesArePast, ChannelsMet, RoutedIsMarked
<1>4. CASE SocketClosed(c)
  <2>1. /\ sock' = [sock EXCEPT ![c] = "gone"]
        /\ said' = said \ {c}
        /\ sockOf' = [n \in Node |-> sockOf[n] \ {c}]
        /\ \A m \in Node : \/ route'[m] = route[m]
                           \/ route[m] = Socket /\ route'[m] = NoRoute
        /\ marked' = marked \ {c}
        /\ chan' = [chan EXCEPT ![c] = IF @ = "new" THEN "none" ELSE @]
        /\ UNCHANGED <<inc, who, doomed>>
        BY <1>4 DEF SocketClosed
  <2>2. SeatTypes'
        BY <1>1, <1>4, <2>1 DEF SocketClosed, SeatTypes
  <2>3. \A k \in Key : chan'[k] = chan[k] \/ (chan[k] = "new" /\ chan'[k] = "none")
        BY <2>1 DEF SeatTypes
  <2>4. \A d \in doomed : d.key \in Key /\ (Hit(d)' => Hit(d))
                          /\ (Hit(d) /\ chan[d.key] = "open" => Hit(d)')
        BY <1>1, <2>1, <2>3 DEF Hit, SeatTypes
  <2>5. RoutesBound' /\ SeatsOpen' /\ ClosesArePast' /\ ChannelsMet'
        BY <1>1, <2>1, <2>3
        DEF RoutesBound, SeatsOpen, ClosesArePast, ChannelsMet, SeatTypes
  <2>6. RefusalSparesRoutes'
        BY <1>1, <2>1, <2>4 DEF RefusalSparesRoutes, SeatTypes
  <2>7. RefusedIsDoomed'
    <3> SUFFICES ASSUME NEW j \in Key, who[j] # NoNode, route'[who[j]] # j
                 PROVE  \E d \in doomed : d.key = j /\ Hit(d)'
        BY <2>1 DEF RefusedIsDoomed
    <3>1. who[j] \in Node /\ route[who[j]] # j /\ chan[j] = "open"
          BY <1>1, <2>1 DEF SeatTypes, SeatsOpen
    <3> QED BY <2>4, <3>1 DEF RefusedIsDoomed
  <2>8. AtDoor' = AtDoor \ {c} /\ AtDoor \subseteq Key
        BY <1>1, <2>1 DEF AtDoor, SeatTypes
  <2>9. RoutedIsMarked'
        BY <1>1, <2>1, <2>8 DEF RoutedIsMarked
  <2> QED BY <2>2, <2>5, <2>6, <2>7, <2>9
<1> QED BY <1>2, <1>3, <1>4

LEMMA OpeningKeeps ==
    ASSUME MeshInv, NEW k \in Key, ChannelOpens(k)
    PROVE  MeshInv'
<1> USE DEF MeshInv
<1>1. /\ chan[k] = "new" /\ chan' = [chan EXCEPT ![k] = "open"]
      /\ UNCHANGED <<sock, said, sockOf, inc, who, route, marked, doomed>>
      BY DEF ChannelOpens, doorVars
<1>2. \A d \in doomed : Hit(d)' <=> Hit(d)
      BY <1>1 DEF Hit, SeatTypes, Key
<1> QED BY <1>1, <1>2
        DEF SeatTypes, RoutesBound, SeatsOpen, ClosesArePast, ChannelsMet,
            RefusalSparesRoutes, RefusedIsDoomed, RoutedIsMarked, AtDoor, Key

LEMMA MeshStep == ASSUME MeshInv, [Next]_vars PROVE MeshInv'
<1>1. CASE UNCHANGED <<doorVars, chanVars, route, marked, doomed>>
      BY <1>1 DEF doorVars, chanVars, MeshInv, SeatTypes, RoutesBound, SeatsOpen,
         ClosesArePast, ChannelsMet, RefusalSparesRoutes, RefusedIsDoomed,
         RoutedIsMarked, AtDoor, Hit
<1>2. ASSUME NEW c \in Conn, DoorOffer(c) PROVE MeshInv'
      BY <1>2, OfferKeeps DEF DoorOffer, doorVars, Key
<1>3. ASSUME NEW k \in Key, FarOffer(k) PROVE MeshInv'
  <2>1. inc[k] < MaxInc /\ (k \in Conn => k \in AtDoor)
        BY <1>3, DoorMeshAssumption DEF FarOffer
  <2> QED BY <1>3, <2>1, OfferKeeps DEF FarOffer, doorVars
<1>4. CASE Tick
      BY <1>1, <1>4 DEF Tick
<1>5. CASE UNCHANGED vars
      BY <1>1, <1>5 DEF vars
<1> QED BY <1>2, <1>3, <1>4, <1>5, OpeningKeeps, ChannelEndsKeeps, LeaveRefusedKeeps,
           BindKeeps, DeferredCloseKeeps, SocketStepsKeep DEF Next

THEOREM MeshInvariance == Spec => []MeshInv
BY MeshInit, MeshStep, PTL DEF Spec

(* The deferred close of a refused channel never hits an admitted route.   *)
THEOREM RefusalSpares == Spec => []RefusalSparesRoutes
<1>1. MeshInv => RefusalSparesRoutes
      BY DEF MeshInv
<1> QED BY <1>1, MeshInvariance, PTL

(* Whoever sits on a channel that is not his route has its close coming.   *)
THEOREM RefusedAreDoomed == Spec => []RefusedIsDoomed
<1>1. MeshInv => RefusedIsDoomed
      BY DEF MeshInv
<1> QED BY <1>1, MeshInvariance, PTL

(* Rule 4 finds the mark of every identity routed over its door channel.   *)
THEOREM RoutedAreMarked == Spec => []RoutedIsMarked
<1>1. MeshInv => RoutedIsMarked
      BY DEF MeshInv
<1> QED BY <1>1, MeshInvariance, PTL

-----------------------------------------------------------------------------
(* The budget *)

(* What the prune leaves is the rest of the list after its stale front.    *)
LEMMA PrunedIsRest ==
    ASSUME now \in Nat, ts \in Seq(Nat)
    PROVE  \E f \in 1..(Len(ts) + 1) :
               /\ Pruned \in Seq(Nat) /\ Len(Pruned) = Len(ts) + 1 - f
               /\ \A i \in 1..Len(Pruned) : Pruned[i] = ts[f - 1 + i]
               /\ \A j \in 1..(f - 1) : now - ts[j] >= Window
<1> DEFINE S == {i \in 1..(Len(ts) + 1) : Young(i)}
<1>1. S \subseteq Nat /\ S # {}
      BY DEF Young
<1>2. \E x \in S : \A y \in S : ~(<<y, x>> \in OpToRel(<, Nat))
      BY <1>1, WFMin, NatLessThanWellFounded, Zenon
<1>3. PICK x \in S : \A y \in S : ~(y < x)
      BY <1>1, <1>2 DEF OpToRel
<1>4. \A j \in 1..(x - 1) : ~Young(j)
  <2> SUFFICES ASSUME NEW j \in 1..(x - 1), Young(j) PROVE FALSE
      OBVIOUS
  <2>1. j \in 1..(Len(ts) + 1) /\ j < x
        BY <1>1
  <2> QED BY <1>3, <2>1
<1>5. FirstYoung \in 1..(Len(ts) + 1) /\ \A j \in 1..(FirstYoung - 1) : ~Young(j)
      BY <1>3, <1>4 DEF FirstYoung
<1> DEFINE f == FirstYoung
<1>6. \A j \in 1..(f - 1) : now - ts[j] >= Window
  <2> SUFFICES ASSUME NEW j \in 1..(f - 1) PROVE now - ts[j] >= Window
      OBVIOUS
  <2>1. j \in 1..Len(ts) /\ ts[j] \in Nat /\ ~(now - ts[j] < Window)
        BY <1>5 DEF Young
  <2> QED BY <2>1, DoorMeshAssumption
<1> HIDE DEF f
<1>7. /\ SubSeq(ts, f, Len(ts)) \in Seq(Nat)
      /\ Len(SubSeq(ts, f, Len(ts))) = Len(ts) + 1 - f
      /\ \A i \in 1..(Len(ts) + 1 - f) : SubSeq(ts, f, Len(ts))[i] = ts[f - 1 + i]
  <2>1. f \in 1..(Len(ts) + 1) /\ Len(ts) \in Nat
        BY <1>5 DEF f
  <2> QED BY <2>1
<1>8. f \in 1..(Len(ts) + 1) /\ Pruned = SubSeq(ts, f, Len(ts))
      BY <1>5 DEF f, Pruned
<1> QED BY <1>6, <1>7, <1>8

(* An incumbent is retired within the budget. *)
LEMMA SpendKeeps ==
    ASSUME BudgetInv, BudgetOk, now' = now,
           ts' = Append(Pruned, now), spends' = Append(spends, now),
           idAt' \in [Node -> Nat], connAt' \in [Conn -> Nat]
    PROVE  BudgetInv'
<1> USE DoorMeshAssumption DEF BudgetInv
<1>1. PICK f \in 1..(Len(ts) + 1) :
               /\ Pruned \in Seq(Nat) /\ Len(Pruned) = Len(ts) + 1 - f
               /\ \A i \in 1..Len(Pruned) : Pruned[i] = ts[f - 1 + i]
               /\ \A j \in 1..(f - 1) : now - ts[j] >= Window
      BY PrunedIsRest DEF Remembers
<1> DEFINE L == Len(spends)  T == Len(ts)  P == Len(Pruned)
<1>2. /\ L \in Nat /\ T \in Nat /\ P \in Nat /\ T <= L /\ P <= T /\ P < PerMin
      /\ Len(spends') = L + 1 /\ Len(ts') = P + 1
  <2>1. spends \in Seq(Nat) /\ ts \in Seq(Nat) /\ Pruned \in Seq(Nat) /\ T <= L
        BY <1>1 DEF Remembers
  <2>2. L \in Nat /\ T \in Nat /\ P \in Nat
        BY <2>1
  <2>3. Len(spends') = L + 1 /\ Len(ts') = P + 1
        BY <2>1
  <2>4. P <= T /\ P < PerMin
        BY <1>1, <2>2 DEF BudgetOk
  <2> QED BY <2>1, <2>2, <2>3, <2>4
<1>3. /\ \A i \in 1..L : spends'[i] = spends[i] /\ spends[i] \in Nat
      /\ spends'[L + 1] = now
      /\ \A i \in 1..P : ts'[i] = Pruned[i]
      /\ ts'[P + 1] = now
      /\ ts' \in Seq(Nat) /\ spends' \in Seq(Nat)
  <2>1. spends \in Seq(Nat) /\ Pruned \in Seq(Nat) /\ now \in Nat
        BY <1>1 DEF Remembers
  <2> HIDE DEF BudgetInv
  <2>2. \A i \in 1..L : spends'[i] = spends[i] /\ spends[i] \in Nat
        BY <2>1
  <2>3. \A i \in 1..P : ts'[i] = Pruned[i]
        BY <2>1
  <2>4. spends'[L + 1] = now /\ ts'[P + 1] = now
        BY <2>1
  <2>5. ts' \in Seq(Nat) /\ spends' \in Seq(Nat)
        BY <2>1
  <2> QED BY <2>2, <2>3, <2>4, <2>5
<1>4. \A i \in 1..P : Pruned[i] = spends[L - P + i]
  <2> SUFFICES ASSUME NEW i \in 1..P PROVE Pruned[i] = spends[L - P + i]
      OBVIOUS
  <2>1. Pruned[i] = ts[f - 1 + i]
        BY <1>1
  <2>2. f - 1 + i \in 1..T /\ L - T + (f - 1 + i) = L - P + i
        BY <1>1, <1>2
  <2>3. \A j \in 1..T : ts[j] = spends[L - T + j]
        BY DEF Remembers
  <2>4. ts[f - 1 + i] = spends[L - T + (f - 1 + i)]
        BY <2>2, <2>3
  <2> HIDE DEF BudgetInv
  <2> QED BY <2>1, <2>2, <2>4
<1>5. \A i \in 1..(L - P) : now - spends[i] >= Window
  <2> SUFFICES ASSUME NEW i \in 1..(L - P) PROVE now - spends[i] >= Window
      OBVIOUS
  <2>1. CASE i <= L - T
        BY <1>2, <2>1 DEF Remembers
  <2>2. CASE i > L - T
    <3>1. i - (L - T) \in 1..T /\ i - (L - T) \in 1..(f - 1)
      <4>1. P = T + 1 - f /\ f \in 1..(T + 1)
            BY <1>1
      <4> HIDE DEF BudgetInv
      <4> HIDE DEF L, T, P
      <4> QED BY <1>2, <2>2, <4>1
    <3>2. ts[i - (L - T)] = spends[i]
          BY <1>2, <3>1 DEF Remembers
    <3> QED BY <1>1, <3>1, <3>2
  <2> QED BY <1>2, <2>1, <2>2
<1>6. Remembers'
  <2>1. ts' \in Seq(Nat) /\ spends' \in Seq(Nat) /\ Len(ts') <= Len(spends')
        BY <1>2, <1>3
  <2> HIDE DEF BudgetInv
  <2>2. \A i \in 1..Len(ts') : ts'[i] = spends'[Len(spends') - Len(ts') + i]
    <3> SUFFICES ASSUME NEW i \in 1..(P + 1)
                 PROVE  ts'[i] = spends'[L - P + i]
      <4>1. Len(ts') = P + 1 /\ Len(spends') - Len(ts') = L - P
            BY <1>2
      <4> QED BY <4>1
    <3>1. CASE i = P + 1
          BY <1>2, <1>3, <3>1
    <3>2. CASE i \in 1..P
      <4>1. L - P + i \in 1..L
            BY <1>2, <3>2
      <4>2. ts'[i] = spends[L - P + i]
            BY <1>3, <1>4, <3>2
      <4>3. spends'[L - P + i] = spends[L - P + i]
            BY <1>3, <4>1
      <4> QED BY <4>2, <4>3
    <3>3. i = P + 1 \/ i \in 1..P
      <4>1. P \in Nat
            BY <1>2
      <4> QED BY <4>1
    <3> QED BY <3>1, <3>2, <3>3, Zenon
  <2>3. \A i \in 1..(Len(spends') - Len(ts')) : now' - spends'[i] >= Window
        BY <1>2, <1>3, <1>5
  <2> QED BY <2>1, <2>2, <2>3 DEF Remembers
<1>7. \A i \in 1..Len(spends') : spends'[i] <= now'
  <2> SUFFICES ASSUME NEW i \in 1..(L + 1) PROVE spends'[i] <= now
      BY <1>2
  <2>1. CASE i = L + 1
        BY <1>3, <2>1
  <2>2. CASE i \in 1..L
        BY <1>3, <2>2
  <2> QED BY <1>2, <2>1, <2>2
<1>8. BudgetHolds'
  <2> SUFFICES ASSUME NEW i \in 1..(L + 1), i + PerMin \in 1..(L + 1)
               PROVE  spends'[i + PerMin] - spends'[i] >= Window
    <3>1. DOMAIN spends' = 1..(L + 1)
          BY <1>2, <1>3
    <3> QED BY <3>1 DEF BudgetHolds
  <2>1. CASE i + PerMin = L + 1
    <3>1. i \in 1..(L - P)
          BY <1>2, <2>1
    <3>2. spends'[i] = spends[i]
          BY <1>2, <1>3, <3>1
    <3> QED BY <1>3, <1>5, <2>1, <3>1, <3>2
  <2>2. CASE i + PerMin \in 1..L
    <3>1. i \in 1..L
          BY <1>2, <2>2
    <3>2. DOMAIN spends = 1..L
          BY DEF Remembers
    <3>3. spends[i + PerMin] - spends[i] >= Window
          BY <2>2, <3>1, <3>2 DEF BudgetHolds
    <3> QED BY <1>3, <2>2, <3>1, <3>3
  <2> QED BY <1>2, <2>1, <2>2
<1> QED BY <1>6, <1>7, <1>8

LEMMA BudgetStep == ASSUME BudgetInv, SeatTypes, [Next]_vars PROVE BudgetInv'
<1>1. CASE UNCHANGED <<now, policyVars>>
      BY <1>1 DEF policyVars, BudgetInv, Remembers, BudgetHolds
<1>2. CASE Tick
  <2>1. now' = now + 1 /\ now < MaxTime /\ UNCHANGED <<ts, spends, idAt, connAt>>
        BY <1>2 DEF Tick, policyVars
  <2>2. now' \in 1..(MaxTime + 1) /\ now \in Nat
        BY <2>1, DoorMeshAssumption DEF BudgetInv
  <2>3. \A i \in 1..Len(spends) : spends[i] \in Nat
        BY DEF BudgetInv, Remembers
  <2>4. Remembers'
    <3> SUFFICES ASSUME NEW i \in 1..(Len(spends) - Len(ts))
                 PROVE  now' - spends[i] >= Window
        BY <2>1 DEF Remembers, BudgetInv
    <3>1. i \in 1..Len(spends) /\ now - spends[i] >= Window
          BY DEF BudgetInv, Remembers
    <3> QED BY <2>1, <2>2, <2>3, <3>1, DoorMeshAssumption
  <2>5. \A i \in 1..Len(spends) : spends[i] <= now'
        BY <2>1, <2>2, <2>3 DEF BudgetInv
  <2> QED BY <2>1, <2>2, <2>4, <2>5 DEF BudgetInv, BudgetHolds
<1>3. ASSUME NEW k \in Key, NEW n \in Node, BindChannel(k, n) PROVE BudgetInv'
  <2>1. now' = now
        BY <1>3 DEF BindChannel
  <2>2. CASE UNCHANGED policyVars
        BY <1>1, <2>1, <2>2
  <2>3. ASSUME NEW v, BudgetOk, MakeRoom(v, k, n) PROVE BudgetInv'
    <3>1. idAt' \in [Node -> Nat] /\ connAt' \in [Conn -> Nat]
          BY <2>3 DEF MakeRoom, BudgetInv
    <3> QED BY <2>1, <2>3, <3>1, SpendKeeps DEF MakeRoom
  <2> QED BY <1>3, <2>2, <2>3 DEF BindChannel, PolicyAdmits, PolicyRefuses
<1>4. ASSUME NEW d \in doomed, DeferredClose(d) PROVE UNCHANGED <<now, policyVars>>
      BY <1>4 DEF DeferredClose
<1>5. ASSUME NEW k \in Key, \/ FarOffer(k) \/ ChannelOpens(k) \/ ChannelEnds(k)
                            \/ LeaveRefused(k)
      PROVE  UNCHANGED <<now, policyVars>>
      BY <1>5 DEF FarOffer, ChannelOpens, ChannelEnds, LeaveRefused
<1>6. ASSUME NEW c \in Conn, \/ Connect(c) \/ DoorOffer(c)
                             \/ \E n \in Node : SocketHello(c, n)
                             \/ SocketReleased(c) \/ SocketClosed(c)
      PROVE  UNCHANGED <<now, policyVars>>
      BY <1>6 DEF Connect, DoorOffer, SocketHello, SocketReleased, SocketClosed
<1>7. CASE UNCHANGED vars
      BY <1>1, <1>7 DEF vars
<1> QED BY <1>1, <1>2, <1>3, <1>4, <1>5, <1>6, <1>7 DEF Next

THEOREM BudgetInvariance == Spec => []BudgetInv
<1>1. Init => BudgetInv
      BY DoorMeshAssumption DEF Init, BudgetInv, Remembers, BudgetHolds
<1>2. MeshInv => SeatTypes
      BY DEF MeshInv
<1> QED BY <1>1, <1>2, BudgetStep, MeshInvariance, PTL DEF Spec

(* No window sees more than PerMin incumbents retired.                     *)
THEOREM BudgetKept == Spec => []BudgetHolds
<1>1. BudgetInv => BudgetHolds
      BY DEF BudgetInv
<1> QED BY <1>1, BudgetInvariance, PTL

(* Every variable keeps its type.                                          *)
THEOREM TypeCorrect == Spec => []TypeOK
<1>1. MeshInv /\ BudgetInv => TypeOK
      BY DEF MeshInv, SeatTypes, BudgetInv, Remembers, TypeOK
<1> QED BY <1>1, MeshInvariance, BudgetInvariance, PTL
=============================================================================
