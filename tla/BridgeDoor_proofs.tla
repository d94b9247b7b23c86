-------------------------- MODULE BridgeDoor_proofs --------------------------
(***************************************************************************)
(* Proofs about BridgeDoor for every number of connections.  The door      *)
(* implements the presence service of PeerPresence, step by step, and from *)
(* that no client is left believing in a peer that has gone.  DoorInv is   *)
(* the invariant the mapping needs: what a connection holds before its     *)
(* admission and who may be named in a frame.  That no introduction is     *)
(* missed is proved over the same mapping, and that a pair has one         *)
(* initiator from who may offer to whom (RolesInv).                        *)
(***************************************************************************)
EXTENDS BridgeDoor, SequenceTheorems, TLAPS

-----------------------------------------------------------------------------
(* What a queue of frames will have told.                                  *)

(* A frame at the end of the queue decides about the peers it names and    *)
(* about nobody else.                                                      *)
LEMMA KnowsAppend ==
    ASSUME NEW q \in Seq(Frame), NEW f \in Frame, NEW v, NEW p
    PROVE  Knows(Append(q, f), v, p) <=>
              IF p \in f.peers THEN f.kind # "left" ELSE Knows(q, v, p)
<1> DEFINE r == Append(q, f)
<1>1. /\ Len(q) \in Nat /\ DOMAIN q = 1..Len(q) /\ DOMAIN r = 1..(Len(q) + 1)
      /\ r[Len(q) + 1] = f /\ \A i \in 1..Len(q) : r[i] = q[i]
      OBVIOUS
<1>2. CASE p \in f.peers
  <2>1. \A i \in DOMAIN r : i <= Len(q) + 1
        BY <1>1
  <2>2. Len(q) + 1 \in DOMAIN r
        BY <1>1
  <2>3. f.kind # "left" => Knows(r, v, p)
        BY <1>1, <1>2, <2>1, <2>2 DEF Knows
  <2>4. ASSUME Knows(r, v, p) PROVE f.kind # "left"
    <3>1. PICK i \in DOMAIN r : /\ p \in r[i].peers
                                /\ r[i].kind # "left"
                                /\ \A j \in DOMAIN r : p \in r[j].peers => j <= i
          BY <1>1, <1>2, <2>2, <2>4 DEF Knows
    <3>2. Len(q) + 1 <= i
          BY <1>1, <1>2, <2>2, <3>1
    <3>3. i = Len(q) + 1
          BY <1>1, <3>2
    <3> QED BY <1>1, <3>1, <3>3
  <2> QED BY <1>2, <2>3, <2>4
<1>3. CASE p \notin f.peers
  <2>1. \A i \in DOMAIN r : p \in r[i].peers <=> i \in DOMAIN q /\ p \in q[i].peers
        BY <1>1, <1>3
  <2>2. \A i \in DOMAIN q : i \in DOMAIN r /\ r[i] = q[i]
        BY <1>1
  <2> QED BY <1>3, <2>1, <2>2 DEF Knows
<1> QED BY <1>2, <1>3

(* Reading the first frame changes the view and not what will be believed. *)
LEMMA KnowsTail ==
    ASSUME NEW q \in Seq(Frame), q # <<>>, NEW v, NEW p
    PROVE  Knows(q, v, p) <=>
              Knows(Tail(q), IF Head(q).kind = "left" THEN v \ Head(q).peers
                                                     ELSE v \cup Head(q).peers, p)
<1> DEFINE r == Tail(q)
           w == IF Head(q).kind = "left" THEN v \ Head(q).peers
                                         ELSE v \cup Head(q).peers
<1>1. /\ Len(q) \in Nat \ {0} /\ DOMAIN q = 1..Len(q) /\ DOMAIN r = 1..(Len(q) - 1)
      /\ Head(q) = q[1] /\ \A i \in 1..(Len(q) - 1) : r[i] = q[i + 1]
      OBVIOUS
<1>2. CASE \E i \in DOMAIN r : p \in r[i].peers
  <2>1. \E i \in DOMAIN q : i # 1 /\ p \in q[i].peers
        BY <1>1, <1>2
  <2>2. ASSUME Knows(q, v, p) PROVE Knows(r, w, p)
    <3>1. PICK i \in DOMAIN q : /\ p \in q[i].peers
                                /\ q[i].kind # "left"
                                /\ \A j \in DOMAIN q : p \in q[j].peers => j <= i
          BY <2>1, <2>2 DEF Knows
    <3>2. i # 1
          BY <1>1, <2>1, <3>1
    <3>3. i - 1 \in DOMAIN r /\ r[i - 1] = q[i]
          BY <1>1, <3>2
    <3>4. \A j \in DOMAIN r : p \in r[j].peers => j <= i - 1
          BY <1>1, <3>1
    <3> QED BY <3>1, <3>3, <3>4 DEF Knows
  <2>3. ASSUME Knows(r, w, p) PROVE Knows(q, v, p)
    <3>1. PICK i \in DOMAIN r : /\ p \in r[i].peers
                                /\ r[i].kind # "left"
                                /\ \A j \in DOMAIN r : p \in r[j].peers => j <= i
          BY <1>2, <2>3 DEF Knows
    <3>2. i + 1 \in DOMAIN q /\ r[i] = q[i + 1]
          BY <1>1
    <3>3. \A j \in DOMAIN q : p \in q[j].peers => j <= i + 1
      <4> SUFFICES ASSUME NEW j \in DOMAIN q, p \in q[j].peers PROVE j <= i + 1
          OBVIOUS
      <4>1. CASE j = 1
            BY <1>1, <4>1
      <4>2. CASE j # 1
        <5>1. j - 1 \in DOMAIN r /\ r[j - 1] = q[j]
              BY <1>1, <4>2
        <5> QED BY <1>1, <3>1, <5>1
      <4> QED BY <4>1, <4>2
    <3> QED BY <3>1, <3>2, <3>3 DEF Knows
  <2> QED BY <2>2, <2>3
<1>3. CASE \A i \in DOMAIN r : p \notin r[i].peers
  <2>1. \A i \in DOMAIN q : p \in q[i].peers => i = 1
    <3> SUFFICES ASSUME NEW i \in DOMAIN q, p \in q[i].peers, i # 1 PROVE FALSE
        OBVIOUS
    <3>1. i - 1 \in DOMAIN r /\ r[i - 1] = q[i]
          BY <1>1
    <3> QED BY <1>3, <3>1
  <2>2. Knows(r, w, p) <=> p \in w
        BY <1>3 DEF Knows
  <2>3. 1 \in DOMAIN q
        BY <1>1
  <2>4. Knows(q, v, p) <=> p \in w
    <3>1. CASE p \in q[1].peers
          BY <1>1, <2>1, <2>3, <3>1 DEF Knows
    <3>2. CASE p \notin q[1].peers
          BY <1>1, <2>1, <3>2 DEF Knows
    <3> QED BY <3>1, <3>2
  <2> QED BY <2>2, <2>4
<1> QED BY <1>2, <1>3

(* The peers some frame of a queue names. *)
Tells(q, p) == \E i \in DOMAIN q : p \in q[i].peers

LEMMA TellsAppend ==
    ASSUME NEW q \in Seq(Frame), NEW f \in Frame, NEW p
    PROVE  Tells(Append(q, f), p) <=> Tells(q, p) \/ p \in f.peers
<1>1. /\ Len(q) \in Nat /\ DOMAIN q = 1..Len(q)
      /\ DOMAIN Append(q, f) = 1..(Len(q) + 1)
      /\ Append(q, f)[Len(q) + 1] = f
      /\ \A i \in 1..Len(q) : Append(q, f)[i] = q[i]
      OBVIOUS
<1>2. Len(q) + 1 \in DOMAIN Append(q, f)
      BY <1>1
<1>3. \A i \in DOMAIN q : i \in DOMAIN Append(q, f)
      BY <1>1
<1>4. \A i \in DOMAIN Append(q, f) : i = Len(q) + 1 \/ i \in DOMAIN q
      BY <1>1
<1> QED BY <1>1, <1>2, <1>3, <1>4 DEF Tells

LEMMA TellsTail ==
    ASSUME NEW q \in Seq(Frame), q # <<>>, NEW p
    PROVE  /\ Tells(Tail(q), p) => Tells(q, p)
           /\ p \in Head(q).peers => Tells(q, p)
<1>1. /\ Len(q) \in Nat \ {0} /\ DOMAIN q = 1..Len(q)
      /\ DOMAIN Tail(q) = 1..(Len(q) - 1)
      /\ Head(q) = q[1] /\ \A i \in 1..(Len(q) - 1) : Tail(q)[i] = q[i + 1]
      OBVIOUS
<1>2. \A i \in DOMAIN Tail(q) : i + 1 \in DOMAIN q /\ Tail(q)[i] = q[i + 1]
      BY <1>1
<1>3. 1 \in DOMAIN q
      BY <1>1
<1> QED BY <1>1, <1>2, <1>3 DEF Tells

(* A queue that does not name p leaves the client's belief in p as it is.  *)
LEMMA KnowsUntold == ASSUME NEW q, NEW v, NEW p, ~Tells(q, p)
                     PROVE  Knows(q, v, p) <=> p \in v
BY DEF Knows, Tells

(* Whoever is believed in was named or is in the view. *)
LEMMA KnowsIsTold == ASSUME NEW q, NEW v, NEW p, Knows(q, v, p)
                     PROVE  p \in v \/ Tells(q, p)
BY DEF Knows, Tells

LEMMA FrameType == /\ VersionGate \in Frame
                   /\ Welcome \in Frame
                   /\ \A p \in Conn : /\ Joined(p) \in Frame
                                      /\ Left(p) \in Frame
                                      /\ Signal(p) \in Frame
                   /\ \A L \in SUBSET Conn : PeerList(L) \in Frame
BY DEF Frame, VersionGate, Welcome, Joined, Left, Signal, PeerList

(* A queue that holds frames of the gate and signals only. *)
GateOnly(q) == \A i \in DOMAIN q : q[i].kind \in {"gate", "signal"}

LEMMA GateOnlyAppend ==
    ASSUME NEW q \in Seq(Frame), GateOnly(q), NEW f \in Frame, f.kind \in {"gate", "signal"}
    PROVE  GateOnly(Append(q, f))
<1>1. /\ Len(q) \in Nat /\ DOMAIN q = 1..Len(q)
      /\ DOMAIN Append(q, f) = 1..(Len(q) + 1)
      /\ Append(q, f)[Len(q) + 1] = f
      /\ \A i \in 1..Len(q) : Append(q, f)[i] = q[i]
      OBVIOUS
<1>2. \A i \in DOMAIN Append(q, f) : i = Len(q) + 1 \/ i \in DOMAIN q
      BY <1>1
<1> QED BY <1>1, <1>2 DEF GateOnly

LEMMA GateOnlyTail ==
    ASSUME NEW q \in Seq(Frame), q # <<>>, GateOnly(q)
    PROVE  GateOnly(Tail(q)) /\ Head(q).kind \in {"gate", "signal"}
<1>1. /\ Len(q) \in Nat \ {0} /\ DOMAIN q = 1..Len(q)
      /\ DOMAIN Tail(q) = 1..(Len(q) - 1)
      /\ Head(q) = q[1] /\ \A i \in 1..(Len(q) - 1) : Tail(q)[i] = q[i + 1]
      OBVIOUS
<1>2. \A i \in DOMAIN Tail(q) : i + 1 \in DOMAIN q /\ Tail(q)[i] = q[i + 1]
      BY <1>1
<1>3. 1 \in DOMAIN q
      BY <1>1
<1> QED BY <1>1, <1>2, <1>3 DEF GateOnly

(* The newcomer's own two frames, after what the gate has let through. *)
Intro(q, L) == Append(Append(q, Welcome), PeerList(L))

LEMMA IntroFrames ==
    ASSUME NEW q \in Seq(Frame), NEW L \in SUBSET Conn
    PROVE  /\ Intro(q, L) \in Seq(Frame)
           /\ \A p \in Conn : Tells(Intro(q, L), p) <=> Tells(q, p) \/ p \in L
<1> DEFINE e == Append(q, Welcome)
<1>1. /\ e \in Seq(Frame)
      /\ Welcome \in Frame /\ PeerList(L) \in Frame
      BY FrameType
<1>2. ASSUME NEW p \in Conn
      PROVE  /\ p \notin Welcome.peers
             /\ p \in PeerList(L).peers <=> p \in L
      BY DEF Welcome, PeerList
<1>3. ASSUME NEW p \in Conn
      PROVE  Tells(e, p) <=> Tells(q, p)
      BY <1>1, <1>2, TellsAppend
<1>4. ASSUME NEW p \in Conn
      PROVE  Tells(Append(e, PeerList(L)), p) <=> Tells(q, p) \/ p \in L
      BY <1>1, <1>2, <1>3, TellsAppend
<1>5. Append(e, PeerList(L)) \in Seq(Frame)
      BY <1>1
<1> QED BY <1>4, <1>5 DEF Intro

-----------------------------------------------------------------------------
(* The invariant.                                                          *)

(* A connection that is not at the door has no record and no timer.        *)
Absent == \A c \in Conn :
    /\ sock[c] \in {"idle", "gone"} => ~admitted[c] /\ timer[c] = "off"
    /\ release[c] => admitted[c]

(* A client is told of p, or believes in it already. *)
Mentions(c, p) == p \in view[c] \/ Tells(inbox[c], p)

(* Before its admission a connection has been told of the gate, and of     *)
(* peers only by those that signalled it.                                  *)
AtTheGate(c) == /\ GateOnly(inbox[c])
                /\ dials[c] = {}
                /\ c \notin early => \A p \in Conn : ~Mentions(c, p)
Quiet == \A c \in Conn : ~admitted[c] => AtTheGate(c)

(* Whoever is named to a client was admitted. *)
NamedWereAdmitted ==
    \A c, p \in Conn : Mentions(c, p) => admitted[p] \/ sock[p] = "gone"

DoorInv == TypeOK /\ Absent /\ Quiet /\ NamedWereAdmitted

(* What is delivered, and to whom. *)
LEMMA DeliverFacts ==
    ASSUME TypeOK, NEW to \in SUBSET Conn, NEW f \in Frame
    PROVE  /\ Deliver(to, f) \in [Conn -> Seq(Frame)]
           /\ \A x \in Conn :
                /\ Deliver(to, f)[x] = IF x \in to /\ sock[x] = "open"
                                       THEN Append(inbox[x], f) ELSE inbox[x]
                /\ \A p : Tells(Deliver(to, f)[x], p) =>
                            Tells(inbox[x], p) \/ (x \in to /\ p \in f.peers)
<1>1. \A x \in Conn : inbox[x] \in Seq(Frame) /\ Append(inbox[x], f) \in Seq(Frame)
      BY DEF TypeOK
<1>2. \A x \in Conn :
         Deliver(to, f)[x] = IF x \in to /\ sock[x] = "open"
                             THEN Append(inbox[x], f) ELSE inbox[x]
      BY DEF Deliver
<1>3. Deliver(to, f) \in [Conn -> Seq(Frame)]
      BY <1>1 DEF Deliver
<1>4. ASSUME NEW x \in Conn, NEW p, Tells(Deliver(to, f)[x], p)
      PROVE  Tells(inbox[x], p) \/ (x \in to /\ p \in f.peers)
      BY <1>1, <1>2, <1>4, TellsAppend
<1> QED BY <1>2, <1>3, <1>4

(* What is left to show of a step: types, timers, and where a new mention  *)
(* comes from.                                                             *)
LEMMA Steady ==
    ASSUME DoorInv, TypeOK', Absent', Quiet',
           \A x, p \in Conn : p \in view'[x] \/ Tells(inbox'[x], p) =>
               Mentions(x, p) \/ admitted'[p] \/ sock'[p] = "gone",
           \A p \in Conn : admitted[p] \/ sock[p] = "gone" =>
                           admitted'[p] \/ sock'[p] = "gone"
    PROVE  DoorInv'
BY DEF DoorInv, NamedWereAdmitted, Mentions

(* A connection whose queue, view and history stay as they are is at the   *)
(* gate as before.                                                         *)
LEMMA GateKept ==
    ASSUME NEW x \in Conn, AtTheGate(x),
           inbox'[x] = inbox[x], view'[x] = view[x], dials'[x] = dials[x],
           x \in early => x \in early'
    PROVE  AtTheGate(x)'
BY DEF AtTheGate, Mentions

(* The handlers of a connection, grouped by what they say: those that say  *)
(* nothing, those that tell one client something, the 'close' event.       *)
Silent(c) == \/ \E stalled \in BOOLEAN : HelloTimeout(c, stalled)
             \/ RefuseHello(c) \/ TurnRelease(c) \/ DoorClose(c)
Asked(c) == \/ PeerListRequest(c)
            \/ \E to \in Conn, metered \in BOOLEAN : RelaySignal(c, to, metered)
CloseEnds(c) == Drop(c) \/ CloseCompletes(c)

Handler(c) == \/ Connect(c) \/ Silent(c) \/ Admit(c) \/ AdmitTurnRefresh(c)
              \/ Asked(c) \/ CloseEnds(c) \/ ClientRead(c)

LEMMA NextCases == Next => \E c \in Conn : Handler(c)
BY DEF Next, Handler, Silent, Asked, CloseEnds

(* The handlers that say nothing. *)
LEMMA SilentSteps ==
    ASSUME DoorInv, NEW c \in Conn, Silent(c)
    PROVE  /\ DoorInv'
           /\ UNCHANGED <<inbox, clientVars, admitted, turnOnly>>
           /\ \A x \in Conn : /\ x # c => sock'[x] = sock[x]
                              /\ sock[x] = "gone" <=> sock'[x] = "gone"
                              /\ sock[x] = "idle" <=> sock'[x] = "idle"
                              /\ sock'[x] = "open" => sock[x] = "open"
<1>0. TypeOK /\ Absent /\ Quiet
      BY DEF DoorInv
<1>1. TypeOK'
      BY <1>0 DEF Silent, HelloTimeout, RefuseHello, TurnRelease, DoorClose, Closed,
             TypeOK, SockState, TimerState, clientVars
<1>2. UNCHANGED <<inbox, clientVars, admitted, turnOnly>>
      BY DEF Silent, HelloTimeout, RefuseHello, TurnRelease, DoorClose
<1>3. sock[c] \notin {"idle", "gone"}
      BY <1>0 DEF Silent, HelloTimeout, RefuseHello, TurnRelease, DoorClose, Absent,
             Connections, Admitted, TypeOK
<1>4. sock' = sock \/ sock' = [sock EXCEPT ![c] = "closing"]
      BY DEF Silent, HelloTimeout, RefuseHello, TurnRelease, DoorClose, Closed
<1>5. \A x \in Conn : /\ x # c => sock'[x] = sock[x]
                      /\ sock[x] = "gone" <=> sock'[x] = "gone"
                      /\ sock[x] = "idle" <=> sock'[x] = "idle"
                      /\ sock'[x] = "open" => sock[x] = "open"
      BY <1>0, <1>3, <1>4 DEF TypeOK
<1>6. Absent'
  <2>1. \A x \in Conn : /\ x # c => timer'[x] = timer[x]
                        /\ release'[x] => release[x]
        BY <1>0 DEF Silent, HelloTimeout, RefuseHello, TurnRelease, DoorClose, TypeOK
  <2> QED BY <1>0, <1>2, <1>3, <1>5, <2>1 DEF Absent
<1>7. UNCHANGED <<view, dials, early>>
      BY <1>2 DEF clientVars
<1>8. Quiet'
      BY <1>0, <1>2, <1>7, GateKept DEF Quiet
<1>9. \A x, p \in Conn : p \in view'[x] \/ Tells(inbox'[x], p) => Mentions(x, p)
      BY <1>2, <1>7 DEF Mentions
<1>10. \A p \in Conn : admitted[p] \/ sock[p] = "gone" =>
                       admitted'[p] \/ sock'[p] = "gone"
      BY <1>2, <1>5
<1>11. DoorInv'
      BY <1>1, <1>6, <1>8, <1>9, <1>10, Steady
<1> QED BY <1>2, <1>5, <1>11

(* A new connection is told of the gate, which names nobody. *)
LEMMA ConnectSteps ==
    ASSUME DoorInv, NEW c \in Conn, Connect(c)
    PROVE  /\ DoorInv'
           /\ UNCHANGED <<admitted, turnOnly, clientVars>>
           /\ ~admitted[c]
           /\ sock[c] = "idle"
           /\ sock' = [sock EXCEPT ![c] = "open"]
           /\ inbox'[c] = Append(inbox[c], VersionGate)
           /\ \A x \in Conn : x # c => sock'[x] = sock[x] /\ inbox'[x] = inbox[x]
<1>0. TypeOK /\ Absent /\ Quiet
      BY DEF DoorInv
<1>1. /\ sock[c] = "idle"
      /\ sock' = [sock EXCEPT ![c] = "open"]
      /\ timer' = [timer EXCEPT ![c] = "first"]
      /\ inbox' = [inbox EXCEPT ![c] = Append(@, VersionGate)]
      /\ UNCHANGED <<admitted, turnOnly, release, view, dials, sends, early, rewarmed>>
      BY DEF Connect, clientVars
<1>2. ~admitted[c]
      BY <1>0, <1>1 DEF Absent
<1>3. /\ inbox[c] \in Seq(Frame) /\ VersionGate \in Frame
      /\ VersionGate.kind = "gate" /\ \A p : p \notin VersionGate.peers
      BY <1>0, FrameType DEF TypeOK, VersionGate
<1>4. /\ inbox'[c] = Append(inbox[c], VersionGate)
      /\ \A x \in Conn : x # c => sock'[x] = sock[x] /\ inbox'[x] = inbox[x]
      BY <1>0, <1>1 DEF TypeOK
<1>5. inbox' \in [Conn -> Seq(Frame)]
      BY <1>0, <1>1, <1>3 DEF TypeOK
<1>6. TypeOK'
      BY <1>0, <1>1, <1>5 DEF TypeOK, SockState, TimerState
<1>7. Absent'
      BY <1>0, <1>1 DEF Absent, TypeOK
<1>8. \A x, p \in Conn : p \in view'[x] \/ Tells(inbox'[x], p) => Mentions(x, p)
      BY <1>1, <1>3, <1>4, TellsAppend DEF Mentions
<1>9. Quiet'
  <2> SUFFICES ASSUME NEW x \in Conn, ~admitted'[x] PROVE AtTheGate(x)'
      BY DEF Quiet
  <2>1. AtTheGate(x)
        BY <1>0, <1>1 DEF Quiet
  <2>2. CASE x # c
        BY <1>1, <1>4, <2>1, <2>2, GateKept
  <2>3. CASE x = c
    <3>1. GateOnly(inbox'[c])
          BY <1>3, <1>4, <2>1, <2>3, GateOnlyAppend DEF AtTheGate
    <3> QED BY <1>1, <1>8, <2>1, <2>3, <3>1 DEF AtTheGate, Mentions
  <2> QED BY <2>2, <2>3
<1>10. \A p \in Conn : admitted[p] \/ sock[p] = "gone" =>
                       admitted'[p] \/ sock'[p] = "gone"
      BY <1>0, <1>1, <1>4
<1>11. DoorInv'
      BY <1>6, <1>7, <1>8, <1>9, <1>10, Steady
<1>12. UNCHANGED <<admitted, turnOnly, clientVars>>
      BY <1>1 DEF clientVars
<1> QED BY <1>1, <1>2, <1>4, <1>11, <1>12

(* Passing the gate touches no socket and opens no mention. *)
LEMMA GateFacts ==
    ASSUME DoorInv, NEW c \in Conn, NEW turn \in BOOLEAN, PassGate(c, turn)
    PROVE  /\ sock[c] \in {"open", "closing"} /\ ~admitted[c]
           /\ AtTheGate(c) /\ inbox[c] \in Seq(Frame)
           /\ admitted' = [admitted EXCEPT ![c] = TRUE]
           /\ timer' = [timer EXCEPT ![c] = "off"]
           /\ turnOnly' = [turnOnly EXCEPT ![c] = turn]
           /\ UNCHANGED <<sock, view, dials, sends, early, rewarmed>>
           /\ c \notin Admitted
           /\ \A x \in Conn : ~Mentions(x, c)
BY DEF DoorInv, TypeOK, Quiet, NamedWereAdmitted, PassGate, Connections, Admitted,
       clientVars

(* What an admission leaves to be shown: that others at the gate are where *)
(* they were.                                                              *)
LEMMA GateQuiet ==
    ASSUME DoorInv, NEW c \in Conn, NEW turn \in BOOLEAN, PassGate(c, turn),
           \A x \in Conn : x # c /\ ~admitted[x] => inbox'[x] = inbox[x]
    PROVE  Quiet'
<1> SUFFICES ASSUME NEW x \in Conn, ~admitted'[x] PROVE AtTheGate(x)'
    BY DEF Quiet
<1>1. admitted \in [Conn -> BOOLEAN]
      BY DEF DoorInv, TypeOK
<1>2. x # c /\ ~admitted[x]
      BY <1>1, GateFacts
<1>3. AtTheGate(x)
      BY <1>2 DEF DoorInv, Quiet
<1>4. UNCHANGED <<view, dials, early>>
      BY GateFacts
<1> QED BY <1>2, <1>3, <1>4, GateKept

LEMMA AdmitInv ==
    ASSUME DoorInv, NEW c \in Conn, NEW L \in SUBSET Conn,
           PassGate(c, FALSE), UNCHANGED release, IntroList(c, L),
           inbox' = [Deliver(Admitted, Joined(c)) EXCEPT ![c] =
                        IF sock[c] = "open"
                        THEN Append(Append(@, Welcome), PeerList(L)) ELSE @]
    PROVE  /\ DoorInv'
           /\ L \subseteq Admitted
           /\ inbox'[c] = IF sock[c] = "open" THEN Intro(inbox[c], L) ELSE inbox[c]
           /\ \A x \in Conn : x # c =>
                inbox'[x] = IF x \in Admitted /\ sock[x] = "open"
                            THEN Append(inbox[x], Joined(c)) ELSE inbox[x]
<1>0. TypeOK /\ Absent /\ Quiet
      BY DEF DoorInv
<1> DEFINE D == Deliver(Admitted, Joined(c))
<1>1. /\ sock[c] \in {"open", "closing"} /\ ~admitted[c]
      /\ inbox[c] \in Seq(Frame)
      /\ admitted' = [admitted EXCEPT ![c] = TRUE]
      /\ timer' = [timer EXCEPT ![c] = "off"]
      /\ turnOnly' = [turnOnly EXCEPT ![c] = FALSE]
      /\ UNCHANGED <<sock, view, dials, sends, early, rewarmed>>
      /\ c \notin Admitted
      BY GateFacts
<1>2. Admitted \in SUBSET Conn /\ Joined(c) \in Frame
      BY FrameType DEF Admitted, Connections
<1>3. /\ D \in [Conn -> Seq(Frame)]
      /\ \A x \in Conn :
           /\ D[x] = IF x \in Admitted /\ sock[x] = "open"
                     THEN Append(inbox[x], Joined(c)) ELSE inbox[x]
           /\ \A p : Tells(D[x], p) =>
                        Tells(inbox[x], p) \/ (x \in Admitted /\ p \in Joined(c).peers)
      BY <1>0, <1>2, DeliverFacts
<1>4. L \subseteq Admitted
      BY <1>2 DEF IntroList
<1>5. D[c] = inbox[c]
      BY <1>1, <1>3
<1>6. inbox' = [D EXCEPT ![c] = IF sock[c] = "open" THEN Intro(inbox[c], L)
                                                    ELSE inbox[c]]
      BY <1>5 DEF Intro
<1> HIDE DEF D
<1>7. /\ Intro(inbox[c], L) \in Seq(Frame)
      /\ \A p \in Conn : Tells(Intro(inbox[c], L), p) <=> Tells(inbox[c], p) \/ p \in L
      BY <1>1, IntroFrames
<1>8. inbox' \in [Conn -> Seq(Frame)]
      BY <1>1, <1>3, <1>6, <1>7
<1>9. TypeOK'
      BY <1>0, <1>1, <1>8 DEF TypeOK, SockState, TimerState
<1>10. Absent'
      BY <1>0, <1>1 DEF Absent, TypeOK
<1>11. \A x \in Conn : x # c => inbox'[x] = D[x]
      BY <1>3, <1>6
<1>12. Quiet'
  <2>1. \A x \in Conn : x # c /\ ~admitted[x] => inbox'[x] = inbox[x]
        BY <1>3, <1>11 DEF Admitted
  <2> QED BY <2>1, GateQuiet
<1>13. \A p \in Conn : admitted[p] \/ sock[p] = "gone" =>
                       admitted'[p] \/ sock'[p] = "gone"
      BY <1>0, <1>1 DEF TypeOK
<1>14. inbox'[c] = IF sock[c] = "open" THEN Intro(inbox[c], L) ELSE inbox[c]
      BY <1>3, <1>6
<1>15. ASSUME NEW x \in Conn, NEW p \in Conn, p \in view'[x] \/ Tells(inbox'[x], p)
       PROVE  Mentions(x, p) \/ admitted'[p] \/ sock'[p] = "gone"
  <2>1. CASE p \in view'[x]
        BY <1>1, <2>1 DEF Mentions
  <2>2. CASE x = c /\ Tells(inbox'[x], p)
    <3>1. Tells(inbox[c], p) \/ p \in L
          BY <1>7, <1>14, <2>2
    <3>2. p \in L => admitted[p]
          BY <1>4 DEF Admitted
    <3> QED BY <1>13, <2>2, <3>1, <3>2 DEF Mentions
  <2>3. CASE x # c /\ Tells(inbox'[x], p)
    <3>1. inbox'[x] = D[x]
          BY <1>11, <2>3
    <3>2. p \in Joined(c).peers => p = c
          BY DEF Joined
    <3>3. admitted'[c]
          BY <1>0, <1>1 DEF TypeOK
    <3> QED BY <1>3, <2>3, <3>1, <3>2, <3>3 DEF Mentions
  <2> QED BY <1>15, <2>1, <2>2, <2>3
<1>16. DoorInv'
      BY <1>9, <1>10, <1>12, <1>13, <1>15, Steady
<1> QED BY <1>3, <1>4, <1>11, <1>14, <1>16

LEMMA TurnRefreshInv ==
    ASSUME DoorInv, NEW c \in Conn, AdmitTurnRefresh(c)
    PROVE  /\ DoorInv'
           /\ \A x \in Conn : inbox'[x] = IF x = c /\ sock[x] = "open"
                                         THEN Append(inbox[x], Welcome)
                                         ELSE inbox[x]
           /\ \A x, p \in Conn : Tells(inbox'[x], p) => Tells(inbox[x], p)
<1>0. TypeOK /\ Absent /\ Quiet
      BY DEF DoorInv
<1>1. /\ PassGate(c, TRUE)
      /\ release' = [release EXCEPT ![c] = TRUE]
      /\ inbox' = Deliver({c}, Welcome)
      BY DEF AdmitTurnRefresh
<1>2. /\ admitted' = [admitted EXCEPT ![c] = TRUE]
      /\ timer' = [timer EXCEPT ![c] = "off"]
      /\ turnOnly' = [turnOnly EXCEPT ![c] = TRUE]
      /\ UNCHANGED <<sock, view, dials, sends, early, rewarmed>>
      /\ sock[c] \in {"open", "closing"}
      BY <1>1, GateFacts
<1>3. /\ inbox' \in [Conn -> Seq(Frame)]
      /\ \A x \in Conn :
           /\ inbox'[x] = IF x \in {c} /\ sock[x] = "open"
                          THEN Append(inbox[x], Welcome) ELSE inbox[x]
           /\ \A p : Tells(inbox'[x], p) =>
                        Tells(inbox[x], p) \/ (x \in {c} /\ p \in Welcome.peers)
  <2>1. {c} \in SUBSET Conn /\ Welcome \in Frame
        BY FrameType
  <2> QED BY <1>0, <1>1, <2>1, DeliverFacts
<1>4. TypeOK'
  <2>1. inbox' \in [Conn -> Seq(Frame)]
        BY <1>3
  <2> QED BY <1>0, <1>1, <1>2, <2>1 DEF TypeOK, SockState, TimerState
<1>5. Absent'
      BY <1>0, <1>1, <1>2 DEF Absent, TypeOK
<1>6. Quiet'
  <2>1. \A x \in Conn : x # c /\ ~admitted[x] => inbox'[x] = inbox[x]
        BY <1>3
  <2> QED BY <1>1, <2>1, GateQuiet
<1>7. \A p \in Conn : admitted[p] \/ sock[p] = "gone" =>
                      admitted'[p] \/ sock'[p] = "gone"
      BY <1>0, <1>2 DEF TypeOK
<1>8. \A x, p \in Conn : Tells(inbox'[x], p) => Tells(inbox[x], p)
      BY <1>3 DEF Welcome
<1>9. \A x, p \in Conn : p \in view'[x] \/ Tells(inbox'[x], p) => Mentions(x, p)
      BY <1>2, <1>8 DEF Mentions
<1>10. DoorInv'
      BY <1>4, <1>5, <1>6, <1>7, <1>9, Steady
<1> QED BY <1>3, <1>8, <1>10

(* What a re-warm and a relayed signal do: a client is told something      *)
(* about admitted peers, or the frame is lost.  A client still at the gate *)
(* is told by a signal only, and that is remembered.                       *)
Signalled(to) == IF sock[to] = "open" /\ ~admitted[to] THEN early \cup {to} ELSE early
Telling(to, f) ==
    /\ f.kind # "left" /\ f.peers \subseteq Admitted
    /\ \/ UNCHANGED <<inbox, early>>
       \/ /\ inbox' = Deliver({to}, f)
          /\ early' = Signalled(to)
          /\ admitted[to] \/ f.kind = "signal"
    /\ rewarmed' \in SUBSET Conn /\ rewarmed \subseteq rewarmed'
    /\ f.kind = "list" => to \in rewarmed'
    /\ UNCHANGED <<serverVars, view, dials>>
    /\ sends < MaxSends /\ sends' = sends + 1

LEMMA AskedTells ==
    ASSUME DoorInv, NEW c \in Conn, Asked(c)
    PROVE  \E to \in Conn, f \in Frame : Telling(to, f)
<1>0. TypeOK
      BY DEF DoorInv
<1>1. CASE PeerListRequest(c)
  <2>1. Admitted \ {c} \in SUBSET Conn
        BY DEF Admitted, Connections
  <2>2. PeerList(Admitted \ {c}) \in Frame
        BY <2>1, FrameType
  <2>3. /\ PeerList(Admitted \ {c}).peers \subseteq Admitted
        /\ PeerList(Admitted \ {c}).kind # "left"
        BY DEF PeerList
  <2>4. /\ admitted[c]
        /\ inbox' = Deliver({c}, PeerList(Admitted \ {c}))
        /\ early' = early /\ rewarmed' = rewarmed \cup {c}
        /\ UNCHANGED <<serverVars, view, dials>>
        /\ sends < MaxSends /\ sends' = sends + 1
        BY <1>1 DEF PeerListRequest, Admitted
  <2>5. early' = Signalled(c)
        BY <2>4 DEF Signalled
  <2>6. rewarmed' \in SUBSET Conn
        BY <1>0, <2>4 DEF TypeOK
  <2>7. Telling(c, PeerList(Admitted \ {c}))
        BY <2>3, <2>4, <2>5, <2>6 DEF Telling
  <2> QED BY <2>2, <2>7
<1>2. CASE \E to \in Conn, metered \in BOOLEAN : RelaySignal(c, to, metered)
  <2>1. PICK to \in Conn, metered \in BOOLEAN : RelaySignal(c, to, metered)
        BY <1>2
  <2>2. /\ c \in Admitted
        /\ rewarmed' = rewarmed
        /\ UNCHANGED <<serverVars, view, dials>>
        /\ sends < MaxSends /\ sends' = sends + 1
        BY <2>1 DEF RelaySignal
  <2>3. \/ inbox' = inbox /\ early' = early
        \/ inbox' = Deliver({to}, Signal(c)) /\ early' = Signalled(to)
        BY <2>1 DEF RelaySignal, Signalled
  <2>4. Signal(c).kind = "signal" /\ Signal(c).peers \subseteq Admitted
        BY <2>2 DEF Signal
  <2>5. rewarmed' \in SUBSET Conn
        BY <1>0, <2>2 DEF TypeOK
  <2>6. Telling(to, Signal(c))
        BY <2>2, <2>3, <2>4, <2>5 DEF Telling
  <2>7. Signal(c) \in Frame
        BY FrameType
  <2> QED BY <2>6, <2>7
<1> QED BY <1>1, <1>2 DEF Asked

(* Where the frame goes. *)
LEMMA ToldFacts ==
    ASSUME TypeOK, NEW to \in Conn, NEW f \in Frame, Telling(to, f)
    PROVE  /\ inbox' \in [Conn -> Seq(Frame)]
           /\ early' \in SUBSET Conn /\ early \subseteq early'
           /\ \A x \in Conn :
                /\ x # to \/ admitted[x] => (x \in early' <=> x \in early)
                /\ inbox'[x] = inbox[x] \/
                     (/\ x = to /\ inbox'[x] = Append(inbox[x], f)
                      /\ admitted[x] \/ (f.kind = "signal" /\ x \in early'))
                /\ \A p : Tells(inbox'[x], p) =>
                             Tells(inbox[x], p) \/ (x = to /\ p \in f.peers)
<1>1. CASE inbox' = inbox /\ early' = early
      BY <1>1 DEF TypeOK
<1>2. CASE /\ inbox' = Deliver({to}, f) /\ early' = Signalled(to)
           /\ admitted[to] \/ f.kind = "signal"
  <2>1. {to} \in SUBSET Conn
        OBVIOUS
  <2>2. /\ inbox' \in [Conn -> Seq(Frame)]
        /\ \A x \in Conn :
             /\ inbox'[x] = IF x \in {to} /\ sock[x] = "open"
                            THEN Append(inbox[x], f) ELSE inbox[x]
             /\ \A p : Tells(inbox'[x], p) =>
                          Tells(inbox[x], p) \/ (x \in {to} /\ p \in f.peers)
        BY <1>2, <2>1, DeliverFacts
  <2>3. /\ early' \in SUBSET Conn /\ early \subseteq early'
        /\ \A x \in Conn : x # to \/ admitted[x] => (x \in early' <=> x \in early)
        /\ sock[to] = "open" /\ ~admitted[to] => to \in early'
        BY <1>2 DEF Signalled, TypeOK
  <2> QED BY <1>2, <2>2, <2>3
<1> QED BY <1>1, <1>2 DEF Telling

LEMMA RefreshInv ==
    ASSUME DoorInv, NEW to \in Conn, NEW f \in Frame, Telling(to, f)
    PROVE  DoorInv'
<1>0. TypeOK /\ Absent /\ Quiet
      BY DEF DoorInv
<1>1. /\ UNCHANGED <<sock, admitted, turnOnly, timer, release, view, dials>>
      /\ sends < MaxSends /\ sends' = sends + 1
      /\ f.peers \subseteq Admitted
      /\ rewarmed' \in SUBSET Conn
      BY DEF Telling, serverVars
<1>2. /\ inbox' \in [Conn -> Seq(Frame)]
      /\ early' \in SUBSET Conn /\ early \subseteq early'
      BY <1>0, ToldFacts
<1>3. \A x \in Conn :
         inbox'[x] = inbox[x] \/ admitted[x]
            \/ (/\ f.kind = "signal" /\ x \in early'
                /\ inbox'[x] = Append(inbox[x], f))
      BY <1>0, ToldFacts
<1>4. TypeOK'
  <2>1. sends' \in 0..MaxSends
        BY <1>0, <1>1, DoorAssumption DEF TypeOK
  <2> QED BY <1>0, <1>1, <1>2, <2>1 DEF TypeOK
<1>5. Absent'
      BY <1>0, <1>1 DEF Absent
<1>6. Quiet'
  <2> SUFFICES ASSUME NEW x \in Conn, ~admitted'[x] PROVE AtTheGate(x)'
      BY DEF Quiet
  <2>1. ~admitted[x] /\ AtTheGate(x)
        BY <1>0, <1>1 DEF Quiet
  <2>2. CASE inbox'[x] = inbox[x]
        BY <1>1, <1>2, <2>1, <2>2, GateKept
  <2>3. CASE f.kind = "signal" /\ x \in early' /\ inbox'[x] = Append(inbox[x], f)
    <3>1. inbox[x] \in Seq(Frame)
          BY <1>0 DEF TypeOK
    <3>2. GateOnly(inbox'[x])
          BY <2>1, <2>3, <3>1, GateOnlyAppend DEF AtTheGate
    <3> QED BY <1>1, <2>1, <2>3, <3>2 DEF AtTheGate
  <2> QED BY <1>3, <2>1, <2>2, <2>3
<1>8. ASSUME NEW x \in Conn, NEW p \in Conn, p \in view'[x] \/ Tells(inbox'[x], p)
      PROVE  Mentions(x, p) \/ admitted'[p] \/ sock'[p] = "gone"
  <2>1. Tells(inbox'[x], p) => Tells(inbox[x], p) \/ (x = to /\ p \in f.peers)
        BY <1>0, ToldFacts
  <2> QED BY <1>1, <1>8, <2>1 DEF Mentions, Admitted
<1>9. \A p \in Conn : admitted[p] \/ sock[p] = "gone" =>
                      admitted'[p] \/ sock'[p] = "gone"
      BY <1>1
<1> QED BY <1>4, <1>5, <1>6, <1>8, <1>9, Steady

LEMMA CloseEventInv ==
    ASSUME DoorInv, NEW c \in Conn, sock[c] # "idle", CloseEvent(c)
    PROVE  /\ DoorInv'
           /\ inbox'[c] = <<>>
           /\ \A x \in Conn : x # c =>
                inbox'[x] = IF x \in Admitted /\ sock[x] = "open"
                            THEN Append(inbox[x], Left(c)) ELSE inbox[x]
<1>0. TypeOK /\ Absent /\ Quiet
      BY DEF DoorInv
<1> DEFINE D == Deliver(Admitted, Left(c))
<1>1. Admitted \in SUBSET Conn /\ Left(c) \in Frame
      BY FrameType DEF Admitted, Connections
<1>2. /\ D \in [Conn -> Seq(Frame)]
      /\ \A x \in Conn :
           /\ D[x] = IF x \in Admitted /\ sock[x] = "open"
                     THEN Append(inbox[x], Left(c)) ELSE inbox[x]
           /\ \A p : Tells(D[x], p) =>
                        Tells(inbox[x], p) \/ (x \in Admitted /\ p \in Left(c).peers)
      BY <1>0, <1>1, DeliverFacts
<1>3. inbox' = [D EXCEPT ![c] = <<>>]
      BY DEF CloseEvent, Farewell
<1>4. inbox' \in [Conn -> Seq(Frame)]
      BY <1>2, <1>3
<1>5. TypeOK'
      BY <1>0, <1>4 DEF TypeOK, CloseEvent, SockState, TimerState
<1>6. Absent'
      BY <1>0 DEF Absent, CloseEvent, TypeOK
<1>7. Quiet'
  <2> SUFFICES ASSUME NEW x \in Conn, ~admitted'[x] PROVE AtTheGate(x)'
      BY DEF Quiet
  <2>1. CASE x = c
    <3>1. inbox'[c] = <<>> /\ view'[c] = {} /\ dials'[c] = {}
          BY <1>0, <1>2, <1>3 DEF CloseEvent, TypeOK
    <3>2. GateOnly(<<>>) /\ \A p \in Conn : ~Tells(<<>>, p)
          BY DEF GateOnly, Tells
    <3> QED BY <2>1, <3>1, <3>2 DEF AtTheGate, Mentions
  <2>2. CASE x # c
    <3>1. ~admitted[x] /\ view'[x] = view[x] /\ dials'[x] = dials[x]
          BY <1>0, <2>2 DEF CloseEvent, TypeOK
    <3>2. inbox'[x] = inbox[x]
          BY <1>2, <1>3, <2>2, <3>1 DEF Admitted
    <3>3. x \in early => x \in early'
          BY <2>2 DEF CloseEvent
    <3>4. AtTheGate(x)
          BY <1>0, <3>1 DEF Quiet
    <3> QED BY <3>1, <3>2, <3>3, <3>4, GateKept
  <2> QED BY <2>1, <2>2
<1>8. /\ sock'[c] = "gone"
      /\ \A p \in Conn : admitted[p] \/ sock[p] = "gone" =>
                         admitted'[p] \/ sock'[p] = "gone"
      BY <1>0 DEF TypeOK, CloseEvent
<1>9. ASSUME NEW x \in Conn, NEW p \in Conn, p \in view'[x] \/ Tells(inbox'[x], p)
      PROVE  Mentions(x, p) \/ admitted'[p] \/ sock'[p] = "gone"
  <2>1. ~Tells(<<>>, p)
        BY DEF Tells
  <2>2. CASE x = c
        BY <1>0, <1>2, <1>3, <1>9, <2>1, <2>2 DEF CloseEvent, TypeOK
  <2>3. CASE x # c
    <3>1. view'[x] = view[x] /\ inbox'[x] = D[x]
          BY <1>0, <1>2, <1>3, <2>3 DEF CloseEvent, TypeOK
    <3>2. p \in Left(c).peers => p = c
          BY DEF Left
    <3> QED BY <1>2, <1>8, <1>9, <2>3, <3>1, <3>2 DEF Mentions
  <2> QED BY <2>2, <2>3
<1>10. DoorInv'
      BY <1>5, <1>6, <1>7, <1>8, <1>9, Steady
<1> QED BY <1>2, <1>3, <1>10

LEMMA ClientReadInv ==
    ASSUME DoorInv, NEW c \in Conn, ClientRead(c)
    PROVE  DoorInv'
<1>0. TypeOK /\ Absent /\ Quiet
      BY DEF DoorInv
<1> DEFINE f == Head(inbox[c])
<1>1. /\ inbox[c] \in Seq(Frame) /\ inbox[c] # <<>> /\ f \in Frame
      /\ Tail(inbox[c]) \in Seq(Frame)
  <2>1. inbox[c] \in Seq(Frame) /\ inbox[c] # <<>>
        BY <1>0 DEF ClientRead, TypeOK
  <2> QED BY <2>1
<1>2. f.peers \in SUBSET Conn
      BY <1>1 DEF Frame
<1>3. TypeOK'
  <2>1. UNCHANGED <<serverVars, sends>> /\ inbox' = [inbox EXCEPT ![c] = Tail(@)]
        BY DEF ClientRead
  <2>2. inbox' \in [Conn -> Seq(Frame)]
        BY <1>0, <1>1, <2>1 DEF TypeOK
  <2>3. view' = [view EXCEPT ![c] = IF f.kind = "left" THEN @ \ f.peers
                                                       ELSE @ \cup f.peers]
        BY DEF ClientRead
  <2>4. view' \in [Conn -> SUBSET Conn]
        BY <1>0, <1>2, <2>3 DEF TypeOK
  <2>5. dials' = [dials EXCEPT ![c] =
                        CASE f.kind = "left" -> @ \ f.peers
                          [] f.kind = "list" -> @ \cup f.peers
                          [] OTHER -> @]
        BY DEF ClientRead
  <2>6. dials' \in [Conn -> SUBSET Conn]
        BY <1>0, <1>2, <2>5 DEF TypeOK
  <2> QED BY <1>0, <2>1, <2>2, <2>4, <2>6 DEF TypeOK, serverVars, ClientRead
<1>4. Absent'
      BY <1>0 DEF Absent, ClientRead, serverVars
<1>7. \A p \in Conn : admitted[p] \/ sock[p] = "gone" =>
                      admitted'[p] \/ sock'[p] = "gone"
      BY DEF ClientRead, serverVars
<1>8. ASSUME NEW x \in Conn, NEW p \in Conn, p \in view'[x] \/ Tells(inbox'[x], p)
      PROVE  Mentions(x, p)
  <2>1. CASE x # c
        BY <1>0, <1>8, <2>1 DEF ClientRead, TypeOK, Mentions
  <2>2. CASE x = c
    <3>1. /\ inbox'[c] = Tail(inbox[c])
          /\ p \in view'[c] => p \in view[c] \/ p \in f.peers
          BY <1>0 DEF ClientRead, TypeOK
    <3> QED BY <1>1, <1>8, <2>2, <3>1, TellsTail DEF Mentions
  <2> QED BY <2>1, <2>2
<1>9. Quiet'
  <2> SUFFICES ASSUME NEW x \in Conn, ~admitted'[x] PROVE AtTheGate(x)'
      BY DEF Quiet
  <2>1. UNCHANGED <<admitted, early>>
        BY DEF ClientRead, serverVars
  <2>2. AtTheGate(x)
        BY <1>0, <2>1 DEF Quiet
  <2>3. CASE x # c
    <3>1. inbox'[x] = inbox[x] /\ view'[x] = view[x] /\ dials'[x] = dials[x]
          BY <1>0, <2>3 DEF ClientRead, TypeOK
    <3> QED BY <2>1, <2>2, <3>1, GateKept
  <2>4. CASE x = c
    <3>1. GateOnly(Tail(inbox[c])) /\ f.kind \in {"gate", "signal"}
          BY <1>1, <2>2, <2>4, GateOnlyTail DEF AtTheGate
    <3>2. inbox'[c] = Tail(inbox[c])
          BY <1>0 DEF ClientRead, TypeOK
    <3>3. dials'[c] = {}
          BY <1>0, <2>2, <2>4, <3>1 DEF ClientRead, TypeOK, AtTheGate
    <3> QED BY <1>8, <2>1, <2>2, <2>4, <3>1, <3>2, <3>3 DEF AtTheGate, Mentions
  <2> QED BY <2>3, <2>4
<1> QED BY <1>3, <1>4, <1>7, <1>8, <1>9, Steady

LEMMA InitInv == Init => DoorInv
<1> SUFFICES ASSUME Init PROVE DoorInv
    OBVIOUS
<1>1. TypeOK
      BY DoorAssumption DEF Init, TypeOK, SockState, TimerState
<1>2. \A x, p \in Conn : ~Mentions(x, p)
      BY DEF Init, Mentions, Tells
<1>3. Absent /\ Quiet
      BY <1>2 DEF Init, Absent, Quiet, AtTheGate, GateOnly
<1> QED BY <1>1, <1>2, <1>3 DEF DoorInv, NamedWereAdmitted

LEMMA NextInv == DoorInv /\ [Next]_vars => DoorInv'
<1> SUFFICES ASSUME DoorInv, [Next]_vars PROVE DoorInv'
    OBVIOUS
<1>1. CASE UNCHANGED vars
  <2>1. TypeOK' /\ Absent' /\ Quiet'
        BY <1>1 DEF vars, serverVars, clientVars, DoorInv, TypeOK, Absent, Quiet,
                    AtTheGate, Mentions
  <2>2. \A x, p \in Conn : p \in view'[x] \/ Tells(inbox'[x], p) => Mentions(x, p)
        BY <1>1 DEF vars, clientVars, Mentions
  <2>3. UNCHANGED <<admitted, sock>>
        BY <1>1 DEF vars, serverVars
  <2> QED BY <2>1, <2>2, <2>3, Steady
<1>2. CASE Next
  <2>0. PICK c \in Conn : Handler(c)
        BY <1>2, NextCases
  <2>1. CASE Silent(c)
        BY <2>1, SilentSteps
  <2>2. CASE Admit(c)
        BY <2>2, AdmitInv DEF Admit, Announcement
  <2>3. CASE AdmitTurnRefresh(c)
        BY <2>3, TurnRefreshInv
  <2>4. CASE Asked(c)
    <3>1. PICK to \in Conn, f \in Frame : Telling(to, f)
          BY <2>4, AskedTells
    <3> QED BY <3>1, RefreshInv
  <2>5. CASE CloseEnds(c)
        BY <2>5, CloseEventInv DEF CloseEnds, Drop, CloseCompletes
  <2>6. CASE ClientRead(c)
        BY <2>6, ClientReadInv
  <2>7. CASE Connect(c)
        BY <2>7, ConnectSteps
  <2> QED BY <2>0, <2>1, <2>2, <2>3, <2>4, <2>5, <2>6, <2>7 DEF Handler
<1> QED BY <1>1, <1>2

(* DoorInv holds of every behaviour of the door. *)
THEOREM DoorInvariance == Spec => []DoorInv
BY InitInv, NextInv, PTL DEF Spec

(* The handlers keep every variable in its type. *)
THEOREM TypeCorrect == Spec => []TypeOK
<1>1. DoorInv => TypeOK
      BY DEF DoorInv
<1> QED BY <1>1, DoorInvariance, PTL

(* Before the version gate a connection takes no part in the introductions *)
(* of the others, in whatever order frames are sent and read: what it is   *)
(* sent is the gate's own frame and the signals of peers that address it,  *)
(* and nobody will have heard of it.                                       *)
THEOREM GateApart == Spec => []GateKeepsApart
<1>1. DoorInv => GateKeepsApart
  <2> SUFFICES ASSUME DoorInv, NEW c \in Conn, sock[c] # "gone", ~admitted[c]
               PROVE  /\ \A i \in DOMAIN inbox[c] : inbox[c][i].kind \in {"gate", "signal"}
                      /\ dials[c] = {}
                      /\ \A x \in Conn : ~WillKnow(x, c)
      BY DEF GateKeepsApart
  <2>1. AtTheGate(c)
        BY DEF DoorInv, Quiet
  <2>2. \A x \in Conn : ~Mentions(x, c)
        BY DEF DoorInv, NamedWereAdmitted
  <2>3. ASSUME NEW x \in Conn PROVE ~Knows(inbox[x], view[x], c)
    <3>1. c \notin view[x] /\ ~Tells(inbox[x], c)
          BY <2>2 DEF Mentions
    <3>2. Knows(inbox[x], view[x], c) => FALSE
          BY <3>1, KnowsIsTold
    <3> QED BY <3>2
  <2> QED BY <2>1, <2>3 DEF WillKnow, AtTheGate, GateOnly
<1> QED BY <1>1, DoorInvariance, PTL

-----------------------------------------------------------------------------
(* The door implements the presence service.                               *)

(* What x believes of another, as far as it counts. *)
Counts(x, p) == /\ p # x
                /\ Knows(inbox[x], view[x], p)
                /\ x \in early => p \in Admitted

(* The mapping, and its value after a step. *)
LEMMA Mapping ==
    /\ Admitted = {x \in Conn : sock[x] \in {"open", "closing"} /\ admitted[x]}
    /\ Admitted' = {x \in Conn : sock'[x] \in {"open", "closing"} /\ admitted'[x]}
    /\ Watchers = {x \in Conn : sock[x] = "open" /\ admitted[x]}
    /\ Watchers' = {x \in Conn : sock'[x] = "open" /\ admitted'[x]}
    /\ Known = [x \in Conn |-> Known[x]]
    /\ Known' = [x \in Conn |-> Known'[x]]
BY DEF Admitted, Connections, Watchers, Known, Hears

(* Who is known, and who will be. *)
LEMMA KnownOf ==
    ASSUME NEW x \in Conn
    PROVE  /\ Known[x] = IF x \in Watchers THEN {p \in Conn : Counts(x, p)} ELSE {}
           /\ Known'[x] = IF x \in Watchers' THEN {p \in Conn : Counts(x, p)'} ELSE {}
<1>1. Known[x] = IF x \in Watchers THEN {p \in Conn : Counts(x, p)} ELSE {}
      BY DEF Known, Watchers, WillKnow, Counts
<1>2. Known'[x] = IF x \in Watchers' THEN {p \in Conn : Counts(x, p)'} ELSE {}
      BY DEF Known, Watchers, WillKnow, Counts
<1> QED BY <1>1, <1>2

(* A client to which nothing happens knows what it knew, as long as those  *)
(* who come or go are strangers to it.                                     *)
LEMMA SameKnown ==
    ASSUME NEW x \in Conn, x \in Watchers' <=> x \in Watchers,
           x \in Watchers => /\ x \in early' <=> x \in early
                            /\ \A p \in Conn :
                                  /\ Knows(inbox'[x], view'[x], p) <=>
                                        Knows(inbox[x], view[x], p)
                                  /\ Knows(inbox[x], view[x], p) =>
                                        (p \in Admitted' <=> p \in Admitted)
    PROVE  Known'[x] = Known[x]
<1>1. CASE x \in Watchers
  <2>1. \A p \in Conn : Counts(x, p)' <=> Counts(x, p)
        BY <1>1 DEF Counts
  <2> QED BY <1>1, <2>1, KnownOf
<1>2. CASE x \notin Watchers
      BY <1>2, KnownOf
<1> QED BY <1>1, <1>2

(* A handler that says nothing closes at most a socket, whose client then  *)
(* stops watching.                                                         *)
LEMMA SilentMaps ==
    ASSUME DoorInv, NEW c \in Conn,
           Silent(c)
    PROVE  Presence!Fade(c) \/ UNCHANGED <<Admitted, Watchers, Known>>
<1>0. TypeOK /\ TypeOK' /\ Absent
      BY SilentSteps DEF DoorInv
<1>1. /\ UNCHANGED <<inbox, view, early, admitted>>
      /\ \A x \in Conn : /\ x # c => sock'[x] = sock[x]
                         /\ sock[x] = "gone" <=> sock'[x] = "gone"
                         /\ sock[x] = "idle" <=> sock'[x] = "idle"
                         /\ sock'[x] = "open" => sock[x] = "open"
      BY SilentSteps DEF clientVars
<1>2. \A x \in Conn : sock[x] \in SockState /\ sock'[x] \in SockState
      BY <1>0 DEF TypeOK
<1>3. Admitted' = Admitted
      BY <1>1, <1>2, Mapping DEF SockState
<1>4. \A x \in Conn : x # c => (x \in Watchers' <=> x \in Watchers)
      BY <1>1, Mapping
<1>5. c \in Watchers' => c \in Watchers
      BY <1>1, Mapping
<1>6. \A x \in Conn : (x \in Watchers' <=> x \in Watchers) => Known'[x] = Known[x]
      BY <1>1, <1>3, SameKnown
<1>7. CASE c \in Watchers <=> c \in Watchers'
  <2>1. Known' = Known
        BY <1>4, <1>6, <1>7, Mapping
  <2>2. Watchers' = Watchers
        BY <1>4, <1>7, Mapping
  <2> QED BY <1>3, <2>1, <2>2
<1>8. CASE c \in Watchers /\ c \notin Watchers'
  <2>1. Watchers' = Watchers \ {c}
        BY <1>4, <1>8, Mapping
  <2>2. Known'[c] = {}
        BY <1>8, KnownOf
  <2>3. \A x \in Conn : x # c => Known'[x] = Known[x]
        BY <1>4, <1>6
  <2>4. Known' = [Known EXCEPT ![c] = {}]
        BY <2>2, <2>3, Mapping
  <2> QED BY <1>3, <1>8, <2>1, <2>4 DEF Presence!Fade
<1> QED BY <1>5, <1>7, <1>8

(* A new connection is not present yet. *)
LEMMA ConnectMaps ==
    ASSUME DoorInv, NEW c \in Conn, Connect(c)
    PROVE  UNCHANGED <<Admitted, Watchers, Known>>
<1>1. /\ UNCHANGED <<admitted, view, early>>
      /\ ~admitted[c]
      /\ \A x \in Conn : x # c => sock'[x] = sock[x] /\ inbox'[x] = inbox[x]
      BY ConnectSteps DEF clientVars
<1>2. Admitted' = Admitted /\ Watchers' = Watchers
      BY <1>1, Mapping
<1>3. c \notin Watchers
      BY <1>1, Mapping
<1>4. \A x \in Conn : Known'[x] = Known[x]
      BY <1>1, <1>2, <1>3, SameKnown
<1>5. Known' = Known
      BY <1>4, Mapping
<1> QED BY <1>2, <1>5

(* Nobody knows of a connection at the gate. *)
LEMMA Unheard ==
    ASSUME DoorInv, NEW c \in Conn, ~admitted[c], sock[c] # "gone"
    PROVE  \A x \in Conn : ~Knows(inbox[x], view[x], c)
<1>1. \A x \in Conn : c \notin view[x] /\ ~Tells(inbox[x], c)
      BY DEF DoorInv, NamedWereAdmitted, Mentions
<1> QED BY <1>1, KnowsUntold

(* What a newcomer counts on was on its list, or signalled it at the gate  *)
(* and is still here.                                                      *)
LEMMA NewcomerKnows ==
    ASSUME DoorInv, NEW c \in Conn, NEW turn \in BOOLEAN, PassGate(c, turn),
           Admitted' = Admitted \cup {c},
           NEW L \in SUBSET Admitted,
           \A p \in Conn : Tells(inbox'[c], p) => Tells(inbox[c], p) \/ p \in L
    PROVE  Known'[c] \subseteq Admitted
<1>1. AtTheGate(c) /\ UNCHANGED <<view, early>>
      BY GateFacts
<1> SUFFICES ASSUME NEW p \in Known'[c] PROVE p \in Admitted
    OBVIOUS
<1>2. p \in Conn /\ Counts(c, p)'
      BY KnownOf
<1>3. /\ p # c
      /\ Knows(inbox'[c], view'[c], p)
      /\ c \in early' => p \in Admitted'
      BY <1>2 DEF Counts
<1>4. CASE c \in early
      BY <1>1, <1>3, <1>4
<1>5. CASE c \notin early
  <2>1. p \notin view[c] /\ ~Tells(inbox[c], p)
        BY <1>1, <1>2, <1>5 DEF AtTheGate, Mentions
  <2>2. p \in view'[c] \/ Tells(inbox'[c], p)
        BY <1>3, KnowsIsTold
  <2> QED BY <1>1, <1>2, <2>1, <2>2
<1> QED BY <1>4, <1>5

(* A newcomer's admission is its arrival. *)
LEMMA AdmitMaps ==
    ASSUME DoorInv, NEW c \in Conn, Admit(c)
    PROVE  \E watches \in BOOLEAN, L \in SUBSET Conn :
              Presence!Arrive(c, TRUE, watches, L)
<1>0. TypeOK
      BY DEF DoorInv
<1>1. PICK L \in SUBSET Conn :
        /\ PassGate(c, FALSE) /\ UNCHANGED release /\ IntroList(c, L)
        /\ inbox' = [Deliver(Admitted, Joined(c)) EXCEPT ![c] =
                        IF sock[c] = "open"
                        THEN Append(Append(@, Welcome), PeerList(L)) ELSE @]
      BY DEF Admit, Announcement
<1>2. /\ sock[c] \in {"open", "closing"} /\ ~admitted[c]
      /\ inbox[c] \in Seq(Frame)
      /\ admitted' = [admitted EXCEPT ![c] = TRUE]
      /\ UNCHANGED <<sock, view, early>>
      /\ c \notin Admitted
      BY <1>1, GateFacts
<1>3. /\ L \subseteq Admitted
      /\ inbox'[c] = IF sock[c] = "open" THEN Intro(inbox[c], L) ELSE inbox[c]
      /\ \A x \in Conn : x # c =>
           inbox'[x] = IF x \in Admitted /\ sock[x] = "open"
                       THEN Append(inbox[x], Joined(c)) ELSE inbox[x]
      BY <1>1, AdmitInv
<1>4. Admitted' = Admitted \cup {c}
      BY <1>0, <1>2, Mapping DEF TypeOK
<1>5. Watchers' = IF sock[c] = "open" THEN Watchers \cup {c} ELSE Watchers
      BY <1>0, <1>2, Mapping DEF TypeOK
<1>6. /\ Known'[c] \subseteq Admitted
      /\ sock[c] # "open" => Known'[c] = {}
  <2>1. \A p \in Conn : Tells(inbox'[c], p) => Tells(inbox[c], p) \/ p \in L
        BY <1>2, <1>3, IntroFrames
  <2>2. Known'[c] \subseteq Admitted
        BY <1>1, <1>3, <1>4, <2>1, NewcomerKnows
  <2>3. sock[c] # "open" => c \notin Watchers'
        BY <1>2, Mapping
  <2> QED BY <2>2, <2>3, KnownOf
<1>7. ASSUME NEW x \in Conn, x # c
      PROVE  Known'[x] = IF x \in Watchers THEN Known[x] \cup {c} ELSE Known[x]
  <2>1. CASE x \in Watchers
    <3>1. inbox[x] \in Seq(Frame) /\ Joined(c) \in Frame
          BY <1>0, FrameType DEF TypeOK
    <3>2. inbox'[x] = Append(inbox[x], Joined(c)) /\ view'[x] = view[x]
          BY <1>2, <1>3, <1>7, <2>1, Mapping
    <3>3. Joined(c).peers = {c} /\ Joined(c).kind # "left"
          BY DEF Joined
    <3>4. \A p \in Conn : Knows(inbox'[x], view'[x], p) <=>
                              p = c \/ Knows(inbox[x], view[x], p)
          BY <3>1, <3>2, <3>3, KnowsAppend
    <3>5. x \in Watchers'
          BY <1>5, <2>1
    <3>6. \A p \in Conn : Counts(x, p)' <=> p = c \/ Counts(x, p)
          BY <1>2, <1>4, <1>7, <3>4 DEF Counts
    <3> QED BY <2>1, <3>5, <3>6, KnownOf
  <2>2. CASE x \notin Watchers
    <3>1. x \notin Watchers'
          BY <1>5, <1>7, <2>2
    <3> QED BY <2>2, <3>1, KnownOf
  <2> QED BY <2>1, <2>2
<1>8. Known' = [x \in Conn |->
                   IF x = c THEN (IF sock[c] = "open" THEN Known'[c] ELSE {})
                   ELSE IF TRUE /\ x \in Watchers THEN Known[x] \cup {c}
                   ELSE Known[x]]
      BY <1>6, <1>7, Mapping
<1>9. Presence!Arrive(c, TRUE, sock[c] = "open", Known'[c])
      BY <1>2, <1>4, <1>5, <1>6, <1>8 DEF Presence!Arrive
<1>10. (sock[c] = "open") \in BOOLEAN /\ Known'[c] \in SUBSET Conn
       BY <1>6, Mapping
<1> QED BY <1>9, <1>10, Zenon

(* A credential-only admission is an arrival nobody hears of. *)
LEMMA TurnRefreshMaps ==
    ASSUME DoorInv, NEW c \in Conn, AdmitTurnRefresh(c)
    PROVE  \E watches \in BOOLEAN, L \in SUBSET Conn :
              Presence!Arrive(c, FALSE, watches, L)
<1>0. TypeOK
      BY DEF DoorInv
<1>1. /\ PassGate(c, TRUE)
      /\ sock[c] \in {"open", "closing"} /\ ~admitted[c]
      /\ admitted' = [admitted EXCEPT ![c] = TRUE]
      /\ UNCHANGED <<sock, view, early>>
      /\ c \notin Admitted
      BY GateFacts DEF AdmitTurnRefresh
<1>2. /\ \A x \in Conn : x # c => inbox'[x] = inbox[x]
      /\ \A p \in Conn : Tells(inbox'[c], p) => Tells(inbox[c], p)
      BY TurnRefreshInv
<1>3. Admitted' = Admitted \cup {c}
      BY <1>0, <1>1, Mapping DEF TypeOK
<1>4. Watchers' = IF sock[c] = "open" THEN Watchers \cup {c} ELSE Watchers
      BY <1>0, <1>1, Mapping DEF TypeOK
<1>5. /\ Known'[c] \subseteq Admitted
      /\ sock[c] # "open" => Known'[c] = {}
  <2>1. {} \in SUBSET Admitted
        OBVIOUS
  <2>2. Known'[c] \subseteq Admitted
        BY <1>1, <1>2, <1>3, <2>1, NewcomerKnows
  <2>3. sock[c] # "open" => c \notin Watchers'
        BY <1>1, Mapping
  <2> QED BY <2>2, <2>3, KnownOf
<1>6. ASSUME NEW x \in Conn, x # c
      PROVE  Known'[x] = Known[x]
  <2>1. ~Knows(inbox[x], view[x], c)
        BY <1>1, Unheard
  <2>2. x \in Watchers' <=> x \in Watchers
        BY <1>4, <1>6
  <2>3. inbox'[x] = inbox[x] /\ UNCHANGED <<view, early>>
        BY <1>1, <1>2, <1>6
  <2>4. \A p \in Conn : Knows(inbox[x], view[x], p) => (p \in Admitted' <=> p \in Admitted)
        BY <1>3, <2>1
  <2> QED BY <2>2, <2>3, <2>4, SameKnown
<1>7. Known' = [x \in Conn |->
                   IF x = c THEN (IF sock[c] = "open" THEN Known'[c] ELSE {})
                   ELSE IF FALSE /\ x \in Watchers THEN Known[x] \cup {c}
                   ELSE Known[x]]
      BY <1>5, <1>6, Mapping
<1>8. Presence!Arrive(c, FALSE, sock[c] = "open", Known'[c])
      BY <1>1, <1>3, <1>4, <1>5, <1>7 DEF Presence!Arrive
<1>9. (sock[c] = "open") \in BOOLEAN /\ Known'[c] \in SUBSET Conn
      BY <1>5, Mapping
<1> QED BY <1>8, <1>9, Zenon

(* A list or a signal refreshes an open client, and is lost on the way to  *)
(* one whose socket is being closed.  One at the gate is not watching.     *)
LEMMA RefreshMaps ==
    ASSUME DoorInv, NEW to \in Conn, NEW f \in Frame, Telling(to, f)
    PROVE  \/ Presence!Refresh(to, f.peers \ {to})
           \/ UNCHANGED <<Admitted, Watchers, Known>>
<1>0. TypeOK
      BY DEF DoorInv
<1>1. f.kind # "left" /\ f.peers \subseteq Admitted /\ f.peers \subseteq Conn
      BY DEF Telling, Frame
<1>2. \A x \in Conn : /\ inbox[x] \in Seq(Frame)
                      /\ x # to => inbox'[x] = inbox[x]
                      /\ inbox'[x] = inbox[x] \/ inbox'[x] = Append(inbox[x], f)
                      /\ admitted[x] => (x \in early' <=> x \in early)
      BY <1>0, ToldFacts DEF TypeOK
<1>3. UNCHANGED <<sock, admitted, view>>
      BY DEF Telling, serverVars
<1>4. Admitted' = Admitted /\ Watchers' = Watchers
      BY <1>3, Mapping
<1>5. \A x \in Conn : x \in Watchers => (x \in early' <=> x \in early)
      BY <1>2, Mapping
<1>6. \A x \in Conn : inbox'[x] = inbox[x] \/ x \notin Watchers => Known'[x] = Known[x]
      BY <1>3, <1>4, <1>5, SameKnown
<1>7. CASE to \in Watchers /\ inbox'[to] = Append(inbox[to], f)
  <2>1. \A p \in Conn : Knows(inbox'[to], view'[to], p) <=>
                            p \in f.peers \/ Knows(inbox[to], view[to], p)
        BY <1>1, <1>2, <1>3, <1>7, KnowsAppend
  <2>2. \A p \in Conn : Counts(to, p)' <=> (p # to /\ p \in f.peers) \/ Counts(to, p)
        BY <1>1, <1>4, <1>5, <1>7, <2>1 DEF Counts
  <2>3. Known'[to] = Known[to] \cup (f.peers \ {to})
        BY <1>1, <1>4, <1>7, <2>2, KnownOf
  <2>4. \A x \in Conn : x # to => Known'[x] = Known[x]
        BY <1>2, <1>6
  <2>5. Known' = [Known EXCEPT ![to] = @ \cup (f.peers \ {to})]
        BY <2>3, <2>4, Mapping
  <2> QED BY <1>1, <1>4, <1>7, <2>5 DEF Presence!Refresh
<1>8. CASE to \notin Watchers \/ inbox'[to] = inbox[to]
  <2>1. \A x \in Conn : Known'[x] = Known[x]
        BY <1>2, <1>6, <1>8
  <2>2. Known' = Known
        BY <2>1, Mapping
  <2> QED BY <1>4, <2>2
<1> QED BY <1>2, <1>7, <1>8

(* The 'close' event of an admitted connection is its departure; that of   *)
(* one never admitted tells the others of a name they do not know.         *)
LEMMA CloseEventMaps ==
    ASSUME DoorInv, NEW c \in Conn, sock[c] \in {"open", "closing"}, CloseEvent(c)
    PROVE  Presence!Leave(c) \/ UNCHANGED <<Admitted, Watchers, Known>>
<1>0. TypeOK
      BY DEF DoorInv
<1>1. /\ sock' = [sock EXCEPT ![c] = "gone"]
      /\ admitted' = [admitted EXCEPT ![c] = FALSE]
      /\ view' = [view EXCEPT ![c] = {}]
      /\ early' = early \ {c}
      BY DEF CloseEvent
<1>2. \A x \in Conn : x # c =>
         inbox'[x] = IF x \in Admitted /\ sock[x] = "open"
                     THEN Append(inbox[x], Left(c)) ELSE inbox[x]
      BY CloseEventInv
<1>3. Admitted' = Admitted \ {c} /\ Watchers' = Watchers \ {c}
      BY <1>0, <1>1, Mapping DEF TypeOK
<1>4. Known'[c] = {}
      BY <1>3, KnownOf
<1>5. ASSUME NEW x \in Conn, x # c
      PROVE  Known'[x] = Known[x] \ {c}
  <2>1. CASE x \in Watchers
    <3>1. inbox[x] \in Seq(Frame) /\ Left(c) \in Frame
          BY <1>0, FrameType DEF TypeOK
    <3>2. inbox'[x] = Append(inbox[x], Left(c)) /\ view'[x] = view[x]
          BY <1>0, <1>1, <1>2, <1>5, <2>1, Mapping DEF TypeOK
    <3>3. Left(c).peers = {c} /\ Left(c).kind = "left"
          BY DEF Left
    <3>4. \A p \in Conn : Knows(inbox'[x], view'[x], p) <=>
                              p # c /\ Knows(inbox[x], view[x], p)
          BY <3>1, <3>2, <3>3, KnowsAppend
    <3>5. x \in Watchers'
          BY <1>3, <1>5, <2>1
    <3>6. \A p \in Conn : Counts(x, p)' <=> p # c /\ Counts(x, p)
          BY <1>1, <1>3, <1>5, <3>4 DEF Counts
    <3> QED BY <2>1, <3>5, <3>6, KnownOf
  <2>2. CASE x \notin Watchers
    <3>1. x \notin Watchers'
          BY <1>3, <2>2
    <3> QED BY <2>2, <3>1, KnownOf
  <2> QED BY <2>1, <2>2
<1>6. Known' = [x \in Conn |-> IF x = c THEN {} ELSE Known[x] \ {c}]
      BY <1>4, <1>5, Mapping
<1>7. CASE admitted[c]
  <2>1. c \in Admitted
        BY <1>7, Mapping
  <2> QED BY <1>3, <1>6, <2>1 DEF Presence!Leave
<1>8. CASE ~admitted[c]
  <2>1. c \notin Admitted /\ c \notin Watchers
        BY <1>8, Mapping
  <2>2. Known[c] = {}
        BY <2>1, KnownOf
  <2>3. ASSUME NEW x \in Conn PROVE c \notin Known[x]
    <3>1. ~Knows(inbox[x], view[x], c)
          BY <1>8, Unheard
    <3> QED BY <3>1, KnownOf DEF Counts
  <2>4. \A x \in Conn : Known'[x] = Known[x]
        BY <1>6, <2>2, <2>3
  <2>5. Known' = Known
        BY <2>4, Mapping
  <2> QED BY <1>3, <2>1, <2>5
<1> QED BY <1>7, <1>8

(* Reading a frame changes nothing of what the client will know. *)
LEMMA ClientReadMaps ==
    ASSUME DoorInv, NEW c \in Conn, ClientRead(c)
    PROVE  UNCHANGED <<Admitted, Watchers, Known>>
<1>0. TypeOK
      BY DEF DoorInv
<1> DEFINE f == Head(inbox[c])
<1>1. /\ inbox[c] \in Seq(Frame) /\ inbox[c] # <<>>
      /\ inbox' = [inbox EXCEPT ![c] = Tail(@)]
      /\ view' = [view EXCEPT ![c] = IF f.kind = "left" THEN @ \ f.peers
                                                       ELSE @ \cup f.peers]
      /\ UNCHANGED <<sock, admitted, early>>
      BY <1>0 DEF ClientRead, serverVars, TypeOK
<1>2. /\ inbox'[c] = Tail(inbox[c])
      /\ view'[c] = IF f.kind = "left" THEN view[c] \ f.peers
                                       ELSE view[c] \cup f.peers
      BY <1>0, <1>1 DEF TypeOK
<1>3. ASSUME NEW p \in Conn
      PROVE  Knows(inbox'[c], view'[c], p) <=> Knows(inbox[c], view[c], p)
  <2> DEFINE w == IF f.kind = "left" THEN view[c] \ f.peers
                                     ELSE view[c] \cup f.peers
  <2>1. Knows(inbox[c], view[c], p) <=> Knows(Tail(inbox[c]), w, p)
        BY <1>1, KnowsTail
  <2>2. inbox'[c] = Tail(inbox[c]) /\ view'[c] = w
        BY <1>2
  <2> HIDE DEF w
  <2> QED BY <2>1, <2>2
<1>4. \A x \in Conn : x # c => inbox'[x] = inbox[x] /\ view'[x] = view[x]
      BY <1>0, <1>1 DEF TypeOK
<1>5. Admitted' = Admitted /\ Watchers' = Watchers
      BY <1>1, Mapping
<1>6. \A x, p \in Conn : Knows(inbox'[x], view'[x], p) <=> Knows(inbox[x], view[x], p)
      BY <1>3, <1>4
<1>7. \A x \in Conn : Known'[x] = Known[x]
      BY <1>1, <1>5, <1>6, SameKnown
<1> QED BY <1>5, <1>7, Mapping

LEMMA InitMaps == Init => Presence!PInit
<1> SUFFICES ASSUME Init PROVE Presence!PInit
    OBVIOUS
<1>1. \A x \in Conn : sock[x] = "idle"
      BY DEF Init
<1>2. Admitted = {} /\ Watchers = {}
      BY <1>1, Mapping
<1>3. Known = [x \in Conn |-> {}]
      BY <1>2, KnownOf, Mapping
<1> QED BY <1>2, <1>3 DEF Presence!PInit

(* Each step of the door is a step of the presence service or a stutter. *)
LEMMA NextMaps == DoorInv /\ [Next]_vars => [Presence!PNext]_(Presence!pvars)
<1> SUFFICES ASSUME DoorInv, [Next]_vars
             PROVE  Presence!PNext \/ UNCHANGED <<Admitted, Watchers, Known>>
    BY DEF Presence!pvars
<1>1. CASE UNCHANGED vars
  <2>1. UNCHANGED <<sock, admitted, inbox, view, early>>
        BY <1>1 DEF vars, serverVars, clientVars
  <2> QED BY <2>1 DEF Admitted, Connections, Watchers, Known, Hears, WillKnow
<1>2. CASE Next
  <2>0. PICK c \in Conn : Handler(c)
        BY <1>2, NextCases
  <2>1. CASE Silent(c)
        BY <2>1, SilentMaps DEF Presence!PNext
  <2>2. CASE Admit(c)
    <3>1. PICK watches \in BOOLEAN, L \in SUBSET Conn :
                 Presence!Arrive(c, TRUE, watches, L)
          BY <2>2, AdmitMaps
    <3> QED BY <3>1, Zenon DEF Presence!PNext
  <2>3. CASE AdmitTurnRefresh(c)
    <3>1. PICK watches \in BOOLEAN, L \in SUBSET Conn :
                 Presence!Arrive(c, FALSE, watches, L)
          BY <2>3, TurnRefreshMaps
    <3> QED BY <3>1, Zenon DEF Presence!PNext
  <2>4. CASE Asked(c)
    <3>1. PICK to \in Conn, f \in Frame : Telling(to, f)
          BY <2>4, AskedTells
    <3>2. f.peers \ {to} \in SUBSET Conn
          BY DEF Frame
    <3>3. Presence!Refresh(to, f.peers \ {to}) \/ UNCHANGED <<Admitted, Watchers, Known>>
          BY <3>1, RefreshMaps
    <3> QED BY <3>2, <3>3 DEF Presence!PNext
  <2>5. CASE CloseEnds(c)
        BY <2>5, CloseEventMaps DEF CloseEnds, Drop, CloseCompletes, Presence!PNext
  <2>6. CASE ClientRead(c)
        BY <2>6, ClientReadMaps
  <2>7. CASE Connect(c)
        BY <2>7, ConnectMaps
  <2> QED BY <2>0, <2>1, <2>2, <2>3, <2>4, <2>5, <2>6, <2>7 DEF Handler
<1> QED BY <1>1, <1>2

(* The door implements the presence service: peer-joined, peer-list,       *)
(* relayed signals and peer-left, queued on ordered sockets, have the      *)
(* effect of arrivals, refreshes and departures known at once.             *)
THEOREM DoorImplementsPresence == Spec => ImplementsPresence
<1>1. Init => Presence!PInit
      BY InitMaps
<1>2. DoorInv /\ [Next]_vars => [Presence!PNext]_(Presence!pvars)
      BY NextMaps
<1> QED BY <1>1, <1>2, DoorInvariance, PTL DEF Spec, ImplementsPresence, Presence!PSpec

(* The presence service keeps its own promise. *)
LEMMA PresenceStep ==
    Presence!PresenceInv /\ [Presence!PNext]_(Presence!pvars) => Presence!PresenceInv'
<1> SUFFICES ASSUME Presence!PresenceInv, [Presence!PNext]_(Presence!pvars)
             PROVE  Presence!PresenceInv'
    OBVIOUS
<1>1. CASE UNCHANGED Presence!pvars
      BY <1>1 DEF Presence!pvars, Presence!PresenceInv
<1>2. CASE Presence!PNext
  <2>0. PICK p \in Conn :
        \/ \E announced, watches \in BOOLEAN, L \in SUBSET Conn :
              Presence!Arrive(p, announced, watches, L)
        \/ \E L \in SUBSET Conn : Presence!Refresh(p, L)
        \/ Presence!Fade(p)
        \/ Presence!Leave(p)
      BY <1>2, Zenon DEF Presence!PNext
  <2>1. CASE \E announced, watches \in BOOLEAN, L \in SUBSET Conn :
               Presence!Arrive(p, announced, watches, L)
    <3>1. PICK announced \in BOOLEAN, watches \in BOOLEAN, L \in SUBSET Conn :
                 Presence!Arrive(p, announced, watches, L)
          BY <2>1, Zenon
    <3>2. /\ L \subseteq Admitted /\ p \notin Admitted
          /\ Admitted' = Admitted \cup {p}
          /\ Watchers' \subseteq Watchers \cup {p}
          BY <3>1 DEF Presence!Arrive
    <3>3. \A x \in Conn : Known'[x] \subseteq IF x = p THEN L ELSE Known[x] \cup {p}
          BY <3>1 DEF Presence!Arrive
    <3> QED BY <3>2, <3>3 DEF Presence!PresenceInv
  <2>2. CASE \E L \in SUBSET Conn : Presence!Refresh(p, L)
        BY <2>2, Mapping DEF Presence!Refresh, Presence!PresenceInv
  <2>3. CASE Presence!Fade(p)
        BY <2>3, Mapping DEF Presence!Fade, Presence!PresenceInv
  <2>4. CASE Presence!Leave(p)
        BY <2>4 DEF Presence!Leave, Presence!PresenceInv
  <2> QED BY <2>0, <2>1, <2>2, <2>3, <2>4
<1> QED BY <1>1, <1>2

(* Watchers are present, and know only peers that are. *)
LEMMA PresentOnly == Spec => []Presence!PresenceInv
<1>1. Init => Presence!PresenceInv
  <2> SUFFICES ASSUME Init PROVE Presence!PresenceInv
      OBVIOUS
  <2>1. \A x \in Conn : sock[x] = "idle"
        BY DEF Init
  <2>2. Admitted = {} /\ Watchers = {}
        BY <2>1, Mapping
  <2>3. \A x \in Conn : Known[x] = {}
        BY <2>2, KnownOf
  <2> QED BY <2>2, <2>3 DEF Presence!PresenceInv
<1>2. Presence!PresenceInv /\ DoorInv /\ [Next]_vars => Presence!PresenceInv'
      BY NextMaps, PresenceStep
<1> QED BY <1>1, <1>2, DoorInvariance, PTL DEF Spec

(* No ghosts: no client connected to the door, but one that was signalled  *)
(* before its own admission, is left believing in a peer that has left it, *)
(* for any number of clients and any interleaving.                         *)
THEOREM GhostFree == Spec => []NoGhosts
<1>1. Presence!PresenceInv => NoGhosts
  <2> SUFFICES ASSUME Presence!PresenceInv, NEW c \in Conn, NEW p \in Conn,
                      Hears(c), c \notin early, WillKnow(c, p)
               PROVE  p \in Connections
      BY DEF NoGhosts
  <2>1. CASE p = c
        BY <2>1 DEF Hears, Connections
  <2>2. CASE p # c
    <3>1. c \in Watchers /\ Counts(c, p)
          BY <2>2 DEF Counts, Watchers, WillKnow
    <3>2. p \in Known[c]
          BY <3>1, KnownOf
    <3> QED BY <3>2 DEF Presence!PresenceInv, Admitted
  <2> QED BY <2>1, <2>2
<1> QED BY <1>1, PresentOnly, PTL

-----------------------------------------------------------------------------
(* No missed introduction.                                                 *)

(* The property in the terms of the presence service. *)
LEMMA IntroducedKnown ==
    /\ Introduced <=>
         \A a, b \in Watchers : a # b /\ ~turnOnly[a] /\ ~turnOnly[b] =>
             b \in Known[a] \/ a \in Known[b]
    /\ Introduced' <=>
         \A a, b \in Watchers' : a # b /\ ~turnOnly'[a] /\ ~turnOnly'[b] =>
             b \in Known'[a] \/ a \in Known'[b]
<1>1. \A a \in Watchers : a \in Conn /\ a \in Admitted
      BY Mapping
<1>2. \A a, b \in Watchers : a # b => (b \in Known[a] <=> WillKnow(a, b))
      BY <1>1, KnownOf DEF Counts, WillKnow
<1>3. \A a \in Watchers' : a \in Conn /\ a \in Admitted'
      BY Mapping
<1>4. \A a, b \in Watchers' : a # b => (b \in Known'[a] <=> WillKnow(a, b)')
      BY <1>3, KnownOf DEF Counts, WillKnow
<1>5. Introduced <=> \A a, b \in Watchers : a # b /\ ~turnOnly[a] /\ ~turnOnly[b] =>
                        WillKnow(a, b) \/ WillKnow(b, a)
      BY DEF Introduced, Watchers
<1>6. Introduced' <=> \A a, b \in Watchers' : a # b /\ ~turnOnly'[a] /\ ~turnOnly'[b] =>
                        WillKnow(a, b)' \/ WillKnow(b, a)'
      BY DEF Introduced, Watchers
<1> QED BY <1>2, <1>4, <1>5, <1>6

(* A step that makes nobody a watcher, and after which the watchers left   *)
(* still know of one another what they knew, keeps the introductions.      *)
LEMMA StillIntroduced ==
    ASSUME Introduced,
           \A a \in Watchers' : /\ a \in Watchers /\ turnOnly'[a] = turnOnly[a]
                                /\ \A b \in Watchers' : b \in Known[a] => b \in Known'[a]
    PROVE  Introduced'
BY IntroducedKnown

(* A frame that says nobody left takes no knowledge away. *)
LEMMA HearsMore ==
    ASSUME DoorInv, NEW to \in Conn, NEW f \in Frame, Telling(to, f)
    PROVE  \A a \in Conn : Known[a] \subseteq Known'[a]
<1>0. TypeOK
      BY DEF DoorInv
<1>1. \A a \in Conn : /\ inbox[a] \in Seq(Frame)
                      /\ inbox'[a] = inbox[a] \/ inbox'[a] = Append(inbox[a], f)
      BY <1>0, ToldFacts DEF TypeOK
<1>2. f.kind # "left" /\ UNCHANGED <<sock, admitted, view>>
      BY DEF Telling, serverVars
<1>3. ASSUME NEW a \in Conn, NEW p \in Conn, Knows(inbox[a], view[a], p)
      PROVE  Knows(inbox'[a], view'[a], p)
  <2>1. Knows(Append(inbox[a], f), view[a], p)
        BY <1>1, <1>2, <1>3, KnowsAppend
  <2> QED BY <1>1, <1>2, <1>3, <2>1
<1>4. Watchers' = Watchers /\ Admitted' = Admitted
      BY <1>2, Mapping
<1>5. \A a \in Conn : a \in Watchers => (a \in early' <=> a \in early)
      BY <1>0, ToldFacts, Mapping
<1>6. \A a, p \in Conn : a \in Watchers /\ Counts(a, p) => Counts(a, p)'
      BY <1>3, <1>4, <1>5 DEF Counts
<1> QED BY <1>4, <1>6, KnownOf

LEMMA IntroducedStep ==
    Presence!PresenceInv /\ DoorInv /\ Introduced /\ [Next]_vars => Introduced'
<1> SUFFICES ASSUME Presence!PresenceInv, DoorInv, Introduced, [Next]_vars
             PROVE  Introduced'
    OBVIOUS
<1>0. TypeOK
      BY DEF DoorInv
<1>1. CASE UNCHANGED vars
  <2>1. UNCHANGED <<sock, admitted, inbox, view, early, turnOnly>>
        BY <1>1 DEF vars, serverVars, clientVars
  <2>2. UNCHANGED <<Watchers, Known>>
        BY <2>1 DEF Admitted, Connections, Watchers, Known, Hears, WillKnow
  <2> QED BY <2>1, <2>2, StillIntroduced
<1>2. CASE Next
  <2>0. PICK c \in Conn : Handler(c)
        BY <1>2, NextCases
  <2>1. CASE Silent(c)
    <3>1. UNCHANGED turnOnly
          BY <2>1, SilentSteps
    <3>2. Presence!Fade(c) \/ UNCHANGED <<Watchers, Known>>
          BY <2>1, SilentMaps
    <3>3. CASE Presence!Fade(c)
      <4>1. Watchers' = Watchers \ {c} /\ \A a \in Watchers' : Known'[a] = Known[a]
            BY <3>3, Mapping DEF Presence!Fade
      <4> QED BY <3>1, <4>1, StillIntroduced
    <3> QED BY <3>1, <3>2, <3>3, StillIntroduced
  <2>2. CASE Admit(c)
    <3>1. PICK watches \in BOOLEAN, L \in SUBSET Conn :
                 Presence!Arrive(c, TRUE, watches, L)
          BY <2>2, AdmitMaps
    <3>2. /\ \A a \in Watchers' : a = c \/ a \in Watchers
          /\ c \notin Watchers
          /\ \A a \in Conn : a # c =>
                Known'[a] = IF a \in Watchers THEN Known[a] \cup {c} ELSE Known[a]
          BY <3>1 DEF Presence!Arrive, Presence!PresenceInv
    <3>3. \A a \in Conn : a # c => turnOnly'[a] = turnOnly[a]
          BY <1>0, <2>2 DEF Admit, PassGate, TypeOK
    <3>4. Watchers' \subseteq Conn
          BY Mapping
    <3> QED BY <3>2, <3>3, <3>4, IntroducedKnown
  <2>3. CASE AdmitTurnRefresh(c)
    <3>1. PICK watches \in BOOLEAN, L \in SUBSET Conn :
                 Presence!Arrive(c, FALSE, watches, L)
          BY <2>3, TurnRefreshMaps
    <3>2. /\ \A a \in Watchers' : a = c \/ a \in Watchers
          /\ \A a \in Conn : a # c => Known'[a] = Known[a]
          BY <3>1 DEF Presence!Arrive
    <3>3. turnOnly'[c] /\ \A a \in Conn : a # c => turnOnly'[a] = turnOnly[a]
          BY <1>0, <2>3 DEF AdmitTurnRefresh, PassGate, TypeOK
    <3>4. Watchers' \subseteq Conn
          BY Mapping
    <3> QED BY <3>2, <3>3, <3>4, IntroducedKnown
  <2>4. CASE Asked(c)
    <3>1. PICK to \in Conn, f \in Frame : Telling(to, f)
          BY <2>4, AskedTells
    <3>2. UNCHANGED <<sock, admitted, turnOnly>>
          BY <3>1 DEF Telling, serverVars
    <3>3. \A a \in Conn : Known[a] \subseteq Known'[a]
          BY <3>1, HearsMore
    <3>4. Watchers' = Watchers /\ Watchers \subseteq Conn
          BY <3>2, Mapping
    <3> QED BY <3>2, <3>3, <3>4, StillIntroduced
  <2>5. CASE CloseEnds(c)
    <3>1. sock[c] \in {"open", "closing"} /\ CloseEvent(c)
          BY <2>5 DEF CloseEnds, Drop, CloseCompletes
    <3>2. \A a \in Conn : a # c => turnOnly'[a] = turnOnly[a]
          BY <1>0, <3>1 DEF CloseEvent, TypeOK
    <3>3. c \notin Watchers'
          BY <1>0, <3>1, Mapping DEF CloseEvent, TypeOK
    <3>4. \A a \in Watchers' : a \in Watchers /\ Known[a] \ {c} \subseteq Known'[a]
      <4>1. CASE Presence!Leave(c)
            BY <4>1, Mapping DEF Presence!Leave
      <4>2. CASE UNCHANGED <<Watchers, Known>>
            BY <4>2
      <4> QED BY <3>1, <4>1, <4>2, CloseEventMaps
    <3>5. Watchers' \subseteq Conn
          BY Mapping
    <3> QED BY <3>2, <3>3, <3>4, <3>5, StillIntroduced
  <2>6. CASE ClientRead(c)
    <3>1. UNCHANGED <<Watchers, Known>> /\ UNCHANGED turnOnly
          BY <2>6, ClientReadMaps DEF ClientRead, serverVars
    <3> QED BY <3>1, StillIntroduced
  <2>7. CASE Connect(c)
    <3>1. UNCHANGED <<Watchers, Known>> /\ UNCHANGED turnOnly
          BY <2>7, ConnectMaps, ConnectSteps
    <3> QED BY <3>1, StillIntroduced
  <2> QED BY <2>0, <2>1, <2>2, <2>3, <2>4, <2>5, <2>6, <2>7 DEF Handler
<1> QED BY <1>1, <1>2

(* No missed introduction: of two peers connected to the door, one knows   *)
(* of the other or has the frame that tells it on its way, however few     *)
(* anchors the newcomer was handed and whoever closed in between.          *)
THEOREM NobodyMissed == Spec => []Introduced
<1>1. Init => Introduced
  <2>1. Init => \A x \in Conn : sock[x] = "idle"
        BY DEF Init
  <2> QED BY <2>1 DEF Introduced, Hears
<1>2. Presence!PresenceInv /\ DoorInv /\ Introduced /\ [Next]_vars => Introduced'
      BY IntroducedStep
<1> QED BY <1>1, <1>2, PresentOnly, DoorInvariance, PTL DEF Spec

-----------------------------------------------------------------------------
(* One initiator per pair, of clients that have not asked for their list   *)
(* again.                                                                  *)

(* The peers some list of the queue names. *)
Lists(q, p) == \E i \in DOMAIN q : q[i].kind = "list" /\ p \in q[i].peers

(* a offers to b, or will once it has read the list that is on its way. *)
Offers(a, b) == b \in dials[a] \/ Lists(inbox[a], b)

(* b has been admitted, now or earlier. *)
Passed(b) == admitted[b] \/ sock[b] = "gone"

(* A client that has not asked for its list again is admitted when it      *)
(* offers, and offers to other admitted ones only; of two such clients     *)
(* only one offers to the other.                                           *)
RolesInv ==
    /\ \A a \in Conn \ rewarmed, b \in Conn :
          Offers(a, b) => b # a /\ Passed(a) /\ Passed(b)
    /\ \A a, b \in Conn \ rewarmed : ~(Offers(a, b) /\ Offers(b, a))

LEMMA ListsAppend ==
    ASSUME NEW q \in Seq(Frame), NEW f \in Frame, NEW p
    PROVE  Lists(Append(q, f), p) <=> Lists(q, p) \/ (f.kind = "list" /\ p \in f.peers)
<1>1. /\ Len(q) \in Nat /\ DOMAIN q = 1..Len(q)
      /\ DOMAIN Append(q, f) = 1..(Len(q) + 1)
      /\ Append(q, f)[Len(q) + 1] = f
      /\ \A i \in 1..Len(q) : Append(q, f)[i] = q[i]
      OBVIOUS
<1>2. Len(q) + 1 \in DOMAIN Append(q, f)
      BY <1>1
<1>3. \A i \in DOMAIN q : i \in DOMAIN Append(q, f)
      BY <1>1
<1>4. \A i \in DOMAIN Append(q, f) : i = Len(q) + 1 \/ i \in DOMAIN q
      BY <1>1
<1> QED BY <1>1, <1>2, <1>3, <1>4 DEF Lists

LEMMA ListsTail ==
    ASSUME NEW q \in Seq(Frame), q # <<>>, NEW p
    PROVE  /\ Lists(Tail(q), p) => Lists(q, p)
           /\ Head(q).kind = "list" /\ p \in Head(q).peers => Lists(q, p)
<1>1. /\ Len(q) \in Nat \ {0} /\ DOMAIN q = 1..Len(q)
      /\ DOMAIN Tail(q) = 1..(Len(q) - 1)
      /\ Head(q) = q[1] /\ \A i \in 1..(Len(q) - 1) : Tail(q)[i] = q[i + 1]
      OBVIOUS
<1>2. \A i \in DOMAIN Tail(q) : i + 1 \in DOMAIN q /\ Tail(q)[i] = q[i + 1]
      BY <1>1
<1>3. 1 \in DOMAIN q
      BY <1>1
<1> QED BY <1>1, <1>2, <1>3 DEF Lists

LEMMA ListsAreTold == ASSUME NEW q, NEW p, Lists(q, p) PROVE Tells(q, p)
BY DEF Lists, Tells

(* A frame that is not a list makes nobody offer. *)
LEMMA NoOffer ==
    ASSUME TypeOK, NEW x \in Conn, NEW f \in Frame, f.kind # "list", NEW p,
           inbox'[x] = inbox[x] \/ inbox'[x] = Append(inbox[x], f) \/ inbox'[x] = <<>>,
           dials'[x] \subseteq dials[x], Offers(x, p)'
    PROVE  Offers(x, p)
<1>1. inbox[x] \in Seq(Frame) /\ ~Lists(<<>>, p)
      BY DEF TypeOK, Lists
<1>2. p \in dials'[x] \/ Lists(inbox'[x], p)
      BY DEF Offers
<1>3. Lists(Append(inbox[x], f), p) => Lists(inbox[x], p)
      BY <1>1, ListsAppend
<1>4. Lists(inbox'[x], p) => Lists(inbox[x], p)
      BY <1>1, <1>3
<1> QED BY <1>2, <1>4 DEF Offers

(* Whoever was admitted stays so until it is gone. *)
LEMMA PassedForGood ==
    ASSUME DoorInv, Next
    PROVE  \A p \in Conn : Passed(p) => Passed(p)'
<1>0. TypeOK
      BY DEF DoorInv
<1>1. PICK c \in Conn : Handler(c)
      BY NextCases
<1>2. CASE Silent(c)
      BY <1>2, SilentSteps DEF Passed
<1>3. CASE Admit(c) \/ AdmitTurnRefresh(c)
  <2>1. admitted' = [admitted EXCEPT ![c] = TRUE] /\ UNCHANGED sock
        BY <1>3 DEF Admit, AdmitTurnRefresh, PassGate
  <2> QED BY <1>0, <2>1 DEF Passed, TypeOK
<1>4. CASE Asked(c) \/ ClientRead(c)
  <2>1. UNCHANGED serverVars
        BY <1>4 DEF Asked, PeerListRequest, ClientRead, RelaySignal
  <2> QED BY <2>1 DEF serverVars, Passed
<1>5. CASE Connect(c)
  <2>1. /\ admitted' = admitted /\ sock[c] = "idle" /\ ~admitted[c]
        /\ \A x \in Conn : x # c => sock'[x] = sock[x]
        BY <1>5, ConnectSteps
  <2> QED BY <2>1 DEF Passed
<1>6. CASE CloseEnds(c)
  <2>1. /\ sock' = [sock EXCEPT ![c] = "gone"]
        /\ admitted' = [admitted EXCEPT ![c] = FALSE]
        BY <1>6 DEF CloseEnds, Drop, CloseCompletes, CloseEvent
  <2> QED BY <1>0, <2>1 DEF Passed, TypeOK
<1> QED BY <1>1, <1>2, <1>3, <1>4, <1>5, <1>6 DEF Handler

(* A step after which, of the clients that have not asked again, nobody    *)
(* offers who did not.                                                     *)
LEMMA FewerOffers ==
    ASSUME RolesInv, \A p \in Conn : Passed(p) => Passed(p)',
           \A a \in Conn \ rewarmed', b \in Conn :
               Offers(a, b)' => a \notin rewarmed /\ Offers(a, b)
    PROVE  RolesInv'
<1>1. ASSUME NEW a \in Conn, a \notin rewarmed', NEW b \in Conn, Offers(a, b)'
      PROVE  b # a /\ Passed(a)' /\ Passed(b)'
  <2>1. a \notin rewarmed /\ Offers(a, b)
        BY <1>1
  <2> QED BY <2>1 DEF RolesInv
<1>2. ASSUME NEW a \in Conn, a \notin rewarmed', NEW b \in Conn, b \notin rewarmed',
             Offers(a, b)', Offers(b, a)'
      PROVE  FALSE
  <2>1. /\ a \notin rewarmed /\ Offers(a, b)
        /\ b \notin rewarmed /\ Offers(b, a)
        BY <1>2
  <2> QED BY <2>1 DEF RolesInv
<1> QED BY <1>1, <1>2 DEF RolesInv

(* Signals and the gate's own frame make nobody offer. *)
LEMMA GateOnlyOffers ==
    ASSUME NEW c \in Conn, AtTheGate(c), NEW p
    PROVE  ~Offers(c, p)
BY DEF AtTheGate, GateOnly, Offers, Lists

(* The newcomer offers to those on its list, none of whom was told of it   *)
(* before it was admitted.                                                 *)
LEMMA RolesAdmit ==
    ASSUME DoorInv, RolesInv, \A p \in Conn : Passed(p) => Passed(p)',
           NEW c \in Conn, Admit(c)
    PROVE  RolesInv'
<1>0. TypeOK
      BY DEF DoorInv
<1>1. PICK L \in SUBSET Conn :
        /\ PassGate(c, FALSE) /\ UNCHANGED release /\ IntroList(c, L)
        /\ inbox' = [Deliver(Admitted, Joined(c)) EXCEPT ![c] =
                        IF sock[c] = "open"
                        THEN Append(Append(@, Welcome), PeerList(L)) ELSE @]
      BY DEF Admit, Announcement
<1>2. /\ sock[c] \in {"open", "closing"} /\ ~admitted[c]
      /\ AtTheGate(c) /\ inbox[c] \in Seq(Frame)
      /\ admitted' = [admitted EXCEPT ![c] = TRUE]
      /\ c \notin Admitted
      /\ dials' = dials /\ rewarmed' = rewarmed
      BY <1>1, GateFacts
<1>3. /\ L \subseteq Admitted
      /\ inbox'[c] = IF sock[c] = "open" THEN Intro(inbox[c], L) ELSE inbox[c]
      /\ \A x \in Conn : x # c =>
           inbox'[x] = IF x \in Admitted /\ sock[x] = "open"
                       THEN Append(inbox[x], Joined(c)) ELSE inbox[x]
      BY <1>1, AdmitInv
<1>4. Joined(c) \in Frame /\ Joined(c).kind # "list"
      BY FrameType DEF Joined
<1>5. ASSUME NEW x \in Conn, x # c, NEW p \in Conn, Offers(x, p)'
      PROVE  Offers(x, p)
  <2>1. inbox'[x] = inbox[x] \/ inbox'[x] = Append(inbox[x], Joined(c))
        BY <1>3, <1>5
  <2>2. dials'[x] \subseteq dials[x]
        BY <1>2
  <2> QED BY <1>0, <1>4, <1>5, <2>1, <2>2, NoOffer
<1>6. ASSUME NEW x \in Conn, x \notin rewarmed PROVE ~Offers(x, c)
  <2>1. ~Passed(c)
        BY <1>2 DEF Passed
  <2> QED BY <1>6, <2>1 DEF RolesInv
<1>7. admitted'[c]
      BY <1>0, <1>2 DEF TypeOK
<1>8. ASSUME NEW p \in Conn, Offers(c, p)'
      PROVE  p # c /\ Passed(c)' /\ Passed(p)'
  <2>1. ~Offers(c, p)
        BY <1>2, GateOnlyOffers
  <2>2. p \notin dials'[c] /\ ~Lists(inbox[c], p)
        BY <1>2, <2>1 DEF Offers
  <2>3. Lists(inbox'[c], p)
        BY <1>8, <2>2 DEF Offers
  <2>4. Lists(Intro(inbox[c], L), p)
        BY <1>3, <2>2, <2>3
  <2>5. /\ Welcome \in Frame /\ PeerList(L) \in Frame
        /\ Append(inbox[c], Welcome) \in Seq(Frame)
        /\ Welcome.kind # "list" /\ PeerList(L).peers = L
        BY <1>2, FrameType DEF Welcome, PeerList
  <2>6. ~Lists(Append(inbox[c], Welcome), p)
        BY <1>2, <2>2, <2>5, ListsAppend
  <2>7. p \in L
    <3> DEFINE e == Append(inbox[c], Welcome)
               f == PeerList(L)
    <3>1. Lists(Append(e, f), p)
          BY <2>4 DEF Intro
    <3>2. e \in Seq(Frame) /\ f \in Frame /\ f.peers = L /\ ~Lists(e, p)
          BY <2>5, <2>6
    <3> HIDE DEF e, f
    <3>3. Lists(e, p) \/ (f.kind = "list" /\ p \in f.peers)
          BY <3>1, <3>2, ListsAppend
    <3> QED BY <3>2, <3>3
  <2>8. p \in Admitted
        BY <1>3, <2>7
  <2>9. Passed(p)
        BY <2>8 DEF Admitted, Passed
  <2> QED BY <1>2, <1>7, <2>8, <2>9 DEF Passed
<1>9. ASSUME NEW a \in Conn, a \notin rewarmed, NEW b \in Conn, Offers(a, b)'
      PROVE  b # a /\ Passed(a)' /\ Passed(b)'
  <2>1. CASE a = c
        BY <1>8, <1>9, <2>1
  <2>2. CASE a # c
    <3>1. Offers(a, b)
          BY <1>5, <1>9, <2>2
    <3> QED BY <1>9, <3>1 DEF RolesInv
  <2> QED BY <2>1, <2>2
<1>10. ASSUME NEW a \in Conn, a \notin rewarmed, a # c, NEW b \in Conn, b \notin rewarmed,
              Offers(a, b)', Offers(b, a)'
       PROVE  FALSE
  <2>1. Offers(a, b)
        BY <1>5, <1>10
  <2>2. b # c
        BY <1>6, <1>10, <2>1
  <2>3. Offers(b, a)
        BY <1>5, <1>10, <2>2
  <2> QED BY <1>10, <2>1, <2>3 DEF RolesInv
<1>11. ASSUME NEW a \in Conn, a \notin rewarmed, NEW b \in Conn, b \notin rewarmed,
              Offers(a, b)', Offers(b, a)'
       PROVE  FALSE
  <2>1. b # a
        BY <1>9, <1>11
  <2>2. a # c \/ b # c
        BY <2>1
  <2> QED BY <1>10, <1>11, <2>2
<1> QED BY <1>2, <1>9, <1>11 DEF RolesInv

(* A departure takes offers away. *)
LEMMA RolesClose ==
    ASSUME DoorInv, RolesInv, \A p \in Conn : Passed(p) => Passed(p)',
           NEW c \in Conn, sock[c] \in {"open", "closing"},
           CloseEvent(c)
    PROVE  RolesInv'
<1>0. TypeOK
      BY DEF DoorInv
<1>1. /\ dials' = [dials EXCEPT ![c] = {}]
      /\ rewarmed' = rewarmed \ {c}
      BY DEF CloseEvent
<1>2. Left(c) \in Frame /\ Left(c).kind # "list"
      BY FrameType DEF Left
<1>3. /\ inbox'[c] = <<>>
      /\ \A x \in Conn : x # c =>
           inbox'[x] = IF x \in Admitted /\ sock[x] = "open"
                       THEN Append(inbox[x], Left(c)) ELSE inbox[x]
      BY CloseEventInv
<1>4. ASSUME NEW p \in Conn PROVE ~Offers(c, p)'
      BY <1>0, <1>1, <1>3 DEF Offers, Lists, TypeOK
<1>5. ASSUME NEW x \in Conn, x # c, NEW p \in Conn, Offers(x, p)'
      PROVE  Offers(x, p)
  <2>1. dials'[x] = dials[x]
        BY <1>0, <1>1, <1>5 DEF TypeOK
  <2> QED BY <1>0, <1>2, <1>3, <1>5, <2>1, NoOffer
<1>6. ASSUME NEW x \in Conn, x \notin rewarmed', NEW p \in Conn, Offers(x, p)'
      PROVE  x \notin rewarmed /\ Offers(x, p)
  <2>1. x # c
        BY <1>4, <1>6
  <2> QED BY <1>1, <1>5, <1>6, <2>1
<1>7. \A x \in Conn \ rewarmed', p \in Conn :
         Offers(x, p)' => x \notin rewarmed /\ Offers(x, p)
      BY <1>6
<1> QED BY <1>7, FewerOffers

(* Reading a frame turns a list into offers, and a departure ends one. *)
LEMMA RolesRead ==
    ASSUME DoorInv, RolesInv, \A p \in Conn : Passed(p) => Passed(p)',
           NEW c \in Conn, ClientRead(c)
    PROVE  RolesInv'
<1>0. TypeOK
      BY DEF DoorInv
<1> DEFINE f == Head(inbox[c])
<1>1. /\ inbox[c] \in Seq(Frame) /\ inbox[c] # <<>>
      /\ inbox' = [inbox EXCEPT ![c] = Tail(@)]
      /\ inbox'[c] = Tail(inbox[c])
      /\ rewarmed' = rewarmed
      BY <1>0 DEF ClientRead, TypeOK
<1>2. dials' = [dials EXCEPT ![c] = CASE f.kind = "left" -> @ \ f.peers
                                      [] f.kind = "list" -> @ \cup f.peers
                                      [] OTHER -> @]
      BY DEF ClientRead
<1>3. dials'[c] \subseteq IF f.kind = "list" THEN dials[c] \cup f.peers ELSE dials[c]
      BY <1>0, <1>2 DEF TypeOK
<1>4. \A x \in Conn : x # c => inbox'[x] = inbox[x] /\ dials'[x] = dials[x]
      BY <1>0, <1>1, <1>2 DEF TypeOK
<1>5. ASSUME NEW p \in Conn, Offers(c, p)'
      PROVE  Offers(c, p)
  <2>1. /\ Lists(Tail(inbox[c]), p) => Lists(inbox[c], p)
        /\ f.kind = "list" /\ p \in f.peers => Lists(inbox[c], p)
        BY <1>1, ListsTail
  <2>2. p \in dials'[c] \/ Lists(Tail(inbox[c]), p)
        BY <1>1, <1>5 DEF Offers
  <2> QED BY <1>3, <2>1, <2>2 DEF Offers
<1>6. \A x, p \in Conn : Offers(x, p)' => Offers(x, p)
      BY <1>4, <1>5 DEF Offers
<1> QED BY <1>1, <1>6, FewerOffers

LEMMA RolesStep == DoorInv /\ RolesInv /\ [Next]_vars => RolesInv'
<1> SUFFICES ASSUME DoorInv, RolesInv, [Next]_vars PROVE RolesInv'
    OBVIOUS
<1>0. TypeOK
      BY DEF DoorInv
<1>1. CASE UNCHANGED vars
      BY <1>1, FewerOffers DEF vars, serverVars, clientVars, Offers, Passed
<1>2. CASE Next
  <2> DEFINE Stays == \A p \in Conn : Passed(p) => Passed(p)'
  <2>0. PICK c \in Conn : Handler(c)
        BY <1>2, NextCases
  <2>1. Stays
        BY <1>2, PassedForGood
  <2>2. CASE Silent(c)
    <3>1. UNCHANGED <<inbox, dials, rewarmed>>
          BY <2>2, SilentSteps DEF clientVars
    <3> QED BY <2>1, <3>1, FewerOffers DEF Offers
  <2>3. CASE Admit(c)
        BY <2>1, <2>3, RolesAdmit
  <2>4. CASE AdmitTurnRefresh(c)
    <3>1. Welcome \in Frame /\ Welcome.kind # "list"
          BY FrameType DEF Welcome
    <3>2. UNCHANGED <<dials, rewarmed>>
          BY <2>4 DEF AdmitTurnRefresh, PassGate, clientVars
    <3>3. \A x \in Conn : inbox'[x] = inbox[x] \/ inbox'[x] = Append(inbox[x], Welcome)
          BY <2>4, TurnRefreshInv
    <3>4. \A x, p \in Conn : Offers(x, p)' => Offers(x, p)
          BY <1>0, <3>1, <3>2, <3>3, NoOffer
    <3> QED BY <2>1, <3>2, <3>4, FewerOffers
  <2>5. CASE Asked(c)
    <3>1. PICK to \in Conn, f \in Frame : Telling(to, f)
          BY <2>5, AskedTells
    <3>2. /\ dials' = dials /\ rewarmed \subseteq rewarmed'
          /\ f.kind = "list" => to \in rewarmed'
          BY <3>1 DEF Telling
    <3>3. \A x \in Conn : inbox'[x] = inbox[x]
                             \/ (x = to /\ inbox'[x] = Append(inbox[x], f))
          BY <1>0, <3>1, ToldFacts
    <3>4. ASSUME NEW x \in Conn, x \notin rewarmed', NEW p \in Conn, Offers(x, p)'
          PROVE  Offers(x, p)
      <4>1. CASE inbox'[x] = inbox[x]
            BY <3>2, <3>4, <4>1 DEF Offers
      <4>2. CASE x = to /\ inbox'[x] = Append(inbox[x], f)
        <5>1. f.kind # "list"
              BY <3>2, <3>4, <4>2
        <5>2. dials'[x] \subseteq dials[x]
              BY <3>2
        <5> QED BY <1>0, <3>4, <4>2, <5>1, <5>2, NoOffer
      <4> QED BY <3>3, <4>1, <4>2
    <3>5. \A x \in Conn \ rewarmed', p \in Conn :
             Offers(x, p)' => x \notin rewarmed /\ Offers(x, p)
          BY <3>2, <3>4
    <3> QED BY <2>1, <3>5, FewerOffers
  <2>6. CASE CloseEnds(c)
        BY <2>1, <2>6, RolesClose DEF CloseEnds, Drop, CloseCompletes
  <2>7. CASE ClientRead(c)
        BY <2>1, <2>7, RolesRead
  <2>8. CASE Connect(c)
    <3>1. VersionGate \in Frame /\ VersionGate.kind # "list"
          BY FrameType DEF VersionGate
    <3>2. UNCHANGED <<dials, rewarmed>>
          BY <2>8, ConnectSteps DEF clientVars
    <3>3. \A x \in Conn :
             inbox'[x] = inbox[x] \/ inbox'[x] = Append(inbox[x], VersionGate)
          BY <2>8, ConnectSteps
    <3>4. \A x, p \in Conn : Offers(x, p)' => Offers(x, p)
          BY <1>0, <3>1, <3>2, <3>3, NoOffer
    <3> QED BY <2>1, <3>2, <3>4, FewerOffers
  <2> QED BY <2>0, <2>2, <2>3, <2>4, <2>5, <2>6, <2>7, <2>8 DEF Handler
<1> QED BY <1>1, <1>2

(* The initiation rule holds of any two clients that have not asked for    *)
(* their list again: the lists and announcements of admissions give each   *)
(* pair one initiator, for any number of clients, in whatever order they   *)
(* read them and whoever signals or re-warms around them.                  *)
THEOREM OneInitiatorPerPair == Spec => []FirstRolesAgree
<1>1. Init => RolesInv
  <2> SUFFICES ASSUME Init PROVE \A a, b \in Conn : ~Offers(a, b)
      BY DEF RolesInv
  <2> QED BY DEF Init, Offers, Lists
<1>2. DoorInv /\ RolesInv /\ [Next]_vars => RolesInv'
      BY RolesStep
<1>3. RolesInv => FirstRolesAgree
      BY DEF RolesInv, FirstRolesAgree, Offers
<1> QED BY <1>1, <1>2, <1>3, DoorInvariance, PTL DEF Spec
=============================================================================
