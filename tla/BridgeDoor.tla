----------------------------- MODULE BridgeDoor -----------------------------
(***************************************************************************)
(* The door of the bridge (src/server.js): the table of WebSocket          *)
(* connections, the version gate every connection passes, the introduction *)
(* of an admitted newcomer to the peers already there, the relay of their  *)
(* signalling, and the close of a socket in its two steps (ws.close() and, *)
(* up to thirty seconds later, the 'close' event).                         *)
(*                                                                         *)
(* The bridge is one event loop: every handler is one atomic action.  What *)
(* interleaves is the handlers of different sockets, the timers, and the   *)
(* frames still on their way to each client, which TCP keeps in order      *)
(* (inbox).  A connection id is never reused, so Conn is the set of        *)
(* connections ever made.                                                  *)
(***************************************************************************)
EXTENDS Naturals, FiniteSets, Sequences

CONSTANTS Conn,        \* connection ids
          NurseryOn,   \* BRIDGE_NURSERY: bounded introductions
          AnchorK,     \* BRIDGE_ANCHOR_K
          MinPool,     \* BRIDGE_ANCHOR_MIN_POOL
          MaxSends     \* bound: re-warm requests and signals sent by clients

ASSUME DoorAssumption == /\ NurseryOn \in BOOLEAN
                         /\ AnchorK \in Nat
                         /\ MinPool \in Nat
                         /\ MaxSends \in Nat

VARIABLES sock,      \* readyState of the bridge's end: Conn -> SockState
          admitted,  \* conn.admitted
          turnOnly,  \* conn.turnRefreshOnly
          timer,     \* conn.helloTimer, and conn.helloRetried while it is armed
          release,   \* the turn-refresh release timer is armed
          inbox,     \* frames written to the socket and not yet read
          view,      \* the peers the client believes to be at the door
          dials,     \* the peers the client offers to (initiator role)
          sends,     \* client messages so far, against MaxSends
          early,     \* history: connections signalled before their admission
          rewarmed   \* history: clients that asked for their list again

serverVars == <<sock, admitted, turnOnly, timer, release>>
clientVars == <<view, dials, sends, early, rewarmed>>
vars == <<serverVars, inbox, clientVars>>

SockState == {"idle", "open", "closing", "gone"}

(* The hello timer runs its first window, or the second one that           *)
(* helloRetried says has been granted; once it is off nothing reads        *)
(* helloRetried.                                                           *)
TimerState == {"off", "first", "second"}

(* `connections` holds a socket from its 'connection' event to its 'close' *)
(* event; a socket the bridge has called close() on is still in the map.   *)
Connections == {c \in Conn : sock[c] \in {"open", "closing"}}

(* Fault: the admission is not asked. *)
AdmittedUnasked == Connections

Admitted == {c \in Connections : admitted[c]}

Frame == [kind : {"gate", "welcome", "list", "joined", "left", "signal"},
          peers : SUBSET Conn]

VersionGate == [kind |-> "gate", peers |-> {}]
Welcome == [kind |-> "welcome", peers |-> {}]
PeerList(L) == [kind |-> "list", peers |-> L]
(* Fault: an announcement is read as a list. *)
JoinedAsList(p) == [kind |-> "list", peers |-> {p}]

Joined(p) == [kind |-> "joined", peers |-> {p}]
Left(p) == [kind |-> "left", peers |-> {p}]
Signal(p) == [kind |-> "signal", peers |-> {p}]

Init == /\ sock = [c \in Conn |-> "idle"]
        /\ admitted = [c \in Conn |-> FALSE]
        /\ turnOnly = [c \in Conn |-> FALSE]
        /\ timer = [c \in Conn |-> "off"]
        /\ release = [c \in Conn |-> FALSE]
        /\ inbox = [c \in Conn |-> <<>>]
        /\ view = [c \in Conn |-> {}]
        /\ dials = [c \in Conn |-> {}]
        /\ sends = 0
        /\ early = {}
        /\ rewarmed = {}

-----------------------------------------------------------------------------
(* ws.send on a CLOSING socket discards the frame without an error: only   *)
(* an open socket's inbox grows.                                           *)
Deliver(to, f) ==
    [x \in Conn |-> IF x \in to /\ sock[x] = "open" THEN Append(inbox[x], f)
                                                    ELSE inbox[x]]

(* ws.close(): an open socket starts its close handshake; a second call on *)
(* a closing socket changes nothing.                                       *)
Closed(c) == [sock EXCEPT ![c] = "closing"]

(* A client connects: it is in `connections`, not admitted, it is told     *)
(* that there is a version gate, and its hello timer runs.                 *)
Connect(c) ==
    /\ sock[c] = "idle"
    /\ sock' = [sock EXCEPT ![c] = "open"]
    /\ timer' = [timer EXCEPT ![c] = "first"]
    /\ inbox' = [inbox EXCEPT ![c] = Append(@, VersionGate)]
    /\ UNCHANGED <<admitted, turnOnly, release, clientVars>>

(* onHelloTimeout.  Whether the event loop stalled in the window is the    *)
(* environment's choice; a stall buys one more window, once.               *)
HelloTimeout(c, stalled) ==
    /\ timer[c] # "off"
    /\ IF stalled /\ timer[c] = "first" /\ ~admitted[c]
       THEN /\ timer' = [timer EXCEPT ![c] = "second"]
            /\ UNCHANGED sock
       ELSE /\ timer' = [timer EXCEPT ![c] = "off"]
            /\ sock' = IF admitted[c] THEN sock ELSE Closed(c)
    /\ UNCHANGED <<admitted, turnOnly, release, inbox, clientVars>>

(* The version gate refuses the hello: close(4426).  The connection stays  *)
(* in the map and its hello timer stays armed.  The fields the hello fills *)
(* in, its intent among them, are read only when a hello passes, and that  *)
(* hello overwrites them.                                                  *)
RefuseHello(c) ==
    /\ c \in Connections /\ ~admitted[c]
    /\ sock' = Closed(c)
    /\ UNCHANGED <<admitted, turnOnly, timer, release, inbox, clientVars>>

(* The peer-list of a newcomer.  Which admitted peers are old enough to be *)
(* anchors (uptime) is left open: the eligible set E is any set of them.   *)
IntroList(c, L) ==
    LET pool == Admitted \ {c}
    IN  \/ L = pool
        \/ /\ NurseryOn
           /\ \E E \in SUBSET pool :
                /\ Cardinality(E) >= MinPool
                /\ L \subseteq E
                /\ Cardinality(L) = IF Cardinality(E) < AnchorK
                                    THEN Cardinality(E) ELSE AnchorK

(* admitConnection, up to the branch on the intent: the hello timer is     *)
(* cleared and the connection is admitted.  Nothing asks whether the       *)
(* socket is still open: the hello of a socket being closed is processed   *)
(* like any other.                                                         *)
PassGate(c, turn) ==
    /\ c \in Connections /\ ~admitted[c]
    /\ admitted' = [admitted EXCEPT ![c] = TRUE]
    /\ turnOnly' = [turnOnly EXCEPT ![c] = turn]
    /\ timer' = [timer EXCEPT ![c] = "off"]
    /\ UNCHANGED <<sock, clientVars>>

(* Fault: the nursery, having handed out its anchors, announces nobody. *)
AnnouncementSkipped(c) == IF NurseryOn THEN inbox ELSE Deliver(Admitted, Joined(c))

(* peer-joined to every admitted peer but the newcomer. *)
Announcement(c) == Deliver(Admitted, Joined(c))

(* A newcomer: welcome and peer-list to it, and the announcement.          *)
Admit(c) ==
    /\ PassGate(c, FALSE)
    /\ UNCHANGED release
    /\ \E L \in SUBSET Conn :
        /\ IntroList(c, L)
        /\ inbox' = [Announcement(c) EXCEPT ![c] =
                        IF sock[c] = "open"
                        THEN Append(Append(@, Welcome), PeerList(L)) ELSE @]

(* Fault: a credential-only client is never released. *)
TurnRefreshKept(c) ==
    /\ PassGate(c, TRUE)
    /\ inbox' = Deliver({c}, Welcome)
    /\ UNCHANGED release

(* A graduated client back for a TURN credential: welcome only, and the    *)
(* release timer.                                                          *)
AdmitTurnRefresh(c) ==
    /\ PassGate(c, TRUE)
    /\ release' = [release EXCEPT ![c] = TRUE]
    /\ inbox' = Deliver({c}, Welcome)

TurnRelease(c) ==
    /\ release[c]
    /\ release' = [release EXCEPT ![c] = FALSE]
    /\ sock' = Closed(c)
    /\ UNCHANGED <<admitted, turnOnly, timer, inbox, clientVars>>

-----------------------------------------------------------------------------
(* Fault: the list is sent again with the connections still at the gate. *)
RewarmEveryone(c) ==
    /\ c \in Admitted
    /\ sends < MaxSends
    /\ sends' = sends + 1
    /\ inbox' = Deliver({c}, PeerList(Connections \ {c}))
    /\ rewarmed' = rewarmed \cup {c}
    /\ UNCHANGED <<serverVars, view, dials, early>>

(* peer-list-request: the client's mesh dissolved; the whole admitted list *)
(* is sent again.                                                          *)
PeerListRequest(c) ==
    /\ c \in Admitted
    /\ sends < MaxSends
    /\ sends' = sends + 1
    /\ inbox' = Deliver({c}, PeerList(Admitted \ {c}))
    /\ rewarmed' = rewarmed \cup {c}
    /\ UNCHANGED <<serverVars, view, dials, early>>

(* signal: relayed when the recipient is in `connections`, dropped in      *)
(* silence when it is not, or when the per-socket meter is over its rate   *)
(* (`metered`, the environment's choice).  Neither the recipient's         *)
(* admission nor whether the sender was told of it is asked, and ids are   *)
(* counted up: any connection, the sender's own included, may be           *)
(* addressed.                                                              *)
RelaySignal(c, to, metered) ==
    LET relayed == to \in Connections /\ ~metered
    IN  /\ c \in Admitted
        /\ sends < MaxSends
        /\ sends' = sends + 1
        /\ inbox' = IF relayed THEN Deliver({to}, Signal(c)) ELSE inbox
        /\ early' = IF relayed /\ sock[to] = "open" /\ ~admitted[to]
                    THEN early \cup {to} ELSE early
        /\ UNCHANGED <<serverVars, view, dials, rewarmed>>

(* The bridge closes an admitted socket for its own reasons: graduation    *)
(* and bootstrap release (4200), no identity bound (4401), a hello that    *)
(* does not authenticate (4426), shutdown (1001).                          *)
DoorClose(c) ==
    /\ c \in Admitted
    /\ sock[c] = "open"
    /\ sock' = Closed(c)
    /\ UNCHANGED <<admitted, turnOnly, timer, release, inbox, clientVars>>

(* Fault: a peer the bridge itself closed is not said to have left. *)
FarewellIfItLeft(c) == IF sock[c] = "open" THEN Deliver(Admitted, Left(c)) ELSE inbox

(* peer-left to every admitted peer. *)
Farewell(c) == Deliver(Admitted, Left(c))

(* The 'close' event: the connection leaves the map, its record with it,   *)
(* and every admitted peer is told, whatever the connection was.  A        *)
(* release timer still armed would close() a closed socket: no effect.     *)
CloseEvent(c) ==
    /\ sock' = [sock EXCEPT ![c] = "gone"]
    /\ admitted' = [admitted EXCEPT ![c] = FALSE]
    /\ turnOnly' = [turnOnly EXCEPT ![c] = FALSE]
    /\ timer' = [timer EXCEPT ![c] = "off"]
    /\ release' = [release EXCEPT ![c] = FALSE]
    /\ inbox' = [Farewell(c) EXCEPT ![c] = <<>>]
    /\ view' = [view EXCEPT ![c] = {}]
    /\ dials' = [dials EXCEPT ![c] = {}]
    /\ early' = early \ {c}
    /\ rewarmed' = rewarmed \ {c}
    /\ UNCHANGED sends

(* The client goes away, its network drops it, or the idle sweep           *)
(* terminates it.                                                          *)
Drop(c) == sock[c] = "open" /\ CloseEvent(c)

(* The close handshake the bridge started ends, by the peer's close frame  *)
(* or by the library's own time limit.                                     *)
CloseCompletes(c) == sock[c] = "closing" /\ CloseEvent(c)

(* The client's side of the protocol (README, connection-initiation rule). *)
(* It offers to the peers of a peer-list, waits for those of peer-joined   *)
(* and answers a signal from a peer it did not know.                       *)
ClientRead(c) ==
    /\ c \in Connections
    /\ inbox[c] # <<>>
    /\ inbox' = [inbox EXCEPT ![c] = Tail(@)]
    /\ LET f == Head(inbox[c]) IN
        /\ view' = [view EXCEPT ![c] = IF f.kind = "left" THEN @ \ f.peers
                                                          ELSE @ \cup f.peers]
        /\ dials' = [dials EXCEPT ![c] =
                        CASE f.kind = "left" -> @ \ f.peers
                          [] f.kind = "list" -> @ \cup f.peers
                          [] OTHER -> @]
    /\ UNCHANGED <<serverVars, sends, early, rewarmed>>

Next ==
    \E c \in Conn :
        \/ Connect(c)
        \/ \E stalled \in BOOLEAN : HelloTimeout(c, stalled)
        \/ RefuseHello(c)
        \/ Admit(c)
        \/ AdmitTurnRefresh(c)
        \/ TurnRelease(c)
        \/ PeerListRequest(c)
        \/ \E to \in Conn, metered \in BOOLEAN : RelaySignal(c, to, metered)
        \/ DoorClose(c)
        \/ Drop(c)
        \/ CloseCompletes(c)
        \/ ClientRead(c)

Spec == Init /\ [][Next]_vars

(* Timers of the event loop fire, a close handshake ends (the library      *)
(* destroys the socket after 30 s), and TCP delivers to a connected        *)
(* client.  No client is assumed to send anything, or to leave.            *)
Fairness ==
    \A c \in Conn : /\ WF_vars(\E stalled \in BOOLEAN : HelloTimeout(c, stalled))
                    /\ WF_vars(TurnRelease(c))
                    /\ WF_vars(CloseCompletes(c))
                    /\ WF_vars(ClientRead(c))

FairSpec == Spec /\ Fairness

-----------------------------------------------------------------------------
(* Properties *)

(* Every variable keeps its type, across every handler of the door.        *)
TypeOK == /\ sock \in [Conn -> SockState]
          /\ admitted \in [Conn -> BOOLEAN]
          /\ turnOnly \in [Conn -> BOOLEAN]
          /\ timer \in [Conn -> TimerState]
          /\ release \in [Conn -> BOOLEAN]
          /\ inbox \in [Conn -> Seq(Frame)]
          /\ view \in [Conn -> SUBSET Conn]
          /\ dials \in [Conn -> SUBSET Conn]
          /\ sends \in 0..MaxSends
          /\ early \in SUBSET Conn
          /\ rewarmed \in SUBSET Conn

(* What a client with view v will believe of p once it has read the frames *)
(* q: what the last frame that names p says, or what it believes already   *)
(* when none does.                                                         *)
Knows(q, v, p) ==
    \/ \E i \in DOMAIN q : /\ p \in q[i].peers
                           /\ q[i].kind # "left"
                           /\ \A j \in DOMAIN q : p \in q[j].peers => j <= i
    \/ p \in v /\ \A i \in DOMAIN q : p \notin q[i].peers
WillKnow(c, p) == Knows(inbox[c], view[c], p)

(* A client whose socket is open and admitted hears everything the door    *)
(* says.                                                                   *)
Hears(c) == sock[c] = "open" /\ admitted[c]

(* No ghosts: a client connected to the door never ends up believing in a  *)
(* peer that has left, however peer lists, announcements, relayed signals  *)
(* and departures interleave, and whichever sockets were admitted while    *)
(* being closed.  (server.js 'close' handler: "Tell everyone remaining     *)
(* that this peer is gone".)  A client signalled before its own admission  *)
(* is excepted: the farewell goes to admitted peers only, so it may never  *)
(* hear that its correspondent left.                                       *)
NoGhosts ==
    \A c, p \in Conn : Hears(c) /\ c \notin early /\ WillKnow(c, p) =>
        p \in Connections

(* No missed introduction: of two peers at the door, at least one will     *)
(* know of the other, though the nursery hands the newcomer only a few     *)
(* anchors.  Credential-only connections are not introduced.               *)
Introduced ==
    \A a, b \in Conn :
        /\ a # b /\ Hears(a) /\ Hears(b) /\ ~turnOnly[a] /\ ~turnOnly[b]
        => WillKnow(a, b) \/ WillKnow(b, a)

(* No introduction before the version gate: a connection that has not      *)
(* passed is told of the gate, may be signalled by a peer that addresses   *)
(* it, and is sent nothing else; it offers to nobody, and nobody will have *)
(* heard of it.  (server.js, broadcast: connections that have not          *)
(* completed the check "should never appear in peer-list or get            *)
(* peer-joined".)                                                          *)
GateKeepsApart ==
    \A c \in Conn : sock[c] # "gone" /\ ~admitted[c] =>
        /\ \A i \in DOMAIN inbox[c] : inbox[c][i].kind \in {"gate", "signal"}
        /\ dials[c] = {}
        /\ \A x \in Conn : ~WillKnow(x, c)

(* The initiation rule of the README: new peers initiate, established      *)
(* peers respond; of two connected clients only one offers to the other.   *)
(* It holds of any two that have not asked for their list again: the lists *)
(* and announcements of the admissions give each pair one initiator,       *)
(* whatever the order in which the two ends read them and whoever signals, *)
(* leaves or re-warms around them.                                         *)
FirstRolesAgree ==
    \A a, b \in Conn \ rewarmed :
        Hears(a) /\ Hears(b) /\ ~turnOnly[a] /\ ~turnOnly[b] =>
            ~(a \in dials[b] /\ b \in dials[a])

(* The door implements the presence service: a peer is present from its    *)
(* admission to its 'close' event, watches while its socket is open, and   *)
(* knows of the others what the frames on their way to it will have told   *)
(* it.  What a client signalled before its admission believes of peers     *)
(* that have left counts for nothing: it was not told.                     *)
Watchers == {c \in Conn : Hears(c)}
Known ==
    LET counts(c, p) == WillKnow(c, p) /\ (c \in early => p \in Admitted)
    IN  [c \in Conn |-> IF Hears(c) THEN {p \in Conn \ {c} : counts(c, p)} ELSE {}]

Presence == INSTANCE PeerPresence WITH
    Peer <- Conn, present <- Admitted, watching <- Watchers, knows <- Known

(* Each step of the door is a step of the presence service or leaves it    *)
(* as it is.                                                               *)
ImplementsPresence == Presence!PSpec

(* A departure is heard: a client that stays connected forgets every peer  *)
(* that left, unless it was signalled before its own admission.            *)
DepartureHeard == \A c, p \in Conn :
    sock[p] = "gone" ~> (~Hears(c) \/ p \notin view[c] \/ c \in early)

(* A seat is freed: whatever the loop's stalls, a connection that never     *)
(* passes the gate does not hold its place in the map for ever, nor does a *)
(* credential-only one, nor one the bridge has begun to close.             *)
SeatFreed == \A c \in Conn :
    /\ (sock[c] = "open" /\ ~admitted[c]) ~> (admitted[c] \/ sock[c] = "gone")
    /\ ((admitted[c] /\ turnOnly[c]) \/ sock[c] = "closing") ~> sock[c] = "gone"
=============================================================================
