---------------------------- MODULE DoorHandshake ----------------------------
(***************************************************************************)
(* Identities at the door (src/ws_transport.js and the handshake of        *)
(* src/bridge_axona_node.js).  An admitted connection is challenged with a *)
(* nonce; the peer proves its identity over it, the proof is verified      *)
(* asynchronously, and the transport binds the identity to the connection  *)
(* in two maps.  Requests to an identity travel on its bound connection    *)
(* and wait, under a timer, for a response matched by request id.          *)
(*                                                                         *)
(* verifyPeerHello awaits the verification, so between the arrival of a    *)
(* hello and its effect anything may happen: the connection may close, the *)
(* identity may bind on another connection, a second hello of the same     *)
(* connection may be verified first.  `verifying` is the set of hellos     *)
(* whose verification is under way.                                        *)
(***************************************************************************)
EXTENDS Naturals, FiniteSets

CONSTANTS Conn,         \* connection ids, never reused
          Ident,        \* authenticated node ids
          NoConn,       \* no binding
          NoIdent,      \* no binding, no pending request
          MaxReqId      \* bound: requests sent; ids do not wrap within a run

ASSUME HandshakeAssumption == /\ NoConn \notin Conn
                              /\ NoIdent \notin Ident
                              /\ MaxReqId \in Nat

ReqId == 1..MaxReqId

VARIABLES live,       \* the connection at the door: Conn -> LiveState
          hello,      \* _helloByConnId
          nonce,      \* connections with an entry in _serverNonceByConn
          verifying,  \* hellos under verification: <<connection, identity>>
          fwd,        \* _connIdByNodeId
          rev,        \* _nodeIdByConnId
          spoke,      \* history: identities bound to c while it was at the door
          pending,    \* _pending: the identity a waiting request is for
          timer,      \* requests whose timeout is armed
          promise,    \* what the caller of send() sees
          carrier,    \* the connection that carried the request to the peer
          nextId,     \* _nextId
          started,    \* _started
          reportBound \* _reportBound: the embedded peer is armed to fill

connVars == <<live, hello, nonce, verifying>>
bindVars == <<fwd, rev, spoke>>
reqVars == <<pending, timer, promise, carrier, nextId, started>>
vars == <<connVars, bindVars, reqVars, reportBound>>

LiveState == {"idle", "up", "closing", "gone"}

(* isConnOpen: connections.has, which holds until the 'close' event.       *)
IsConnOpen(c) == live[c] \in {"up", "closing"}

Waiting == {id \in ReqId : pending[id] # NoIdent}

Init == /\ live = [c \in Conn |-> "idle"]
        /\ hello = [c \in Conn |-> "none"]
        /\ nonce = {}
        /\ verifying = {}
        /\ fwd = [n \in Ident |-> NoConn]
        /\ rev = [c \in Conn |-> NoIdent]
        /\ spoke = [c \in Conn |-> {}]
        /\ pending = [id \in ReqId |-> NoIdent]
        /\ timer = {}
        /\ promise = [id \in ReqId |-> "unused"]
        /\ carrier = [id \in ReqId |-> NoConn]
        /\ nextId = 1
        /\ started = TRUE
        /\ reportBound \in BOOLEAN

-----------------------------------------------------------------------------
(* The two maps *)

(* bindPeer sets both maps and looks at neither: an identity already bound *)
(* elsewhere moves here.                                                   *)
BindPeer(n, c) == /\ fwd' = [fwd EXCEPT ![n] = c]
                  /\ rev' = [rev EXCEPT ![c] = n]
                  /\ spoke' = [spoke EXCEPT ![c] = IF IsConnOpen(c) THEN @ \cup {n} ELSE @]

(* Faults: the forward entry is cleared unasked; or left behind. *)
UnbindUnasked(c) ==
    /\ fwd' = [n \in Ident |-> IF rev[c] = n THEN NoConn ELSE fwd[n]]
    /\ rev' = [rev EXCEPT ![c] = NoIdent]
    /\ UNCHANGED spoke
UnbindHalf(c) == UNCHANGED <<fwd, spoke>> /\ rev' = [rev EXCEPT ![c] = NoIdent]

(* unbindPeer clears the forward entry only when it still names c.         *)
UnbindPeer(c) ==
    /\ fwd' = [n \in Ident |-> IF rev[c] = n /\ fwd[n] = c THEN NoConn
                                                          ELSE fwd[n]]
    /\ rev' = [rev EXCEPT ![c] = NoIdent]
    /\ UNCHANGED spoke

(* Fault: the timers are left running. *)
RejectTimed(ids) ==
    /\ pending' = [id \in ReqId |-> IF id \in ids THEN NoIdent ELSE pending[id]]
    /\ promise' = [id \in ReqId |-> IF id \in ids THEN "rejected" ELSE promise[id]]
    /\ UNCHANGED timer

(* Requests `ids` leave _pending, their timers are cleared, their callers  *)
(* see a rejection.                                                        *)
Reject(ids) ==
    /\ pending' = [id \in ReqId |-> IF id \in ids THEN NoIdent
                                                  ELSE pending[id]]
    /\ timer' = timer \ ids
    /\ promise' = [id \in ReqId |-> IF id \in ids THEN "rejected"
                                                  ELSE promise[id]]

(* Fault: only the requests the identity's present connection carried. *)
PendingCarried(n) == {id \in Waiting : pending[id] = n /\ carrier[id] = fwd[n]}

PendingFor(n) == {id \in Waiting : pending[id] = n}

-----------------------------------------------------------------------------
(* Handshake *)

(* The door admits c and calls sendHello: the challenge is recorded.  A    *)
(* credential-only connection is admitted without one.                     *)
AdmitConn(c, turn) ==
    /\ live[c] = "idle"
    /\ live' = [live EXCEPT ![c] = "up"]
    /\ IF turn THEN UNCHANGED <<hello, nonce>>
               ELSE /\ hello' = [hello EXCEPT ![c] = "pending"]
                    /\ nonce' = nonce \cup {c}
    /\ UNCHANGED <<verifying, bindVars, reqVars, reportBound>>

(* A hello or hello-ack arrives on c and its verification starts.  A bound *)
(* connection's frames carry the identity in place of the connection id,   *)
(* and a hello without a challenge to verify against is ignored.           *)
ReceiveHello(c, n) ==
    /\ IsConnOpen(c)
    /\ rev[c] = NoIdent
    /\ c \in nonce
    /\ verifying' = verifying \cup {<<c, n>>}
    /\ UNCHANGED <<live, hello, nonce, bindVars, reqVars, reportBound>>

(* The proof does not hold, or the identity is not on the allowlist: the   *)
(* connection is closed with 4426.                                         *)
VerifyFails(c, n) ==
    /\ <<c, n>> \in verifying
    /\ verifying' = verifying \ {<<c, n>>}
    /\ live' = [live EXCEPT ![c] = IF @ = "up" THEN "closing" ELSE @]
    /\ UNCHANGED <<hello, nonce, bindVars, reqVars, reportBound>>

(* Fault: a second hello of the connection completes again. *)
VerifySucceedsAgain(c, n) ==
    /\ <<c, n>> \in verifying
    /\ verifying' = verifying \ {<<c, n>>}
    /\ hello' = [hello EXCEPT ![c] = "complete"]
    /\ BindPeer(n, c)
    /\ UNCHANGED <<live, nonce, reqVars, reportBound>>

(* The proof holds: _completeHandshake.  It asks whether this connection   *)
(* completed before; it does not ask whether it is still there.            *)
VerifySucceeds(c, n) ==
    /\ <<c, n>> \in verifying
    /\ verifying' = verifying \ {<<c, n>>}
    /\ IF hello[c] = "complete"
       THEN UNCHANGED <<hello, bindVars>>
       ELSE /\ hello' = [hello EXCEPT ![c] = "complete"]
            /\ BindPeer(n, c)
    /\ UNCHANGED <<live, nonce, reqVars, reportBound>>

(* The bridge or the client begins to close c. *)
BeginClose(c) ==
    /\ live[c] = "up"
    /\ live' = [live EXCEPT ![c] = "closing"]
    /\ UNCHANGED <<hello, nonce, verifying, bindVars, reqVars, reportBound>>

(* The 'close' event of c: BridgeAxonaNode.handleConnClosed, then the      *)
(* transport's.  When c is its identity's current binding the identity has *)
(* died: its requests are rejected.  An older connection's close is not a  *)
(* death.  An unbound connection has no requests.                          *)
ConnClosed(c) ==
    /\ IsConnOpen(c)
    /\ live' = [live EXCEPT ![c] = "gone"]
    /\ hello' = [hello EXCEPT ![c] = "none"]
    /\ nonce' = nonce \ {c}
    /\ IF rev[c] # NoIdent /\ fwd[rev[c]] = c
       THEN Reject(PendingFor(rev[c]))
       ELSE UNCHANGED <<pending, timer, promise>>
    /\ UnbindPeer(c)
    /\ UNCHANGED <<verifying, carrier, nextId, started, reportBound>>

(* closeConnection, called by the embedded peer.  Armed to fill, the door  *)
(* keeps the binding and does nothing; otherwise it unbinds.               *)
CloseConnection(n) ==
    /\ ~reportBound
    /\ fwd[n] # NoConn
    /\ UnbindPeer(fwd[n])
    /\ UNCHANGED <<connVars, reqVars, reportBound>>

-----------------------------------------------------------------------------
(* Requests *)

(* send(): refused unless the identity is bound to a connection at the     *)
(* door.  The frame reaches the peer unless the socket is closing.         *)
SendRequest(n) ==
    /\ started
    /\ nextId \in ReqId
    /\ fwd[n] # NoConn
    /\ IsConnOpen(fwd[n])
    /\ nextId' = nextId + 1
    /\ pending' = [pending EXCEPT ![nextId] = n]
    /\ timer' = timer \cup {nextId}
    /\ promise' = [promise EXCEPT ![nextId] = "waiting"]
    /\ carrier' = [carrier EXCEPT ![nextId] =
                      IF live[fwd[n]] = "up" THEN fwd[n] ELSE NoConn]
    /\ UNCHANGED <<connVars, bindVars, started, reportBound>>

(* A response arrives; the peer that holds request id sends one, once.  It *)
(* is matched by id alone; one that nobody waits for changes nothing.      *)
Respond(id) ==
    /\ carrier[id] # NoConn
    /\ IsConnOpen(carrier[id])
    /\ carrier' = [carrier EXCEPT ![id] = NoConn]
    /\ IF id \in Waiting
       THEN /\ pending' = [pending EXCEPT ![id] = NoIdent]
            /\ timer' = timer \ {id}
            /\ promise' = [promise EXCEPT ![id] = "resolved"]
       ELSE UNCHANGED <<pending, timer, promise>>
    /\ UNCHANGED <<connVars, bindVars, nextId, started, reportBound>>

(* Fault: the timeout fires and rejects nobody. *)
TimeoutUnheard(id) ==
    /\ id \in timer
    /\ timer' = timer \ {id}
    /\ UNCHANGED <<connVars, bindVars, pending, promise, carrier, nextId, started, reportBound>>

(* The request's timeout fires. *)
RequestTimeout(id) ==
    /\ id \in timer
    /\ Reject({id})
    /\ UNCHANGED <<connVars, bindVars, carrier, nextId, started, reportBound>>

(* supersedePeer: the identity is served by a mesh channel from now on;    *)
(* its waiting requests fail, its binding stays.                           *)
SupersedePeer(n) ==
    /\ PendingFor(n) # {}
    /\ Reject(PendingFor(n))
    /\ UNCHANGED <<connVars, bindVars, carrier, nextId, started, reportBound>>

(* stop(): every waiting request fails. *)
Stop ==
    /\ started
    /\ started' = FALSE
    /\ Reject(Waiting)
    /\ UNCHANGED <<connVars, bindVars, carrier, nextId, reportBound>>

Next ==
    \/ \E c \in Conn :
          \/ \E turn \in BOOLEAN : AdmitConn(c, turn)
          \/ \E n \in Ident : \/ ReceiveHello(c, n)
                              \/ VerifyFails(c, n)
                              \/ VerifySucceeds(c, n)
          \/ BeginClose(c)
          \/ ConnClosed(c)
    \/ \E n \in Ident : \/ CloseConnection(n)
                        \/ SendRequest(n)
                        \/ SupersedePeer(n)
    \/ \E id \in ReqId : \/ Respond(id)
                         \/ RequestTimeout(id)
    \/ Stop

Spec == Init /\ [][Next]_vars

(* Timers fire; nothing is assumed of the peers, of the verification or of *)
(* the sockets.                                                            *)
FairSpec == Spec /\ \A id \in ReqId : WF_vars(RequestTimeout(id))

-----------------------------------------------------------------------------
(* Properties *)

(* Every variable keeps its type. *)
TypeOK == /\ live \in [Conn -> LiveState]
          /\ hello \in [Conn -> {"none", "pending", "complete"}]
          /\ nonce \subseteq Conn
          /\ verifying \subseteq Conn \X Ident
          /\ fwd \in [Ident -> Conn \cup {NoConn}]
          /\ rev \in [Conn -> Ident \cup {NoIdent}]
          /\ spoke \in [Conn -> SUBSET Ident]
          /\ pending \in [ReqId -> Ident \cup {NoIdent}]
          /\ timer \subseteq ReqId
          /\ promise \in [ReqId -> {"unused", "waiting", "resolved", "rejected"}]
          /\ carrier \in [ReqId -> Conn \cup {NoConn}]
          /\ nextId \in 1..(MaxReqId + 1)
          /\ started \in BOOLEAN /\ reportBound \in BOOLEAN

(* The two maps never disagree: the connection an identity is bound to is  *)
(* bound to that identity.  (unbindPeer clears the forward entry only when *)
(* it is still current; bindPeer overwrites it.)                           *)
BindingsAgree == \A n \in Ident : fwd[n] # NoConn => rev[fwd[n]] = n

(* A caller of send() is never forgotten: a request that waits is in       *)
(* _pending with its timer armed, whichever of the response, the timeout,  *)
(* the peer's death, the route change and the stop came for it or for      *)
(* others.                                                                 *)
NobodyForgotten == \A id \in ReqId :
    /\ promise[id] = "waiting" <=> pending[id] # NoIdent
    /\ pending[id] # NoIdent <=> id \in timer

(* Armed to fill, no request outlives its identity's binding: when the     *)
(* identity is bound nowhere, nobody waits for it.                         *)
NoOrphanRequest == reportBound =>
    \A id \in Waiting : fwd[pending[id]] # NoConn

(* A connection speaks for one identity: from its admission to its 'close' *)
(* event it is never bound to two, though several of its hellos are        *)
(* verified at once, its identity moves to another connection, or          *)
(* closeConnection has unbound it and it says hello again.  After its      *)
(* close nothing is promised: handleConnClosed has dropped the record of   *)
(* the handshake, and a hello still under verification binds it anew (see  *)
(* NoPhantomBinding).                                                      *)
OneIdentityPerConn == \A c \in Conn : \A m, n \in spoke[c] : m = n

(* The close of a socket its identity has left fails nothing: requests     *)
(* in flight to the identity keep waiting, and its binding stays.          *)
(* (handleConnClosed: "the closure of a stale route, not a death".)        *)
StaleCloseHarmless ==
    [][\A c \in Conn, n \in Ident :
          (IsConnOpen(c) /\ live'[c] = "gone" /\ fwd[n] \notin {c, NoConn})
          => fwd'[n] = fwd[n] /\ \A id \in PendingFor(n) : pending'[id] = n]_vars

(* Every request is answered or refused in the end. *)
EveryRequestSettles == \A id \in ReqId :
    promise[id] = "waiting" ~> promise[id] \in {"resolved", "rejected"}

(* handleConnClosed: "if the conn was bound to a nodeId, fire onPeerDied   *)
(* and unbind": no identity stays bound to a connection that has closed.   *)
NoPhantomBinding == \A n \in Ident : fwd[n] # NoConn => IsConnOpen(fwd[n])
=============================================================================
