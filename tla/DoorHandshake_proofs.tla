------------------------ MODULE DoorHandshake_proofs ------------------------
(***************************************************************************)
(* Proofs about DoorHandshake, for every number of connections and         *)
(* identities and every bound on the requests.  One inductive invariant,   *)
(* HandshakeInv, carries the safety invariants; the action property        *)
(* follows from it step by step.                                           *)
(***************************************************************************)
EXTENDS DoorHandshake, TLAPS

(* Why a verified hello finds its connection unbound: whoever is bound has *)
(* completed, only an admitted connection has a hello to verify, and a     *)
(* connection not yet made has neither.                                    *)
BoundIsComplete == \A c \in Conn :
    /\ rev[c] # NoIdent => hello[c] = "complete"
    /\ live[c] = "idle" => rev[c] = NoIdent
VerifyingWasAdmitted == \A p \in verifying : live[p[1]] # "idle"
ChallengedWasAdmitted == \A c \in nonce : live[c] # "idle"

BindingInv == /\ BindingsAgree
              /\ BoundIsComplete
              /\ VerifyingWasAdmitted
              /\ ChallengedWasAdmitted

(* Why a connection at the door binds once: from its first binding to its  *)
(* close the record of its handshake says "complete", though the binding   *)
(* itself may be gone.                                                     *)
SpokeIsComplete == \A c \in Conn :
    spoke[c] # {} => live[c] = "gone" \/ (IsConnOpen(c) /\ hello[c] = "complete")
SpokeInv == SpokeIsComplete /\ OneIdentityPerConn

HandshakeInv == /\ TypeOK
                /\ BindingInv
                /\ SpokeInv
                /\ NobodyForgotten
                /\ NoOrphanRequest

-----------------------------------------------------------------------------
(* The helpers on the two maps and on the requests keep the types.         *)

LEMMA BindPeerType ==
    ASSUME TypeOK, NEW n \in Ident, NEW c \in Conn, BindPeer(n, c)
    PROVE  /\ fwd' \in [Ident -> Conn \cup {NoConn}]
           /\ rev' \in [Conn -> Ident \cup {NoIdent}]
           /\ spoke' \in [Conn -> SUBSET Ident]
BY DEF TypeOK, BindPeer

LEMMA UnbindPeerType ==
    ASSUME TypeOK, NEW c \in Conn, UnbindPeer(c)
    PROVE  /\ fwd' \in [Ident -> Conn \cup {NoConn}]
           /\ rev' \in [Conn -> Ident \cup {NoIdent}]
           /\ spoke' \in [Conn -> SUBSET Ident]
BY DEF TypeOK, UnbindPeer

LEMMA RejectType ==
    ASSUME TypeOK, NEW ids \in SUBSET ReqId, Reject(ids)
    PROVE  /\ pending' \in [ReqId -> Ident \cup {NoIdent}]
           /\ timer' \subseteq ReqId
           /\ promise' \in [ReqId -> {"unused", "waiting", "resolved", "rejected"}]
BY DEF TypeOK, Reject

(* Rejecting a set of requests forgets none of the others. *)
LEMMA RejectRemembers ==
    ASSUME TypeOK, NobodyForgotten, NEW ids \in SUBSET ReqId, Reject(ids)
    PROVE  NobodyForgotten'
BY HandshakeAssumption DEF TypeOK, NobodyForgotten, Reject

LEMMA PendingForType == \A n \in Ident : PendingFor(n) \subseteq ReqId
BY DEF PendingFor, Waiting

(* Every variable keeps its type under every step of the handshake. *)
LEMMA TypeStep == TypeOK /\ [Next]_vars => TypeOK'
<1> SUFFICES ASSUME TypeOK, [Next]_vars PROVE TypeOK'
    OBVIOUS
<1> USE HandshakeAssumption
<1>1. ASSUME NEW c \in Conn, NEW turn \in BOOLEAN, AdmitConn(c, turn)
      PROVE  TypeOK'
      BY <1>1 DEF TypeOK, AdmitConn, LiveState, bindVars, reqVars
<1>2. ASSUME NEW c \in Conn, NEW n \in Ident, ReceiveHello(c, n)
      PROVE  TypeOK'
      BY <1>2 DEF TypeOK, ReceiveHello, LiveState, bindVars, reqVars
<1>3. ASSUME NEW c \in Conn, NEW n \in Ident, VerifyFails(c, n)
      PROVE  TypeOK'
      BY <1>3 DEF TypeOK, VerifyFails, LiveState, bindVars, reqVars
<1>4. ASSUME NEW c \in Conn, NEW n \in Ident, VerifySucceeds(c, n)
      PROVE  TypeOK'
  <2>1. /\ fwd' \in [Ident -> Conn \cup {NoConn}]
        /\ rev' \in [Conn -> Ident \cup {NoIdent}]
        /\ spoke' \in [Conn -> SUBSET Ident]
        BY <1>4, BindPeerType DEF TypeOK, VerifySucceeds, bindVars
  <2> QED BY <1>4, <2>1 DEF TypeOK, VerifySucceeds, LiveState, reqVars
<1>5. ASSUME NEW c \in Conn, BeginClose(c)
      PROVE  TypeOK'
      BY <1>5 DEF TypeOK, BeginClose, LiveState, bindVars, reqVars
<1>6. ASSUME NEW c \in Conn, ConnClosed(c)
      PROVE  TypeOK'
  <2>1. /\ pending' \in [ReqId -> Ident \cup {NoIdent}]
        /\ timer' \subseteq ReqId
        /\ promise' \in [ReqId -> {"unused", "waiting", "resolved", "rejected"}]
        BY <1>6, RejectType, PendingForType DEF TypeOK, ConnClosed
  <2>2. /\ fwd' \in [Ident -> Conn \cup {NoConn}]
        /\ rev' \in [Conn -> Ident \cup {NoIdent}]
        /\ spoke' \in [Conn -> SUBSET Ident]
        BY <1>6, UnbindPeerType DEF ConnClosed
  <2> QED BY <1>6, <2>1, <2>2 DEF TypeOK, ConnClosed, LiveState
<1>7. ASSUME NEW n \in Ident, CloseConnection(n)
      PROVE  TypeOK'
  <2>1. fwd[n] \in Conn
        BY <1>7 DEF TypeOK, CloseConnection
  <2>2. /\ fwd' \in [Ident -> Conn \cup {NoConn}]
        /\ rev' \in [Conn -> Ident \cup {NoIdent}]
        /\ spoke' \in [Conn -> SUBSET Ident]
        BY <1>7, <2>1, UnbindPeerType DEF CloseConnection
  <2> QED BY <1>7, <2>2 DEF TypeOK, CloseConnection, LiveState, connVars, reqVars
<1>8. ASSUME NEW n \in Ident, SendRequest(n)
      PROVE  TypeOK'
      BY <1>8 DEF TypeOK, SendRequest, ReqId, LiveState, connVars, bindVars
<1>9. ASSUME NEW id \in ReqId, Respond(id)
      PROVE  TypeOK'
      BY <1>9 DEF TypeOK, Respond, LiveState, connVars, bindVars
<1>10. ASSUME NEW id \in ReqId, RequestTimeout(id)
       PROVE  TypeOK'
       BY <1>10, RejectType DEF TypeOK, RequestTimeout, LiveState, connVars, bindVars
<1>11. ASSUME NEW n \in Ident, SupersedePeer(n)
       PROVE  TypeOK'
       BY <1>11, RejectType, PendingForType
       DEF TypeOK, SupersedePeer, LiveState, connVars, bindVars
<1>12. CASE Stop
  <2>1. Waiting \subseteq ReqId
        BY DEF Waiting
  <2> QED BY <1>12, <2>1, RejectType DEF TypeOK, Stop, LiveState, connVars, bindVars
<1>13. CASE UNCHANGED vars
       BY <1>13 DEF TypeOK, vars, connVars, bindVars, reqVars
<1> QED BY <1>1, <1>2, <1>3, <1>4, <1>5, <1>6, <1>7, <1>8, <1>9, <1>10, <1>11,
           <1>12, <1>13 DEF Next

-----------------------------------------------------------------------------
(* The two maps.  Only a verified hello, a close and closeConnection touch *)
(* them; every other step keeps what the invariant says of them.           *)

(* Clearing a connection's binding keeps the maps in agreement.            *)
LEMMA UnbindAgrees ==
    ASSUME TypeOK, BindingsAgree, NEW c \in Conn, UnbindPeer(c)
    PROVE  BindingsAgree'
<1> SUFFICES ASSUME NEW n \in Ident, fwd'[n] # NoConn PROVE rev'[fwd'[n]] = n
    BY DEF BindingsAgree
<1>1. fwd'[n] = fwd[n] /\ fwd[n] \in Conn /\ ~(rev[c] = n /\ fwd[n] = c)
      BY HandshakeAssumption DEF TypeOK, UnbindPeer
<1>2. rev[fwd[n]] = n
      BY <1>1 DEF BindingsAgree
<1>3. fwd[n] # c
      BY <1>1, <1>2
<1> QED BY <1>1, <1>2, <1>3 DEF UnbindPeer, TypeOK

(* Moving an identity to a connection that speaks for nobody keeps them in *)
(* agreement.                                                              *)
LEMMA BindAgrees ==
    ASSUME TypeOK, BindingsAgree, NEW n \in Ident, NEW c \in Conn,
           rev[c] = NoIdent, BindPeer(n, c)
    PROVE  BindingsAgree'
<1> SUFFICES ASSUME NEW m \in Ident, fwd'[m] # NoConn PROVE rev'[fwd'[m]] = m
    BY DEF BindingsAgree
<1>1. CASE m = n
      BY <1>1 DEF TypeOK, BindPeer
<1>2. CASE m # n
  <2>1. fwd'[m] = fwd[m] /\ fwd[m] \in Conn
        BY <1>2 DEF TypeOK, BindPeer
  <2>2. rev[fwd[m]] = m
        BY <2>1 DEF BindingsAgree
  <2>3. fwd[m] # c
        BY <2>2, HandshakeAssumption
  <2> QED BY <2>1, <2>2, <2>3 DEF TypeOK, BindPeer
<1> QED BY <1>1, <1>2

LEMMA BindingStep == TypeOK /\ BindingInv /\ [Next]_vars => BindingInv'
<1> SUFFICES ASSUME TypeOK, BindingInv, [Next]_vars PROVE BindingInv'
    OBVIOUS
<1> USE HandshakeAssumption DEF BindingInv
<1>1. ASSUME NEW c \in Conn, NEW turn \in BOOLEAN, AdmitConn(c, turn)
      PROVE  BindingInv'
  <2>1. BindingsAgree'
        BY <1>1 DEF AdmitConn, bindVars, BindingsAgree
  <2>2. BoundIsComplete'
        BY <1>1 DEF AdmitConn, bindVars, BoundIsComplete, TypeOK
  <2>3. VerifyingWasAdmitted' /\ ChallengedWasAdmitted'
        BY <1>1 DEF AdmitConn, VerifyingWasAdmitted, ChallengedWasAdmitted, TypeOK
  <2> QED BY <2>1, <2>2, <2>3
<1>2. ASSUME NEW c \in Conn, NEW n \in Ident, ReceiveHello(c, n)
      PROVE  BindingInv'
  <2>1. BindingsAgree' /\ BoundIsComplete' /\ ChallengedWasAdmitted'
        BY <1>2 DEF ReceiveHello, bindVars, BindingsAgree, BoundIsComplete,
                    ChallengedWasAdmitted
  <2>2. VerifyingWasAdmitted'
        BY <1>2 DEF ReceiveHello, IsConnOpen, VerifyingWasAdmitted
  <2> QED BY <2>1, <2>2
<1>3. ASSUME NEW c \in Conn, NEW n \in Ident, VerifyFails(c, n)
      PROVE  BindingInv'
  <2>1. BindingsAgree'
        BY <1>3 DEF VerifyFails, bindVars, BindingsAgree
  <2>2. \A x \in Conn : live[x] = "idle" <=> live'[x] = "idle"
        BY <1>3 DEF VerifyFails, TypeOK, LiveState
  <2>3. BoundIsComplete' /\ ChallengedWasAdmitted'
        BY <1>3, <2>2 DEF VerifyFails, bindVars, BoundIsComplete,
                          ChallengedWasAdmitted, TypeOK
  <2>4. VerifyingWasAdmitted'
        BY <1>3, <2>2 DEF VerifyFails, VerifyingWasAdmitted, TypeOK
  <2> QED BY <2>1, <2>3, <2>4
<1>4. ASSUME NEW c \in Conn, NEW n \in Ident, VerifySucceeds(c, n)
      PROVE  BindingInv'
  <2>1. VerifyingWasAdmitted' /\ ChallengedWasAdmitted'
        BY <1>4 DEF VerifySucceeds, VerifyingWasAdmitted, ChallengedWasAdmitted
  <2>2. CASE hello[c] = "complete"
        BY <1>4, <2>1, <2>2 DEF VerifySucceeds, bindVars, BindingsAgree,
                                BoundIsComplete
  <2>3. CASE hello[c] # "complete"
    <3>1. rev[c] = NoIdent /\ BindPeer(n, c)
          BY <1>4, <2>3 DEF VerifySucceeds, BoundIsComplete
    <3>2. live[c] # "idle"
          BY <1>4 DEF VerifySucceeds, VerifyingWasAdmitted
    <3>3. BoundIsComplete'
          BY <1>4, <2>3, <3>1, <3>2
          DEF VerifySucceeds, BindPeer, BoundIsComplete, TypeOK
    <3> QED BY <2>1, <3>1, <3>3, BindAgrees
  <2> QED BY <2>2, <2>3
<1>5. ASSUME NEW c \in Conn, BeginClose(c)
      PROVE  BindingInv'
  <2>1. \A x \in Conn : live[x] = "idle" <=> live'[x] = "idle"
        BY <1>5 DEF BeginClose, TypeOK, LiveState
  <2> QED BY <1>5, <2>1 DEF BeginClose, bindVars, BindingsAgree,
             BoundIsComplete, VerifyingWasAdmitted, ChallengedWasAdmitted, TypeOK
<1>6. ASSUME NEW c \in Conn, ConnClosed(c)
      PROVE  BindingInv'
  <2>1. BindingsAgree'
        BY <1>6, UnbindAgrees DEF ConnClosed
  <2>2. BoundIsComplete'
        BY <1>6 DEF ConnClosed, UnbindPeer, IsConnOpen, BoundIsComplete, TypeOK
  <2>3. VerifyingWasAdmitted' /\ ChallengedWasAdmitted'
        BY <1>6 DEF ConnClosed, VerifyingWasAdmitted, ChallengedWasAdmitted, TypeOK
  <2> QED BY <2>1, <2>2, <2>3
<1>7. ASSUME NEW n \in Ident, CloseConnection(n)
      PROVE  BindingInv'
  <2>1. fwd[n] \in Conn /\ UnbindPeer(fwd[n]) /\ UNCHANGED connVars
        BY <1>7 DEF CloseConnection, TypeOK
  <2>2. BindingsAgree'
        BY <2>1, UnbindAgrees
  <2>3. BoundIsComplete'
        BY <2>1 DEF UnbindPeer, BoundIsComplete, TypeOK, connVars
  <2>4. VerifyingWasAdmitted' /\ ChallengedWasAdmitted'
        BY <2>1 DEF VerifyingWasAdmitted, ChallengedWasAdmitted, connVars
  <2> QED BY <2>2, <2>3, <2>4
<1>8. ASSUME UNCHANGED <<connVars, bindVars>>
      PROVE  BindingInv'
      BY <1>8 DEF connVars, bindVars, BindingsAgree, BoundIsComplete,
                  VerifyingWasAdmitted, ChallengedWasAdmitted
<1>9. ASSUME NEW n \in Ident, SendRequest(n) \/ SupersedePeer(n)
      PROVE  BindingInv'
      BY <1>8, <1>9 DEF SendRequest, SupersedePeer
<1>10. ASSUME NEW id \in ReqId, Respond(id) \/ RequestTimeout(id)
       PROVE  BindingInv'
       BY <1>8, <1>10 DEF Respond, RequestTimeout
<1>11. CASE Stop \/ UNCHANGED vars
       BY <1>8, <1>11 DEF Stop, vars
<1> QED BY <1>1, <1>2, <1>3, <1>4, <1>5, <1>6, <1>7, <1>9, <1>10, <1>11 DEF Next

-----------------------------------------------------------------------------
(* One identity while at the door.                                         *)

LEMMA SpokeStep == TypeOK /\ BindingInv /\ SpokeInv /\ [Next]_vars => SpokeInv'
<1> SUFFICES ASSUME TypeOK, BindingInv, SpokeInv, [Next]_vars PROVE SpokeInv'
    OBVIOUS
<1>0. SpokeIsComplete /\ OneIdentityPerConn
      BY DEF SpokeInv
<1>1. ASSUME UNCHANGED spoke,
             \A c \in Conn : spoke[c] # {} =>
                 live'[c] = "gone" \/ (IsConnOpen(c)' /\ hello'[c] = "complete")
      PROVE  SpokeInv'
      BY <1>0, <1>1 DEF SpokeInv, SpokeIsComplete, OneIdentityPerConn
<1>2. ASSUME UNCHANGED <<spoke, live, hello>>
      PROVE  SpokeInv'
      BY <1>0, <1>1, <1>2 DEF SpokeIsComplete, IsConnOpen
<1>3. ASSUME NEW d \in Conn, NEW turn \in BOOLEAN, AdmitConn(d, turn)
      PROVE  SpokeInv'
  <2>1. spoke[d] = {}
        BY <1>0, <1>3 DEF AdmitConn, SpokeIsComplete, IsConnOpen
  <2>2. \A c \in Conn : c # d => live'[c] = live[c] /\ hello'[c] = hello[c]
        BY <1>3 DEF AdmitConn, TypeOK
  <2>3. UNCHANGED spoke
        BY <1>3 DEF AdmitConn, bindVars
  <2> QED BY <1>0, <1>1, <2>1, <2>2, <2>3 DEF SpokeIsComplete, IsConnOpen
<1>4. ASSUME NEW d \in Conn, NEW n \in Ident, ReceiveHello(d, n)
      PROVE  SpokeInv'
      BY <1>2, <1>4 DEF ReceiveHello, bindVars
<1>5. ASSUME NEW d \in Conn, live[d] # "idle",
             live' = [live EXCEPT ![d] = IF @ = "up" THEN "closing" ELSE @],
             UNCHANGED <<spoke, hello>>
      PROVE  SpokeInv'
  <2>1. \A c \in Conn : /\ live[c] = "gone" => live'[c] = "gone"
                        /\ IsConnOpen(c) => IsConnOpen(c)'
        BY <1>5 DEF IsConnOpen, TypeOK
  <2> QED BY <1>0, <1>1, <1>5, <2>1 DEF SpokeIsComplete
<1>6. ASSUME NEW d \in Conn, NEW n \in Ident, VerifyFails(d, n)
      PROVE  SpokeInv'
  <2>1. live[d] # "idle"
        BY <1>6 DEF VerifyFails, BindingInv, VerifyingWasAdmitted
  <2> QED BY <1>5, <1>6, <2>1 DEF VerifyFails, bindVars
<1>7. ASSUME NEW d \in Conn, BeginClose(d)
      PROVE  SpokeInv'
  <2>1. live' = [live EXCEPT ![d] = IF @ = "up" THEN "closing" ELSE @]
        BY <1>7 DEF BeginClose, TypeOK
  <2> QED BY <1>5, <1>7, <2>1 DEF BeginClose, bindVars
<1>8. ASSUME NEW d \in Conn, NEW n \in Ident, VerifySucceeds(d, n)
      PROVE  SpokeInv'
  <2>1. UNCHANGED live
        BY <1>8 DEF VerifySucceeds
  <2>2. CASE hello[d] = "complete"
        BY <1>2, <1>8, <2>1, <2>2 DEF VerifySucceeds, bindVars
  <2>3. CASE hello[d] # "complete"
    <3>1. /\ hello' = [hello EXCEPT ![d] = "complete"]
          /\ spoke' = [spoke EXCEPT ![d] =
                          IF IsConnOpen(d) THEN @ \cup {n} ELSE @]
          BY <1>8, <2>3 DEF VerifySucceeds, BindPeer
    <3>2. IsConnOpen(d) => spoke[d] = {}
          BY <1>0, <2>3 DEF SpokeIsComplete, IsConnOpen
    <3>3. spoke'[d] = IF IsConnOpen(d) THEN {n} ELSE spoke[d]
          BY <3>1, <3>2 DEF TypeOK
    <3>4. hello'[d] = "complete"
          BY <3>1 DEF TypeOK
    <3>5. \A c \in Conn : c # d => spoke'[c] = spoke[c] /\ hello'[c] = hello[c]
          BY <3>1 DEF TypeOK
    <3>6. \A c \in Conn : IsConnOpen(c)' <=> IsConnOpen(c)
          BY <2>1 DEF IsConnOpen
    <3>7. SpokeIsComplete'
          BY <1>0, <2>1, <3>3, <3>4, <3>5, <3>6 DEF SpokeIsComplete
    <3>8. OneIdentityPerConn'
          BY <1>0, <3>3, <3>5 DEF OneIdentityPerConn
    <3> QED BY <3>7, <3>8 DEF SpokeInv
  <2> QED BY <2>2, <2>3
<1>9. ASSUME NEW d \in Conn, ConnClosed(d)
      PROVE  SpokeInv'
  <2>1. UNCHANGED spoke
        BY <1>9 DEF ConnClosed, UnbindPeer
  <2>2. live'[d] = "gone"
        BY <1>9 DEF ConnClosed, TypeOK
  <2>3. \A c \in Conn : c # d => live'[c] = live[c] /\ hello'[c] = hello[c]
        BY <1>9 DEF ConnClosed, TypeOK
  <2> QED BY <1>0, <1>1, <2>1, <2>2, <2>3 DEF SpokeIsComplete, IsConnOpen
<1>10. ASSUME NEW n \in Ident, CloseConnection(n)
       PROVE  SpokeInv'
       BY <1>2, <1>10 DEF CloseConnection, UnbindPeer, connVars
<1>11. CASE \/ \E n \in Ident : SendRequest(n) \/ SupersedePeer(n)
            \/ \E id \in ReqId : Respond(id) \/ RequestTimeout(id)
            \/ Stop
            \/ UNCHANGED vars
       BY <1>2, <1>11 DEF SendRequest, SupersedePeer, Respond, RequestTimeout,
                         Stop, vars, connVars, bindVars
<1> QED BY <1>3, <1>4, <1>6, <1>7, <1>8, <1>9, <1>10, <1>11 DEF Next

-----------------------------------------------------------------------------
(* The callers of send().                                                  *)

LEMMA RememberStep == TypeOK /\ NobodyForgotten /\ [Next]_vars => NobodyForgotten'
<1> SUFFICES ASSUME TypeOK, NobodyForgotten, [Next]_vars PROVE NobodyForgotten'
    OBVIOUS
<1>1. ASSUME UNCHANGED <<pending, timer, promise>>
      PROVE  NobodyForgotten'
      BY <1>1 DEF NobodyForgotten
<1>2. ASSUME NEW ids \in SUBSET ReqId, Reject(ids)
      PROVE  NobodyForgotten'
      BY <1>2, RejectRemembers
<1>3. ASSUME NEW c \in Conn, NEW turn \in BOOLEAN, AdmitConn(c, turn)
      PROVE  NobodyForgotten'
      BY <1>1, <1>3 DEF AdmitConn, reqVars
<1>4. ASSUME NEW c \in Conn, NEW n \in Ident,
             ReceiveHello(c, n) \/ VerifyFails(c, n) \/ VerifySucceeds(c, n)
      PROVE  NobodyForgotten'
      BY <1>1, <1>4 DEF ReceiveHello, VerifyFails, VerifySucceeds, reqVars
<1>5. ASSUME NEW c \in Conn, BeginClose(c)
      PROVE  NobodyForgotten'
      BY <1>1, <1>5 DEF BeginClose, reqVars
<1>6. ASSUME NEW c \in Conn, ConnClosed(c)
      PROVE  NobodyForgotten'
      BY <1>1, <1>2, <1>6, PendingForType DEF ConnClosed, TypeOK
<1>7. ASSUME NEW n \in Ident, CloseConnection(n)
      PROVE  NobodyForgotten'
      BY <1>1, <1>7 DEF CloseConnection, reqVars
<1>8. ASSUME NEW n \in Ident, SendRequest(n)
      PROVE  NobodyForgotten'
      BY <1>8, HandshakeAssumption DEF SendRequest, NobodyForgotten, TypeOK
<1>9. ASSUME NEW id \in ReqId, Respond(id)
      PROVE  NobodyForgotten'
      BY <1>9 DEF Respond, NobodyForgotten, TypeOK
<1>10. ASSUME NEW id \in ReqId, RequestTimeout(id)
       PROVE  NobodyForgotten'
       BY <1>2, <1>10 DEF RequestTimeout
<1>11. ASSUME NEW n \in Ident, SupersedePeer(n)
       PROVE  NobodyForgotten'
       BY <1>2, <1>11, PendingForType DEF SupersedePeer
<1>12. CASE Stop
  <2>1. Waiting \in SUBSET ReqId
        BY DEF Waiting
  <2> QED BY <1>2, <1>12, <2>1 DEF Stop
<1>13. CASE UNCHANGED vars
       BY <1>1, <1>13 DEF vars, reqVars
<1> QED BY <1>3, <1>4, <1>5, <1>6, <1>7, <1>8, <1>9, <1>10, <1>11, <1>12, <1>13
        DEF Next

(* A rejection leaves no request waiting that did not wait before.         *)
LEMMA RejectWaiting ==
    ASSUME TypeOK, NEW ids \in SUBSET ReqId, Reject(ids)
    PROVE  \A id \in Waiting' : /\ id \in Waiting \ ids
                                /\ pending'[id] = pending[id]
BY DEF TypeOK, Reject, Waiting

(* Whether the door reports its peers is settled at construction. *)
LEMMA ArmedForGood == [Next]_vars => reportBound' = reportBound
BY DEF Next, vars, AdmitConn, ReceiveHello, VerifyFails, VerifySucceeds, BeginClose,
       ConnClosed, CloseConnection, SendRequest, Respond, RequestTimeout,
       SupersedePeer, Stop

LEMMA OrphanStep ==
    TypeOK /\ NoOrphanRequest /\ [Next]_vars => NoOrphanRequest'
<1> SUFFICES ASSUME TypeOK, NoOrphanRequest, [Next]_vars, reportBound,
                    NEW id \in Waiting'
             PROVE  fwd'[pending'[id]] # NoConn
    BY ArmedForGood DEF NoOrphanRequest
<1> USE HandshakeAssumption DEF NoOrphanRequest
<1>1. ASSUME id \in Waiting, pending'[id] = pending[id], UNCHANGED fwd
      PROVE  fwd'[pending'[id]] # NoConn
      BY <1>1
<1>2. ASSUME UNCHANGED <<pending, fwd>>
      PROVE  fwd'[pending'[id]] # NoConn
      BY <1>1, <1>2 DEF Waiting
<1>3. ASSUME NEW ids \in SUBSET ReqId, Reject(ids), UNCHANGED fwd
      PROVE  fwd'[pending'[id]] # NoConn
      BY <1>1, <1>3, RejectWaiting
<1>4. ASSUME NEW c \in Conn, NEW turn \in BOOLEAN, AdmitConn(c, turn)
      PROVE  fwd'[pending'[id]] # NoConn
      BY <1>2, <1>4 DEF AdmitConn, bindVars, reqVars
<1>5. ASSUME NEW c \in Conn, NEW n \in Ident,
             ReceiveHello(c, n) \/ VerifyFails(c, n)
      PROVE  fwd'[pending'[id]] # NoConn
      BY <1>2, <1>5 DEF ReceiveHello, VerifyFails, bindVars, reqVars
<1>6. ASSUME NEW c \in Conn, NEW n \in Ident, VerifySucceeds(c, n)
      PROVE  fwd'[pending'[id]] # NoConn
  <2>1. UNCHANGED pending
        BY <1>6 DEF VerifySucceeds, reqVars
  <2>2. CASE UNCHANGED fwd
        BY <1>2, <2>1, <2>2
  <2>3. CASE BindPeer(n, c)
    <3>1. id \in Waiting /\ pending[id] \in Ident
          BY <2>1 DEF Waiting, TypeOK
    <3> QED BY <2>1, <2>3, <3>1 DEF BindPeer, TypeOK
  <2> QED BY <1>6, <2>2, <2>3 DEF VerifySucceeds, bindVars
<1>7. ASSUME NEW c \in Conn, BeginClose(c)
      PROVE  fwd'[pending'[id]] # NoConn
      BY <1>2, <1>7 DEF BeginClose, bindVars, reqVars
<1>8. ASSUME NEW c \in Conn, ConnClosed(c)
      PROVE  fwd'[pending'[id]] # NoConn
  <2>1. CASE rev[c] # NoIdent /\ fwd[rev[c]] = c
    <3>1. rev[c] \in Ident /\ Reject(PendingFor(rev[c]))
          BY <1>8, <2>1 DEF ConnClosed, TypeOK
    <3>2. /\ id \in Waiting \ PendingFor(rev[c])
          /\ pending'[id] = pending[id]
          BY <3>1, PendingForType, RejectWaiting
    <3>3. pending[id] \in Ident /\ pending[id] # rev[c]
          BY <3>2 DEF Waiting, PendingFor, TypeOK
    <3> QED BY <1>8, <3>2, <3>3 DEF ConnClosed, UnbindPeer
  <2>2. CASE ~(rev[c] # NoIdent /\ fwd[rev[c]] = c)
    <3>1. id \in Waiting /\ pending[id] \in Ident /\ UNCHANGED pending
          BY <1>8, <2>2 DEF ConnClosed, Waiting, TypeOK
    <3>2. ~(rev[c] = pending[id] /\ fwd[pending[id]] = c)
          BY <2>2, <3>1
    <3>3. UnbindPeer(c)
          BY <1>8 DEF ConnClosed
    <3>4. fwd'[pending[id]] = fwd[pending[id]]
          BY <3>1, <3>2, <3>3 DEF UnbindPeer
    <3> QED BY <3>1, <3>4
  <2> QED BY <2>1, <2>2
<1>9. ASSUME NEW n \in Ident, CloseConnection(n)
      PROVE  fwd'[pending'[id]] # NoConn
      BY <1>9 DEF CloseConnection
<1>10. ASSUME NEW n \in Ident, SendRequest(n)
       PROVE  fwd'[pending'[id]] # NoConn
  <2>1. CASE id = nextId
        BY <1>10, <2>1 DEF SendRequest, TypeOK, bindVars
  <2>2. CASE id # nextId
        BY <1>1, <1>10, <2>2 DEF SendRequest, TypeOK, bindVars, Waiting
  <2> QED BY <2>1, <2>2
<1>11. ASSUME NEW i \in ReqId, Respond(i)
       PROVE  fwd'[pending'[id]] # NoConn
  <2>1. id \in Waiting /\ pending'[id] = pending[id]
        BY <1>11 DEF Respond, Waiting, TypeOK
  <2> QED BY <1>1, <1>11, <2>1 DEF Respond, bindVars
<1>12. ASSUME NEW i \in ReqId, RequestTimeout(i)
       PROVE  fwd'[pending'[id]] # NoConn
       BY <1>3, <1>12 DEF RequestTimeout, bindVars
<1>13. ASSUME NEW n \in Ident, SupersedePeer(n)
       PROVE  fwd'[pending'[id]] # NoConn
       BY <1>3, <1>13, PendingForType DEF SupersedePeer, bindVars
<1>14. CASE Stop
  <2>1. Waiting \in SUBSET ReqId
        BY DEF Waiting
  <2> QED BY <1>3, <1>14, <2>1 DEF Stop, bindVars
<1>15. CASE UNCHANGED vars
       BY <1>2, <1>15 DEF vars, bindVars, reqVars
<1> QED BY <1>4, <1>5, <1>6, <1>7, <1>8, <1>9, <1>10, <1>11, <1>12, <1>13,
           <1>14, <1>15 DEF Next

-----------------------------------------------------------------------------
(* What one step may never do.                                             *)

(* The one step by which an open connection becomes a closed one.          *)
LEMMA OnlyConnClosedCloses ==
    ASSUME TypeOK, [Next]_vars, NEW c \in Conn, IsConnOpen(c), live'[c] = "gone"
    PROVE  ConnClosed(c)
<1> USE DEF IsConnOpen
<1>1. ASSUME UNCHANGED live PROVE FALSE
      BY <1>1
<1>2. ASSUME NEW d \in Conn, NEW turn \in BOOLEAN, AdmitConn(d, turn) PROVE FALSE
      BY <1>2 DEF AdmitConn, TypeOK
<1>3. ASSUME NEW d \in Conn, NEW n \in Ident,
             ReceiveHello(d, n) \/ VerifyFails(d, n) \/ VerifySucceeds(d, n)
      PROVE FALSE
      BY <1>3 DEF ReceiveHello, VerifyFails, VerifySucceeds, TypeOK
<1>4. ASSUME NEW d \in Conn, BeginClose(d) PROVE FALSE
      BY <1>4 DEF BeginClose, TypeOK
<1>5. ASSUME NEW d \in Conn, ConnClosed(d), d # c PROVE FALSE
      BY <1>5 DEF ConnClosed, TypeOK
<1>6. CASE \/ \E n \in Ident : CloseConnection(n) \/ SendRequest(n) \/ SupersedePeer(n)
           \/ \E id \in ReqId : Respond(id) \/ RequestTimeout(id)
           \/ Stop
           \/ UNCHANGED vars
      BY <1>1, <1>6 DEF CloseConnection, SendRequest, SupersedePeer, Respond,
                        RequestTimeout, Stop, vars, connVars
<1> QED BY <1>2, <1>3, <1>4, <1>5, <1>6 DEF Next

(* The close of a connection touches the requests of the identity that is  *)
(* bound to it now, and of no other.                                       *)
LEMMA StaleCloseStep ==
    ASSUME TypeOK, [Next]_vars, NEW c \in Conn, NEW n \in Ident,
           IsConnOpen(c), live'[c] = "gone", fwd[n] \notin {c, NoConn}
    PROVE  /\ fwd'[n] = fwd[n]
           /\ \A id \in PendingFor(n) : pending'[id] = n
<1>1. ConnClosed(c)
      BY OnlyConnClosedCloses
<1>2. fwd'[n] = fwd[n]
      BY <1>1 DEF ConnClosed, UnbindPeer
<1>3. \A id \in PendingFor(n) : id \in ReqId /\ pending[id] = n
      BY DEF PendingFor, Waiting
<1>4. CASE rev[c] # NoIdent /\ fwd[rev[c]] = c
  <2>1. n # rev[c] /\ Reject(PendingFor(rev[c]))
        BY <1>1, <1>4 DEF ConnClosed
  <2>2. \A id \in PendingFor(n) : id \notin PendingFor(rev[c])
        BY <2>1, <1>3 DEF PendingFor
  <2> QED BY <1>2, <1>3, <2>1, <2>2 DEF Reject
<1>5. CASE ~(rev[c] # NoIdent /\ fwd[rev[c]] = c)
      BY <1>1, <1>2, <1>3, <1>5 DEF ConnClosed
<1> QED BY <1>4, <1>5

-----------------------------------------------------------------------------
(* The theorems.                                                           *)

LEMMA InitInv == Init => HandshakeInv
<1> SUFFICES ASSUME Init PROVE HandshakeInv
    OBVIOUS
<1> USE HandshakeAssumption DEF Init
<1>1. TypeOK
      BY DEF TypeOK, LiveState, ReqId
<1>2. BindingInv
      BY DEF BindingInv, BindingsAgree, BoundIsComplete, VerifyingWasAdmitted,
             ChallengedWasAdmitted
<1>3. NobodyForgotten /\ NoOrphanRequest
      BY DEF NobodyForgotten, NoOrphanRequest, Waiting
<1>4. SpokeInv
      BY DEF SpokeInv, SpokeIsComplete, OneIdentityPerConn
<1> QED BY <1>1, <1>2, <1>3, <1>4 DEF HandshakeInv

(* The invariant holds in every state of every behaviour.                  *)
THEOREM Invariance == Spec => []HandshakeInv
<1>1. HandshakeInv /\ [Next]_vars => HandshakeInv'
      BY TypeStep, BindingStep, SpokeStep, RememberStep, OrphanStep DEF HandshakeInv
<1> QED BY InitInv, <1>1, PTL DEF Spec

(* Every variable of the handshake keeps its type.                         *)
THEOREM TypeCorrect == Spec => []TypeOK
<1>1. HandshakeInv => TypeOK
      BY DEF HandshakeInv
<1> QED BY Invariance, <1>1, PTL

(* _connIdByNodeId and _nodeIdByConnId never disagree.                     *)
THEOREM MapsAgree == Spec => []BindingsAgree
<1>1. HandshakeInv => BindingsAgree
      BY DEF HandshakeInv, BindingInv
<1> QED BY Invariance, <1>1, PTL

(* No caller of send() waits without an entry in _pending and a timer.     *)
THEOREM CallersRemembered == Spec => []NobodyForgotten
<1>1. HandshakeInv => NobodyForgotten
      BY DEF HandshakeInv
<1> QED BY Invariance, <1>1, PTL

(* On an armed door no request waits for an identity bound nowhere.        *)
THEOREM NoOrphans == Spec => []NoOrphanRequest
<1>1. HandshakeInv => NoOrphanRequest
      BY DEF HandshakeInv
<1> QED BY Invariance, <1>1, PTL

(* While a connection is at the door it is bound to one identity: however  *)
(* many of its hellos are verified, in whatever order they end, and though *)
(* the binding is taken away in between.                                   *)
THEOREM SpeaksForOne == Spec => []OneIdentityPerConn
<1>1. HandshakeInv => OneIdentityPerConn
      BY DEF HandshakeInv, SpokeInv
<1> QED BY Invariance, <1>1, PTL

(* The close of a superseded socket is not a death.                        *)
THEOREM StaleCloseSpares == Spec => StaleCloseHarmless
<1>1. HandshakeInv /\ [Next]_vars =>
        [\A c \in Conn, n \in Ident :
          (IsConnOpen(c) /\ live'[c] = "gone" /\ fwd[n] \notin {c, NoConn})
          => fwd'[n] = fwd[n] /\ \A id \in PendingFor(n) : pending'[id] = n]_vars
      BY StaleCloseStep DEF HandshakeInv
<1> QED BY Invariance, <1>1, PTL DEF Spec, StaleCloseHarmless
=============================================================================
