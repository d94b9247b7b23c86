----------------------------- MODULE Graduation -----------------------------
(***************************************************************************)
(* Graduation (src/server.js maybeGraduate, maybeCloseBootstrapSocket and  *)
(* src/graduation_select.js).  The bridge is a bootstrap node: above its   *)
(* cap it closes one established peer per interval with code 4200, chosen  *)
(* from the most crowded region of the key space, and remembers whom it    *)
(* graduated.  A socket it has closed stays in `connections`, admitted,    *)
(* until its 'close' event, up to CloseTime later.                         *)
(*                                                                         *)
(* Every door of the instances is smaller than the nursery's minimum pool, *)
(* so an introduction lists every admitted peer.  A peer's region is the   *)
(* top byte of its bound identity.                                         *)
(***************************************************************************)
EXTENDS Integers, FiniteSets

CONSTANTS Conn, Node, NoNode,
          RegionOf,     \* the region of each identity
          MaxPeers,     \* BRIDGE_MAX_PEERS
          Slack,        \* BRIDGE_GRADUATION_SLACK
          Interval,     \* BRIDGE_GRADUATION_INTERVAL_MS
          Cooldown,     \* BRIDGE_GRADUATION_COOLDOWN_MS
          VitalityTTL,  \* BRIDGE_GRADUATION_VITALITY_TTL_MS
          SafeFloor,    \* BRIDGE_GRADUATION_SAFE_FLOOR
          MinUptime,    \* BRIDGE_GRADUATION_MIN_UPTIME_MS
          MaxNursery,   \* BRIDGE_GRADUATION_MAX_NURSERY_MS
          CohortTime,   \* BRIDGE_COHORT_MS
          GateOn,       \* BRIDGE_GRADUATION_GATE
          SampleOn,     \* BRIDGE_GRADUATED_SAMPLE
          BootstrapOn,  \* BRIDGE_SOCKET_IS_BOOTSTRAP
          Sizes,        \* mesh sizes a client may report
          CloseTime,    \* how long a close handshake may take
          MaxTime       \* bound on the clock

ASSUME GraduationAssumption ==
    /\ NoNode \notin Node
    /\ {MaxPeers, Slack, MinUptime, MaxNursery, CohortTime, CloseTime, MaxTime,
        SafeFloor} \subseteq Nat
    /\ {Interval, Cooldown, VitalityTTL} \subseteq Nat \ {0}
    /\ Sizes \subseteq Nat
    /\ {GateOn, SampleOn, BootstrapOn} \subseteq BOOLEAN
    /\ DOMAIN RegionOf = Node

VARIABLES now,        \* Date.now()
          sock,       \* the admitted connections and where they are
          since,      \* conn.since
          node,       \* the identity bound to the connection (nodeIdFor)
          modern,     \* the client's kernel honours close code 4200
          size,       \* conn.meshBound
          sizeAt,     \* conn.meshBoundAt, 0 before the first report
          reached,    \* conn.intro names somebody outside its cohort
          channel,    \* doorChannelBound
          closeBy,    \* when the close handshake is cut short
          lastGrad,   \* lastGraduationAt
          cooled,     \* graduatedRecently, 0 for no entry
          remembered, \* the registry of graduated identities
          lastOff,    \* history: when a node was last graduated over the cap
          freed       \* history: the connections that rule 4 released

connVars == <<since, node, modern, size, sizeAt, reached, channel>>
memory == <<cooled, remembered>>
history == <<lastOff, freed>>
vars == <<now, sock, connVars, closeBy, lastGrad, memory, history>>

Admitted == {c \in Conn : sock[c] \in {"open", "closing"}}
Closing == {c \in Conn : sock[c] = "closing"}
High == MaxPeers + Slack

(* Epoch: the process starts with every window of the past elapsed.        *)
Epoch == Interval + Cooldown + MaxNursery

Init == /\ now = Epoch
        /\ sock = [c \in Conn |-> "idle"]
        /\ since = [c \in Conn |-> 0]
        /\ node = [c \in Conn |-> NoNode]
        /\ modern = [c \in Conn |-> FALSE]
        /\ size = [c \in Conn |-> 0]
        /\ sizeAt = [c \in Conn |-> 0]
        /\ reached = [c \in Conn |-> FALSE]
        /\ channel = [c \in Conn |-> FALSE]
        /\ closeBy = [c \in Conn |-> 0]
        /\ lastGrad = 0
        /\ cooled = [n \in Node |-> 0]
        /\ remembered = {}
        /\ lastOff = [n \in Node |-> 0]
        /\ freed = {}

-----------------------------------------------------------------------------
(* The selection *)

Age(c) == now - since[c]

(* The reported mesh size while it is fresh, else -1. *)
FreshSize(c) == IF sizeAt[c] # 0 /\ now - sizeAt[c] < VitalityTTL
                THEN size[c] ELSE -1

HasBasis(c) == \/ FreshSize(c) >= SafeFloor
               \/ Age(c) >= MaxNursery
               \/ FreshSize(c) = -1 /\ Age(c) >= MinUptime

(* Fault: the interval in the place of the cooldown. *)
InCooldownByInterval(n) == cooled[n] # 0 /\ now - cooled[n] < Interval

InCooldown(n) == cooled[n] # 0 /\ now - cooled[n] < Cooldown

OutsideCohort(c) == reached[c] \/ (BootstrapOn /\ channel[c])

(* The gate holds a candidate whose introduction never left its cohort,    *)
(* until the nursery ceiling; selectGraduate is handed the others.         *)
Candidates == {c \in Admitted : \/ ~GateOn
                                \/ OutsideCohort(c)
                                \/ Age(c) >= MaxNursery}

(* The members of S whose bound identity lies where c's does. *)
Mates(S, c) == {d \in S : node[d] # NoNode /\ RegionOf[node[d]] = RegionOf[node[c]]}
RegionCount(c) == Cardinality(Mates(Candidates, c))

Eligible == {c \in Candidates : /\ modern[c]
                                /\ node[c] # NoNode
                                /\ ~InCooldown(node[c])
                                /\ HasBasis(c)}

(* The ranking: most crowded region, then best meshed, then oldest. *)
Before(a, b) ==
    \/ RegionCount(a) > RegionCount(b)
    \/ /\ RegionCount(a) = RegionCount(b)
       /\ \/ FreshSize(a) > FreshSize(b)
          \/ FreshSize(a) = FreshSize(b) /\ since[a] < since[b]

(* Fault: the last of a region may go. *)
PicksUnguarded == {c \in Eligible : \A d \in Eligible : ~Before(d, c)}

(* The first of the ranking whose region keeps another candidate.  Equals  *)
(* in the ranking are told apart by their place in the map: left open.     *)
Picks == LET releasable == {c \in Eligible : RegionCount(c) > 1}
         IN  {c \in releasable : \A d \in releasable : ~Before(d, c)}

-----------------------------------------------------------------------------
(* Actions *)

(* ws.close(4200): an open socket starts its close handshake. *)
Release(c) ==
    /\ sock' = [sock EXCEPT ![c] = "closing"]
    /\ closeBy' = [closeBy EXCEPT ![c] =
                      IF sock[c] = "open" THEN now + CloseTime ELSE @]

(* graduatedRecently and the registry learn of the identity, if any. *)
Remember(n) ==
    IF n = NoNode THEN UNCHANGED memory
    ELSE /\ cooled' = [cooled EXCEPT ![n] = now]
         /\ remembered' = remembered \cup {n}

(* recordIntroduction: c's list named a peer admitted longer than the      *)
(* cohort before it, or carried a graduated id other than its own.         *)
ReachesOut(c, start) ==
    \/ \E a \in Admitted \ {c} : start - since[a] > CohortTime
    \/ SampleOn /\ remembered \ {node[c]} # {}

(* A newcomer is admitted and introduced. *)
Admit(c, new) ==
    /\ sock[c] = "idle"
    /\ sock' = [sock EXCEPT ![c] = "open"]
    /\ since' = [since EXCEPT ![c] = now]
    /\ modern' = [modern EXCEPT ![c] = new]
    /\ reached' = [reached EXCEPT ![c] = ReachesOut(c, now)]
    /\ UNCHANGED <<now, node, size, sizeAt, channel, closeBy, lastGrad, memory,
                   history>>

(* peer-list-request: introduced again. *)
Reintroduce(c) ==
    /\ c \in Admitted
    /\ reached' = [reached EXCEPT ![c] = @ \/ ReachesOut(c, since[c])]
    /\ UNCHANGED <<now, sock, since, node, modern, size, sizeAt, channel,
                   closeBy, lastGrad, memory, history>>

(* The handshake binds an identity; a connection binds once.  The identity *)
(* may still be bound to an older socket (a client that re-dialled).       *)
Bind(c, n) ==
    /\ c \in Admitted
    /\ node[c] = NoNode
    /\ node' = [node EXCEPT ![c] = n]
    /\ UNCHANGED <<now, sock, since, modern, size, sizeAt, reached, channel,
                   closeBy, lastGrad, memory, history>>

(* The client's mesh channel to the bridge binds. *)
ChannelBinds(c) ==
    /\ BootstrapOn
    /\ c \in Admitted
    /\ channel' = [channel EXCEPT ![c] = TRUE]
    /\ UNCHANGED <<now, sock, since, node, modern, size, sizeAt, reached,
                   closeBy, lastGrad, memory, history>>

(* Rule 4: the client is safely in the mesh and bound to it at this door.  *)
RuleFour(c, s) == BootstrapOn /\ channel[c] /\ s >= SafeFloor /\ modern[c]

(* A heartbeat reports the client's mesh size; rule 4 may release the      *)
(* socket at once.                                                         *)
Ping(c, s) ==
    /\ c \in Admitted
    /\ size' = [size EXCEPT ![c] = s]
    /\ sizeAt' = [sizeAt EXCEPT ![c] = now]
    /\ IF RuleFour(c, s)
       THEN /\ Release(c)
            /\ Remember(node[c])
            /\ freed' = freed \cup ({c} \ Closing)
       ELSE UNCHANGED <<sock, closeBy, memory, freed>>
    /\ UNCHANGED <<now, since, node, modern, reached, channel, lastGrad, lastOff>>

(* maybeGraduate, run by a timer and after every admission: one peer goes. *)
MaybeGraduate(c) ==
    /\ now - lastGrad >= Interval
    /\ Cardinality(Admitted) > High
    /\ c \in Picks
    /\ Release(c)
    /\ Remember(node[c])
    /\ lastGrad' = now
    /\ lastOff' = [lastOff EXCEPT ![node[c]] = now]
    /\ UNCHANGED <<now, connVars, freed>>

(* The 'close' event: the client left, or the close handshake ended.       *)
Gone(c) ==
    /\ c \in Admitted
    /\ sock' = [sock EXCEPT ![c] = "gone"]
    /\ node' = [node EXCEPT ![c] = NoNode]
    /\ channel' = [channel EXCEPT ![c] = FALSE]
    /\ UNCHANGED <<now, since, modern, size, sizeAt, reached, closeBy, lastGrad,
                   memory, history>>

(* Time passes, but not past the end of a close handshake. *)
Tick ==
    /\ now < Epoch + MaxTime
    /\ \A c \in Closing : now < closeBy[c]
    /\ now' = now + 1
    /\ UNCHANGED <<sock, connVars, closeBy, lastGrad, memory, history>>

Next ==
    \/ Tick
    \/ \E c \in Conn :
        \/ \E new \in BOOLEAN : Admit(c, new)
        \/ Reintroduce(c)
        \/ \E n \in Node : Bind(c, n)
        \/ ChannelBinds(c)
        \/ \E s \in Sizes : Ping(c, s)
        \/ MaybeGraduate(c)
        \/ Gone(c)

Spec == Init /\ [][Next]_vars

-----------------------------------------------------------------------------
(* Properties *)

(* Every variable keeps its type. *)
TypeOK == /\ now \in Epoch..(Epoch + MaxTime)
          /\ sock \in [Conn -> {"idle", "open", "closing", "gone"}]
          /\ since \in [Conn -> Nat]
          /\ node \in [Conn -> Node \cup {NoNode}]
          /\ modern \in [Conn -> BOOLEAN]
          /\ size \in [Conn -> Sizes \cup {0}]
          /\ sizeAt \in [Conn -> Nat]
          /\ reached \in [Conn -> BOOLEAN]
          /\ channel \in [Conn -> BOOLEAN]
          /\ closeBy \in [Conn -> Nat]
          /\ lastGrad \in Nat
          /\ cooled \in [Node -> Nat]
          /\ remembered \subseteq Node
          /\ lastOff \in [Node -> Nat]
          /\ freed \subseteq Conn

(* No re-dial loop: a node graduated over the cap is not graduated again   *)
(* within the cooldown, though it may re-dial, hold two sockets at once    *)
(* and be released by rule 4 in between.                                   *)
CooldownHolds ==
    [][\A n \in Node : lastOff'[n] # lastOff[n] /\ lastOff[n] # 0
                          => lastOff'[n] - lastOff[n] >= Cooldown]_vars

(* "NEVER a region's last representative": the region of a peer that is    *)
(* graduated keeps another peer whose socket stays open.  (Rule 4 does not *)
(* look at regions: one in which it is releasing a socket is left out.)    *)
RegionKeepsOne ==
    [][\A c \in Conn : sock[c] = "open" /\ lastGrad' # lastGrad
                          /\ sock'[c] = "closing"
                          /\ Mates(Admitted, c) \cap freed = {}
          => \E d \in Mates(Admitted, c) \ {c} : sock[d] = "open"]_vars
=============================================================================
