----------------------------- MODULE DoorTimers -----------------------------
(***************************************************************************)
(* Time at the door (src/server.js): the hello timer and its grace, the    *)
(* idle sweep, the unbound kick and the sampler that detects stalls of the *)
(* event loop.  The clock counts in units of the sampler's order.          *)
(*                                                                         *)
(* A turn of the loop has three phases: due timers fire, earliest first;   *)
(* then the frames the sockets buffered are read; then the loop waits for  *)
(* the clock.  A handler that blocks (Stall) lets the clock run with       *)
(* nothing read and nothing fired; frames go on arriving in the buffers.   *)
(* Timer callbacks themselves are taken as short.                          *)
(***************************************************************************)
EXTENDS Integers

CONSTANTS Conn,
          HelloTimeout,   \* HELLO_TIMEOUT_MS
          IdleTimeout,    \* IDLE_TIMEOUT_MS
          IdleCheck,      \* IDLE_CHECK_INTERVAL_MS
          UnboundKick,    \* BRIDGE_UNBOUND_KICK_MS
          StallMin,       \* STALL_MIN_MS
          StallSample,    \* STALL_SAMPLE_MS
          MaxTime,        \* bound on the clock
          MaxStalls,      \* bound on the number of stalls
          MaxStallLen     \* bound on one stall

ASSUME TimersAssumption ==
    /\ {HelloTimeout, IdleTimeout, IdleCheck, StallMin, StallSample}
          \subseteq Nat \ {0}
    /\ {UnboundKick, MaxTime, MaxStalls, MaxStallLen} \subseteq Nat
    /\ IdleTimeout > StallMin + StallSample

VARIABLES now,          \* Date.now()
          phase,        \* phase of the event loop
          stalls,       \* stalls so far
          lastHeartbeat,\* lastHeartbeatAt
          sampleDue,    \* the sampler's interval timer
          lastStallEnd, \* lastStallEndAt
          sweepDue,     \* the idle sweep's interval timer
          sock,         \* connection state, as in BridgeDoor
          admitted,     \* conn.admitted
          bound,        \* an identity is bound to the connection
          since,        \* conn.since
          lastSeen,     \* conn.lastSeenAt
          helloDue,     \* due time of conn.helloTimer, 0 when not armed
          retried,      \* conn.helloRetried
          buffer,       \* frames in the socket, not read
          unreadAt,     \* when the oldest unread frame arrived
          verdict       \* why the bridge closed it

loopVars == <<now, phase, stalls>>
samplerVars == <<lastHeartbeat, sampleDue, lastStallEnd>>
connVars == <<sock, admitted, bound, since, helloDue, retried, verdict>>
vars == <<loopVars, samplerVars, sweepDue, connVars, lastSeen, buffer, unreadAt>>

Connections == {c \in Conn : sock[c] \in {"open", "closing"}}

(* The process starts late enough in the clock's life for "no stall yet"   *)
(* (lastStallEnd = 0) to lie outside every window.                         *)
Epoch == IdleTimeout + 1

Init == /\ now = Epoch /\ phase = "wait" /\ stalls = 0
        /\ lastHeartbeat = Epoch /\ sampleDue = Epoch + StallSample
        /\ lastStallEnd = 0
        /\ sweepDue = Epoch + IdleCheck
        /\ sock = [c \in Conn |-> "idle"]
        /\ admitted = [c \in Conn |-> FALSE]
        /\ bound = [c \in Conn |-> FALSE]
        /\ since = [c \in Conn |-> 0]
        /\ lastSeen = [c \in Conn |-> 0]
        /\ helloDue = [c \in Conn |-> 0]
        /\ retried = [c \in Conn |-> FALSE]
        /\ buffer = [c \in Conn |-> {}]
        /\ unreadAt = [c \in Conn |-> 0]
        /\ verdict = [c \in Conn |-> "none"]

-----------------------------------------------------------------------------
(* Faults: one stall taints every later window; short stalls pass unseen. *)
StallTaintedEver(t) == lastStallEnd > 0
StallPendingLate == now - lastHeartbeat >= 2 * (StallSample + StallMin)

(* The two tests a judgment makes before it blames a client. *)
StallTaintedSince(t) == lastStallEnd >= t
StallPending == now - lastHeartbeat >= StallSample + StallMin

ArmedHellos == {c \in Conn : helloDue[c] # 0}
DueTimes == {sampleDue, sweepDue} \cup {helloDue[c] : c \in ArmedHellos}
Fires(due) == /\ phase = "timers"
              /\ due <= now
              /\ \A d \in DueTimes : due <= d

(* The sampler: a heartbeat later than expected by StallMin is a stall.    *)
Sample ==
    /\ Fires(sampleDue)
    /\ sampleDue' = now + StallSample
    /\ lastHeartbeat' = now
    /\ lastStallEnd' = IF StallPending THEN now ELSE lastStallEnd
    /\ UNCHANGED <<loopVars, sweepDue, connVars, lastSeen, buffer, unreadAt>>

(* Fault: the grace does not arm the timer again. *)
GraceUntimed(c) ==
    /\ c \in ArmedHellos
    /\ Fires(helloDue[c])
    /\ helloDue' = [helloDue EXCEPT ![c] = 0]
    /\ IF ~retried[c] /\ (StallTaintedSince(since[c]) \/ StallPending)
       THEN /\ retried' = [retried EXCEPT ![c] = TRUE]
            /\ UNCHANGED <<sock, verdict>>
       ELSE /\ sock' = [sock EXCEPT ![c] = "closing"]
            /\ verdict' = [verdict EXCEPT ![c] =
                              IF sock[c] = "open" THEN "hello-timeout" ELSE @]
            /\ UNCHANGED retried
    /\ UNCHANGED <<loopVars, samplerVars, sweepDue, admitted, bound, since,
                   lastSeen, buffer, unreadAt>>

(* onHelloTimeout: one grace after a stall, then close(4408).              *)
HelloTimerFires(c) ==
    /\ c \in ArmedHellos
    /\ Fires(helloDue[c])
    /\ IF ~retried[c] /\ (StallTaintedSince(since[c]) \/ StallPending)
       THEN /\ retried' = [retried EXCEPT ![c] = TRUE]
            /\ helloDue' = [helloDue EXCEPT ![c] = now + HelloTimeout]
            /\ UNCHANGED <<sock, verdict>>
       ELSE /\ helloDue' = [helloDue EXCEPT ![c] = 0]
            /\ sock' = [sock EXCEPT ![c] = "closing"]
            /\ verdict' = [verdict EXCEPT ![c] =
                              IF sock[c] = "open" THEN "hello-timeout" ELSE @]
            /\ UNCHANGED retried
    /\ UNCHANGED <<loopVars, samplerVars, sweepDue, admitted, bound, since,
                   lastSeen, buffer, unreadAt>>

IdleConns == {c \in Connections : now - lastSeen[c] > IdleTimeout}
UnboundConns == {c \in Connections \ IdleConns :
                    /\ UnboundKick > 0
                    /\ admitted[c] /\ ~bound[c]
                    /\ now - since[c] > UnboundKick}

(* The idle sweep: skipped around a stall; a silent connection is          *)
(* terminated, an admitted one that never bound an identity is closed.     *)
Sweep ==
    /\ Fires(sweepDue)
    /\ sweepDue' = now + IdleCheck
    /\ IF StallTaintedSince(now - IdleTimeout) \/ StallPending
       THEN UNCHANGED <<connVars, buffer>>
       ELSE /\ sock' = [c \in Conn |-> CASE c \in IdleConns -> "gone"
                                         [] c \in UnboundConns -> "closing"
                                         [] OTHER -> sock[c]]
            /\ verdict' = [c \in Conn |->
                              IF sock[c] # "open" THEN verdict[c]
                              ELSE CASE c \in IdleConns -> "idle"
                                     [] c \in UnboundConns -> "unbound"
                                     [] OTHER -> verdict[c]]
            /\ helloDue' = [c \in Conn |-> IF c \in IdleConns THEN 0
                                                             ELSE helloDue[c]]
            /\ buffer' = [c \in Conn |-> IF c \in IdleConns THEN {}
                                                            ELSE buffer[c]]
            /\ UNCHANGED <<admitted, bound, since, retried>>
    /\ UNCHANGED <<loopVars, samplerVars, lastSeen, unreadAt>>

TimersDone ==
    /\ phase = "timers"
    /\ \A d \in DueTimes : d > now
    /\ phase' = "poll"
    /\ UNCHANGED <<now, stalls, samplerVars, sweepDue, connVars, lastSeen,
                   buffer, unreadAt>>

-----------------------------------------------------------------------------
(* A frame of c is read: any frame stamps lastSeen, a hello admits, and    *)
(* the authenticated hello-ack, at some moment, binds.                     *)
ReadFrame(c, binds) ==
    /\ phase = "poll"
    /\ c \in Connections /\ buffer[c] # {}
    /\ lastSeen' = [lastSeen EXCEPT ![c] = now]
    /\ buffer' = [buffer EXCEPT ![c] = {}]
    /\ IF "hello" \in buffer[c] /\ ~admitted[c]
       THEN /\ admitted' = [admitted EXCEPT ![c] = TRUE]
            /\ helloDue' = [helloDue EXCEPT ![c] = 0]
       ELSE UNCHANGED <<admitted, helloDue>>
    /\ binds => admitted[c]
    /\ bound' = [bound EXCEPT ![c] = @ \/ binds]
    /\ UNCHANGED <<loopVars, samplerVars, sweepDue, sock, since, retried,
                   verdict, unreadAt>>

Connect(c) ==
    /\ phase = "poll"
    /\ sock[c] = "idle"
    /\ sock' = [sock EXCEPT ![c] = "open"]
    /\ since' = [since EXCEPT ![c] = now]
    /\ lastSeen' = [lastSeen EXCEPT ![c] = now]
    /\ unreadAt' = [unreadAt EXCEPT ![c] = now]
    /\ helloDue' = [helloDue EXCEPT ![c] = now + HelloTimeout]
    /\ UNCHANGED <<loopVars, samplerVars, sweepDue, admitted, bound, retried, verdict, buffer>>

(* The 'close' event. *)
CloseEvent(c) ==
    /\ phase = "poll"
    /\ c \in Connections
    /\ sock' = [sock EXCEPT ![c] = "gone"]
    /\ helloDue' = [helloDue EXCEPT ![c] = 0]
    /\ buffer' = [buffer EXCEPT ![c] = {}]
    /\ UNCHANGED <<loopVars, samplerVars, sweepDue, admitted, bound, since,
                   retried, verdict, lastSeen, unreadAt>>

PollDone ==
    /\ phase = "poll"
    /\ \A c \in Connections : buffer[c] = {}
    /\ phase' = "wait"
    /\ UNCHANGED <<now, stalls, samplerVars, sweepDue, connVars, lastSeen,
                   buffer, unreadAt>>

(* The clients' frames that arrive while the clock runs, the first of them *)
(* at time t: a hello before admission, pings after it, or nothing.        *)
Arrivals(t) ==
    \E talk \in SUBSET Connections :
        /\ unreadAt' = [c \in Conn |->
                          IF c \in talk /\ buffer[c] = {} THEN t ELSE unreadAt[c]]
        /\ buffer' = [c \in Conn |->
                         IF c \in talk
                         THEN buffer[c] \cup {IF admitted[c] THEN "ping"
                                                             ELSE "hello"}
                         ELSE buffer[c]]

(* The loop waits and the clock moves on. *)
Tick ==
    /\ phase = "wait"
    /\ now < Epoch + MaxTime
    /\ now' = now + 1
    /\ phase' = "timers"
    /\ Arrivals(now + 1)
    /\ UNCHANGED <<stalls, samplerVars, sweepDue, connVars, lastSeen>>

(* The loop is blocked for d: in the middle of reading, when what is left  *)
(* of the batch is read next, or at its end, when the timers are next.     *)
Stall(d) ==
    /\ phase \in {"poll", "wait"}
    /\ stalls < MaxStalls
    /\ now + d <= Epoch + MaxTime
    /\ now' = now + d
    /\ stalls' = stalls + 1
    /\ phase' = IF phase = "wait" THEN "timers" ELSE phase
    /\ Arrivals(now + 1)
    /\ UNCHANGED <<samplerVars, sweepDue, connVars, lastSeen>>

Next ==
    \/ Sample
    \/ Sweep
    \/ TimersDone
    \/ PollDone
    \/ Tick
    \/ \E d \in 2..MaxStallLen : Stall(d)
    \/ \E c \in Conn : \/ HelloTimerFires(c)
                       \/ \E binds \in BOOLEAN : ReadFrame(c, binds)
                       \/ Connect(c)
                       \/ CloseEvent(c)

Spec == Init /\ [][Next]_vars

-----------------------------------------------------------------------------
(* Properties *)

(* Every variable keeps its type. *)
TypeOK == /\ now \in Epoch..(Epoch + MaxTime)
          /\ phase \in {"timers", "poll", "wait"}
          /\ stalls \in 0..MaxStalls
          /\ {lastHeartbeat, sampleDue, lastStallEnd, sweepDue} \subseteq Nat
          /\ sock \in [Conn -> {"idle", "open", "closing", "gone"}]
          /\ admitted \in [Conn -> BOOLEAN]
          /\ bound \in [Conn -> BOOLEAN]
          /\ since \in [Conn -> Nat]
          /\ lastSeen \in [Conn -> Nat]
          /\ helloDue \in [Conn -> Nat]
          /\ retried \in [Conn -> BOOLEAN]
          /\ buffer \in [Conn -> SUBSET {"hello", "ping"}]
          /\ unreadAt \in [Conn -> Nat]
          /\ verdict \in [Conn -> {"none", "hello-timeout", "idle", "unbound"}]

Condemns(c, why) == verdict[c] = "none" /\ verdict'[c] = why

(* A frame of c has sat unread for at least the length of a stall.         *)
Unheard(c) == buffer[c] # {} /\ now - unreadAt[c] >= StallSample + StallMin

(* "A client must never be judged by time the loop wasn't listening": none *)
(* is kicked as idle while a stall keeps what it said from being read, and *)
(* one that is closed with its hello in the buffer has had its grace.      *)
NoVerdictForOurStall ==
    [][\A c \in Conn :
          /\ Condemns(c, "idle") => ~Unheard(c)
          /\ Condemns(c, "hello-timeout") /\ Unheard(c) => retried[c]]_vars

(* The loop has caught up: no timer is due. *)
CaughtUp == phase = "poll" /\ \A d \in DueTimes : d > now

(* A connection that says nothing does not stay: once its silence, counted *)
(* from the end of the last stall, exceeds the timeout by a check interval *)
(* it is gone, however late the sweeps run.                                *)
Latest(a, b) == IF a > b THEN a ELSE b
SilentIsKicked ==
    CaughtUp => \A c \in Connections :
        now - Latest(lastSeen[c], lastStallEnd) < IdleTimeout + IdleCheck

(* A connection that has not passed the gate is still on the clock, and    *)
(* past its first window it lives on the grace.                            *)
GateIsTimed ==
    CaughtUp => \A c \in Conn :
        sock[c] = "open" /\ ~admitted[c] =>
            /\ helloDue[c] > now
            /\ now - since[c] >= HelloTimeout => retried[c]
=============================================================================
