-------------------------- MODULE DoorTimers_proofs --------------------------
(***************************************************************************)
(* Proofs about DoorTimers for every set of connections and every length   *)
(* of the timeouts, intervals and stalls: the types, that a connection     *)
(* before the gate is always on the clock, that a silent one goes, and     *)
(* that none is judged by a stall of ours.                                 *)
(***************************************************************************)
EXTENDS DoorTimers, TLAPS

(* Whoever is open before the gate has a timer, and until its grace that   *)
(* of its connection.                                                      *)
OnTheClock == \A c \in Conn : sock[c] = "open" /\ ~admitted[c] =>
    /\ helloDue[c] # 0
    /\ ~retried[c] => helloDue[c] = since[c] + HelloTimeout

(* The sampler is one sample behind its timer, and the sweep at most one   *)
(* check ahead of the clock.                                               *)
Intervals == /\ sampleDue = lastHeartbeat + StallSample
             /\ sweepDue <= now + IdleCheck

(* At the last sweep a connection was heard within the timeout, or a stall *)
(* ended within it; or there is a stall the sampler is about to see.       *)
HeardAtSweep == \A c \in Connections :
    \/ sweepDue - IdleCheck - Latest(lastSeen[c], lastStallEnd) <= IdleTimeout
    \/ phase = "timers" /\ StallPending

(* Only a connection at the door is timed, and it came before now. *)
TimedAtDoor == /\ ArmedHellos \subseteq Connections
               /\ \A c \in Conn : since[c] <= now

TimersInv == TypeOK /\ OnTheClock /\ TimedAtDoor /\ Intervals /\ HeardAtSweep

(* The constants, as the steps use them. *)
LEMMA Lengths ==
    /\ HelloTimeout \in Nat /\ HelloTimeout > 0
    /\ IdleTimeout \in Nat /\ IdleTimeout > 0
    /\ IdleCheck \in Nat /\ IdleCheck > 0
    /\ StallMin \in Nat /\ StallMin > 0
    /\ StallSample \in Nat /\ StallSample > 0
    /\ MaxTime \in Nat /\ MaxStalls \in Nat /\ MaxStallLen \in Nat
    /\ Epoch \in Nat /\ Epoch = IdleTimeout + 1
BY TimersAssumption DEF Epoch

LEMMA TimersInit == Init => TimersInv
<1> SUFFICES ASSUME Init PROVE TimersInv
    OBVIOUS
<1> USE Lengths
<1>1. TypeOK
      BY DEF Init, TypeOK
<1>2. Connections = {}
      BY DEF Init, Connections
<1> QED BY <1>1, <1>2 DEF Init, TimersInv, OnTheClock, TimedAtDoor, ArmedHellos, Intervals, HeardAtSweep

-----------------------------------------------------------------------------
(* Nothing but the loop's own variables and the buffers changes. *)
LEMMA ClockKeeps ==
    ASSUME TimersInv, NEW d \in Nat, d > 0, now' = now + d, now + d <= Epoch + MaxTime,
           phase' \in {"timers", "poll", "wait"}, phase # "timers",
           stalls' \in 0..MaxStalls, Arrivals(now + 1),
           UNCHANGED <<samplerVars, sweepDue, connVars, lastSeen>>
    PROVE  TimersInv'
<1> USE Lengths DEF TimersInv, samplerVars, connVars
<1>1. /\ buffer' \in [Conn -> SUBSET {"hello", "ping"}]
      /\ unreadAt' \in [Conn -> Nat]
  <2>1. PICK talk \in SUBSET Connections :
          /\ unreadAt' = [c \in Conn |->
                            IF c \in talk /\ buffer[c] = {} THEN now + 1 ELSE unreadAt[c]]
          /\ buffer' = [c \in Conn |->
                           IF c \in talk
                           THEN buffer[c] \cup {IF admitted[c] THEN "ping" ELSE "hello"}
                           ELSE buffer[c]]
        BY DEF Arrivals
  <2>2. now + 1 \in Nat
        BY DEF TypeOK
  <2> QED BY <2>1, <2>2 DEF TypeOK
<1>2. now' \in Epoch..(Epoch + MaxTime)
      BY DEF TypeOK
<1>3. TypeOK'
      BY <1>1, <1>2 DEF TypeOK
<1>4. OnTheClock' /\ TimedAtDoor' /\ Intervals'
      BY DEF OnTheClock, TimedAtDoor, ArmedHellos, Connections, Intervals, TypeOK
<1>5. HeardAtSweep'
      BY DEF HeardAtSweep, Connections
<1> QED BY <1>3, <1>4, <1>5

LEMMA SampleKeeps == ASSUME TimersInv, Sample PROVE TimersInv'
<1> USE Lengths DEF TimersInv
<1>1. /\ phase = "timers" /\ sampleDue' = now + StallSample /\ lastHeartbeat' = now
      /\ lastStallEnd' = IF StallPending THEN now ELSE lastStallEnd
      /\ UNCHANGED <<now, phase, stalls, sweepDue, sock, admitted, bound, since,
                     helloDue, retried, verdict, lastSeen, buffer, unreadAt>>
      BY DEF Sample, Fires, loopVars, connVars
<1>2. TypeOK'
      BY <1>1 DEF TypeOK
<1>3. OnTheClock' /\ TimedAtDoor' /\ Intervals'
      BY <1>1 DEF OnTheClock, TimedAtDoor, ArmedHellos, Connections, Intervals, TypeOK
<1>4. HeardAtSweep'
  <2> SUFFICES ASSUME NEW c \in Connections
               PROVE  sweepDue - IdleCheck - Latest(lastSeen[c], lastStallEnd') <= IdleTimeout
      BY <1>1 DEF HeardAtSweep, Connections
  <2>1. lastSeen[c] \in Nat /\ lastStallEnd \in Nat /\ now \in Nat /\ sweepDue \in Nat
        BY DEF TypeOK, Connections
  <2>2. CASE StallPending
        BY <1>1, <2>1, <2>2 DEF Latest, Intervals
  <2>3. CASE ~StallPending
        BY <1>1, <2>3 DEF HeardAtSweep
  <2> QED BY <2>2, <2>3
<1> QED BY <1>2, <1>3, <1>4

LEMMA HelloTimerKeeps ==
    ASSUME TimersInv, NEW c \in Conn, HelloTimerFires(c)
    PROVE  TimersInv'
<1> USE Lengths DEF TimersInv
<1>1. UNCHANGED <<now, phase, stalls, lastHeartbeat, sampleDue, lastStallEnd, sweepDue,
                  admitted, bound, since, lastSeen, buffer, unreadAt>>
      BY DEF HelloTimerFires, loopVars, samplerVars
<1>2. \/ /\ retried' = [retried EXCEPT ![c] = TRUE]
         /\ helloDue' = [helloDue EXCEPT ![c] = now + HelloTimeout]
         /\ UNCHANGED <<sock, verdict>>
      \/ /\ helloDue' = [helloDue EXCEPT ![c] = 0]
         /\ sock' = [sock EXCEPT ![c] = "closing"]
         /\ verdict' = [verdict EXCEPT ![c] =
                           IF sock[c] = "open" THEN "hello-timeout" ELSE @]
         /\ UNCHANGED retried
      BY DEF HelloTimerFires
<1>3. TypeOK'
  <2>1. now + HelloTimeout \in Nat
        BY DEF TypeOK
  <2>2. helloDue' \in [Conn -> Nat] /\ retried' \in [Conn -> BOOLEAN]
    <3>1. helloDue' = [helloDue EXCEPT ![c] = now + HelloTimeout]
          \/ helloDue' = [helloDue EXCEPT ![c] = 0]
          BY <1>2
    <3>2. retried' = [retried EXCEPT ![c] = TRUE] \/ retried' = retried
          BY <1>2
    <3>3. helloDue' \in [Conn -> Nat]
          BY <2>1, <3>1 DEF TypeOK
    <3>4. retried \in [Conn -> BOOLEAN]
          BY DEF TypeOK
    <3>5. retried' \in [Conn -> BOOLEAN]
          BY <3>2, <3>4
    <3> QED BY <3>3, <3>5
  <2>3. /\ sock' \in [Conn -> {"idle", "open", "closing", "gone"}]
        /\ verdict' \in [Conn -> {"none", "hello-timeout", "idle", "unbound"}]
        BY <1>2 DEF TypeOK
  <2> QED BY <1>1, <2>2, <2>3 DEF TypeOK
<1>4. OnTheClock'
      BY <1>1, <1>2 DEF OnTheClock, TypeOK
<1>5. Intervals'
      BY <1>1 DEF Intervals
<1>6. c \in Connections
      BY DEF HelloTimerFires, TimedAtDoor
<1>7. Connections' = Connections
      BY <1>2, <1>6 DEF TypeOK, Connections
<1>8. TimedAtDoor'
      BY <1>1, <1>2, <1>6, <1>7 DEF TimedAtDoor, ArmedHellos, TypeOK
<1>9. HeardAtSweep'
      BY <1>1, <1>7 DEF HeardAtSweep, StallPending
<1> QED BY <1>3, <1>4, <1>5, <1>8, <1>9

(* The sweep: whoever it leaves has been heard, or it was put off.         *)
LEMMA SweepKeeps == ASSUME TimersInv, Sweep PROVE TimersInv'
<1> USE Lengths DEF TimersInv
<1>1. /\ phase = "timers" /\ sweepDue' = now + IdleCheck /\ now \in Nat
      /\ UNCHANGED <<now, phase, stalls, lastHeartbeat, sampleDue, lastStallEnd,
                     lastSeen, unreadAt>>
      BY DEF Sweep, Fires, loopVars, samplerVars, TypeOK
<1>2. Intervals' /\ (StallPending' <=> StallPending)
      BY <1>1 DEF Intervals, StallPending
<1>3. CASE StallTaintedSince(now - IdleTimeout) \/ StallPending
  <2>1. UNCHANGED <<sock, admitted, bound, since, helloDue, retried, verdict, buffer>>
        BY <1>3 DEF Sweep, connVars
  <2>2. TypeOK' /\ OnTheClock' /\ TimedAtDoor'
        BY <1>1, <2>1 DEF TypeOK, OnTheClock, TimedAtDoor, ArmedHellos, Connections
  <2>3. HeardAtSweep'
    <3>1. Connections' = Connections
          BY <2>1 DEF Connections
    <3>2. CASE StallPending
          BY <1>1, <1>2, <3>2 DEF HeardAtSweep
    <3>3. CASE StallTaintedSince(now - IdleTimeout)
      <4> SUFFICES ASSUME NEW c \in Connections
                   PROVE  sweepDue' - IdleCheck - Latest(lastSeen'[c], lastStallEnd')
                             <= IdleTimeout
          BY <3>1 DEF HeardAtSweep
      <4>1. lastSeen[c] \in Nat /\ lastStallEnd \in Nat /\ lastStallEnd >= now - IdleTimeout
            BY <3>3 DEF TypeOK, Connections, StallTaintedSince
      <4> QED BY <1>1, <4>1 DEF Latest
    <3> QED BY <1>3, <3>2, <3>3
  <2> QED BY <1>2, <2>2, <2>3
<1>4. CASE ~(StallTaintedSince(now - IdleTimeout) \/ StallPending)
  <2>1. /\ sock' = [c \in Conn |-> CASE c \in IdleConns -> "gone"
                                      [] c \in UnboundConns -> "closing"
                                      [] OTHER -> sock[c]]
        /\ verdict' = [c \in Conn |->
                           IF sock[c] # "open" THEN verdict[c]
                           ELSE CASE c \in IdleConns -> "idle"
                                  [] c \in UnboundConns -> "unbound"
                                  [] OTHER -> verdict[c]]
        /\ helloDue' = [c \in Conn |-> IF c \in IdleConns THEN 0 ELSE helloDue[c]]
        /\ buffer' = [c \in Conn |-> IF c \in IdleConns THEN {} ELSE buffer[c]]
        /\ UNCHANGED <<admitted, bound, since, retried>>
        BY <1>4 DEF Sweep
  <2>2. \A c \in Conn : sock'[c] = IF c \in IdleConns THEN "gone"
                                   ELSE IF c \in UnboundConns THEN "closing"
                                   ELSE sock[c]
        BY <2>1 DEF UnboundConns
  <2>3. sock' \in [Conn -> {"idle", "open", "closing", "gone"}]
    <3>1. \A c \in Conn : sock'[c] \in {"idle", "open", "closing", "gone"}
          BY <2>2 DEF TypeOK
    <3> QED BY <2>1, <3>1
  <2>4. verdict' \in [Conn -> {"none", "hello-timeout", "idle", "unbound"}]
    <3>1. \A c \in Conn : verdict'[c] \in {verdict[c], "idle", "unbound"}
          BY <2>1
    <3> QED BY <2>1, <3>1 DEF TypeOK
  <2>5. helloDue' \in [Conn -> Nat] /\ buffer' \in [Conn -> SUBSET {"hello", "ping"}]
        BY <2>1 DEF TypeOK
  <2>6. sweepDue' \in Nat
        BY <1>1
  <2>7. TypeOK'
        BY <1>1, <2>1, <2>3, <2>4, <2>5, <2>6 DEF TypeOK
  <2>8. OnTheClock'
        BY <2>1, <2>2 DEF OnTheClock
  <2>9. Connections' = Connections \ IdleConns
        BY <2>2 DEF Connections, IdleConns, UnboundConns
  <2>10. TimedAtDoor'
         BY <1>1, <2>1, <2>9 DEF TimedAtDoor, ArmedHellos
  <2>11. HeardAtSweep'
    <3> SUFFICES ASSUME NEW c \in Connections, c \notin IdleConns
                 PROVE  sweepDue' - IdleCheck - Latest(lastSeen'[c], lastStallEnd')
                           <= IdleTimeout
        BY <2>9 DEF HeardAtSweep
    <3>1. lastSeen[c] \in Nat /\ lastStallEnd \in Nat /\ ~(now - lastSeen[c] > IdleTimeout)
          BY DEF TypeOK, Connections, IdleConns
    <3> QED BY <1>1, <3>1 DEF Latest
  <2> QED BY <1>2, <2>7, <2>8, <2>10, <2>11
<1> QED BY <1>3, <1>4

-----------------------------------------------------------------------------
(* Reading *)

LEMMA ReadKeeps ==
    ASSUME TimersInv, NEW c \in Conn, NEW binds \in BOOLEAN, ReadFrame(c, binds)
    PROVE  TimersInv'
<1> USE Lengths DEF TimersInv
<1>1. /\ phase = "poll" /\ c \in Connections /\ now \in Nat
      /\ lastSeen' = [lastSeen EXCEPT ![c] = now]
      /\ buffer' = [buffer EXCEPT ![c] = {}]
      /\ \/ /\ admitted' = [admitted EXCEPT ![c] = TRUE]
            /\ helloDue' = [helloDue EXCEPT ![c] = 0]
         \/ UNCHANGED <<admitted, helloDue>>
      /\ UNCHANGED <<now, phase, stalls, lastHeartbeat, sampleDue, lastStallEnd, sweepDue,
                     sock, since, retried, verdict, unreadAt>>
      BY DEF ReadFrame, loopVars, samplerVars, TypeOK
<1>2. bound' \in [Conn -> BOOLEAN]
  <2>1. bound \in [Conn -> BOOLEAN] /\ bound' = [bound EXCEPT ![c] = bound[c] \/ binds]
        BY DEF ReadFrame, TypeOK
  <2>2. (bound[c] \/ binds) \in BOOLEAN
        BY Zenon
  <2> QED BY <2>1, <2>2, Zenon
<1>3. TypeOK'
  <2>1. admitted \in [Conn -> BOOLEAN] /\ helloDue \in [Conn -> Nat]
        BY DEF TypeOK
  <2>2. admitted' = [admitted EXCEPT ![c] = TRUE] \/ admitted' = admitted
        BY <1>1
  <2>3. admitted' \in [Conn -> BOOLEAN]
        BY <2>1, <2>2
  <2>4. helloDue' = [helloDue EXCEPT ![c] = 0] \/ helloDue' = helloDue
        BY <1>1
  <2>5. helloDue' \in [Conn -> Nat]
        BY <2>1, <2>4
  <2>6. lastSeen' \in [Conn -> Nat] /\ buffer' \in [Conn -> SUBSET {"hello", "ping"}]
        BY <1>1 DEF TypeOK
  <2> QED BY <1>1, <1>2, <2>3, <2>5, <2>6 DEF TypeOK
<1>4. OnTheClock' /\ TimedAtDoor' /\ Intervals'
      BY <1>1 DEF OnTheClock, TimedAtDoor, ArmedHellos, Connections, Intervals, TypeOK
<1>5. HeardAtSweep'
  <2> SUFFICES ASSUME NEW d \in Connections
               PROVE  sweepDue - IdleCheck - Latest(lastSeen'[d], lastStallEnd) <= IdleTimeout
      BY <1>1 DEF HeardAtSweep, Connections
  <2>1. /\ lastSeen[d] \in Nat /\ lastStallEnd \in Nat /\ sweepDue \in Nat
        /\ sweepDue <= now + IdleCheck
        BY DEF TypeOK, Connections, Intervals
  <2>2. CASE d = c
    <3>1. lastSeen'[d] = now
          BY <1>1, <2>2 DEF TypeOK
    <3> QED BY <1>1, <2>1, <3>1 DEF Latest
  <2>3. CASE d # c
        BY <1>1, <2>3 DEF HeardAtSweep, Connections, TypeOK
  <2> QED BY <2>2, <2>3
<1> QED BY <1>3, <1>4, <1>5

LEMMA ConnectKeeps == ASSUME TimersInv, NEW c \in Conn, Connect(c) PROVE TimersInv'
<1> USE Lengths DEF TimersInv
<1>1. /\ phase = "poll" /\ sock[c] = "idle" /\ now \in Nat
      /\ sock' = [sock EXCEPT ![c] = "open"]
      /\ since' = [since EXCEPT ![c] = now]
      /\ lastSeen' = [lastSeen EXCEPT ![c] = now]
      /\ unreadAt' = [unreadAt EXCEPT ![c] = now]
      /\ helloDue' = [helloDue EXCEPT ![c] = now + HelloTimeout]
      /\ UNCHANGED <<now, phase, stalls, lastHeartbeat, sampleDue, lastStallEnd, sweepDue,
                     admitted, bound, retried, verdict, buffer>>
      BY DEF Connect, loopVars, samplerVars, TypeOK
<1>2. TypeOK'
      BY <1>1 DEF TypeOK
<1>3. OnTheClock' /\ Intervals'
      BY <1>1 DEF OnTheClock, Intervals, TypeOK
<1>4. Connections' = Connections \cup {c}
      BY <1>1 DEF Connections, TypeOK
<1>5. TimedAtDoor'
      BY <1>1, <1>4 DEF TimedAtDoor, ArmedHellos, TypeOK
<1>6. HeardAtSweep'
  <2> SUFFICES ASSUME NEW d \in Connections \cup {c}
               PROVE  sweepDue - IdleCheck - Latest(lastSeen'[d], lastStallEnd) <= IdleTimeout
      BY <1>1, <1>4 DEF HeardAtSweep
  <2>1. /\ lastSeen[d] \in Nat /\ lastStallEnd \in Nat /\ sweepDue \in Nat
        /\ sweepDue <= now + IdleCheck
        BY DEF TypeOK, Connections, Intervals
  <2>2. CASE d = c
    <3>1. lastSeen'[d] = now
          BY <1>1, <2>2 DEF TypeOK
    <3> QED BY <1>1, <2>1, <3>1 DEF Latest
  <2>3. CASE d # c
        BY <1>1, <2>3 DEF HeardAtSweep, Connections, TypeOK
  <2> QED BY <2>2, <2>3
<1> QED BY <1>2, <1>3, <1>5, <1>6

LEMMA CloseKeeps == ASSUME TimersInv, NEW c \in Conn, CloseEvent(c) PROVE TimersInv'
<1> USE Lengths DEF TimersInv
<1>1. /\ phase = "poll"
      /\ sock' = [sock EXCEPT ![c] = "gone"]
      /\ helloDue' = [helloDue EXCEPT ![c] = 0]
      /\ buffer' = [buffer EXCEPT ![c] = {}]
      /\ UNCHANGED <<now, phase, stalls, lastHeartbeat, sampleDue, lastStallEnd, sweepDue,
                     admitted, bound, since, retried, verdict, lastSeen, unreadAt>>
      BY DEF CloseEvent, loopVars, samplerVars
<1>2. TypeOK'
      BY <1>1 DEF TypeOK
<1>3. OnTheClock' /\ Intervals'
      BY <1>1 DEF OnTheClock, Intervals, TypeOK
<1>4. Connections' \subseteq Connections /\ TimedAtDoor'
      BY <1>1 DEF TimedAtDoor, ArmedHellos, Connections, TypeOK
<1>5. HeardAtSweep'
      BY <1>1, <1>4 DEF HeardAtSweep
<1> QED BY <1>2, <1>3, <1>4, <1>5

(* The phases of a turn.  The timers are done only when the sampler has    *)
(* seen the stall there may have been.                                     *)
LEMMA PhaseKeeps == ASSUME TimersInv, TimersDone \/ PollDone PROVE TimersInv'
<1> USE Lengths DEF TimersInv
<1>1. /\ phase' \in {"poll", "wait"}
      /\ UNCHANGED <<now, stalls, lastHeartbeat, sampleDue, lastStallEnd, sweepDue, sock,
                     admitted, bound, since, helloDue, retried, verdict, lastSeen, buffer,
                     unreadAt>>
      BY DEF TimersDone, PollDone, samplerVars, connVars
<1>2. phase = "timers" => ~StallPending
  <2> SUFFICES ASSUME phase = "timers" PROVE ~StallPending
      OBVIOUS
  <2>1. sampleDue > now
        BY DEF TimersDone, PollDone, DueTimes
  <2> QED BY <2>1 DEF Intervals, StallPending, TypeOK
<1>3. TypeOK' /\ OnTheClock' /\ TimedAtDoor' /\ Intervals'
      BY <1>1 DEF TypeOK, OnTheClock, TimedAtDoor, ArmedHellos, Connections, Intervals
<1>4. HeardAtSweep'
      BY <1>1, <1>2 DEF HeardAtSweep, Connections
<1> QED BY <1>3, <1>4

LEMMA TimersStep == ASSUME TimersInv, [Next]_vars PROVE TimersInv'
<1>1. CASE Tick
  <2>1. now \in Nat /\ now < Epoch + MaxTime
        BY <1>1, Lengths DEF Tick, TimersInv, TypeOK
  <2>2. now + 1 <= Epoch + MaxTime /\ stalls \in 0..MaxStalls
        BY <2>1, Lengths DEF TimersInv, TypeOK
  <2> QED BY <1>1, <2>2, ClockKeeps DEF Tick
<1>2. ASSUME NEW d \in 2..MaxStallLen, Stall(d) PROVE TimersInv'
  <2>1. d \in Nat /\ d > 0 /\ stalls' \in 0..MaxStalls
        BY <1>2, Lengths DEF Stall, TimersInv, TypeOK
  <2>2. phase' \in {"timers", "poll", "wait"} /\ phase # "timers"
        BY <1>2 DEF Stall
  <2> QED BY <1>2, <2>1, <2>2, ClockKeeps DEF Stall
<1>3. CASE UNCHANGED vars
      BY <1>3 DEF vars, loopVars, samplerVars, connVars, TimersInv, TypeOK, OnTheClock,
                  TimedAtDoor, ArmedHellos, Connections, Intervals, HeardAtSweep, StallPending
<1> QED BY <1>1, <1>2, <1>3, SampleKeeps, SweepKeeps, PhaseKeeps, HelloTimerKeeps,
           ReadKeeps, ConnectKeeps, CloseKeeps DEF Next

THEOREM TimersInvariance == Spec => []TimersInv
BY TimersInit, TimersStep, PTL DEF Spec

(* Every variable keeps its type.                                          *)
THEOREM TypeCorrect == Spec => []TypeOK
<1>1. TimersInv => TypeOK
      BY DEF TimersInv
<1> QED BY <1>1, TimersInvariance, PTL

(* A connection before the gate is on the clock, and past its first window *)
(* on the grace.                                                           *)
THEOREM GateTimed == Spec => []GateIsTimed
<1>1. TimersInv => GateIsTimed
  <2> SUFFICES ASSUME TimersInv, CaughtUp, NEW c \in Conn, sock[c] = "open", ~admitted[c]
               PROVE  /\ helloDue[c] > now
                      /\ now - since[c] >= HelloTimeout => retried[c]
      BY DEF GateIsTimed
  <2>1. helloDue[c] # 0 /\ (~retried[c] => helloDue[c] = since[c] + HelloTimeout)
        BY DEF TimersInv, OnTheClock
  <2>2. helloDue[c] > now
        BY <2>1 DEF CaughtUp, DueTimes, ArmedHellos
  <2>3. since[c] \in Nat /\ now \in Nat /\ HelloTimeout \in Nat
        BY Lengths DEF TimersInv, TypeOK
  <2> QED BY <2>1, <2>2, <2>3
<1> QED BY <1>1, TimersInvariance, PTL

(* A silent connection is gone within a check interval of its timeout.     *)
THEOREM SilentKicked == Spec => []SilentIsKicked
<1>1. TimersInv => SilentIsKicked
  <2> SUFFICES ASSUME TimersInv, CaughtUp, NEW c \in Connections
               PROVE  now - Latest(lastSeen[c], lastStallEnd) < IdleTimeout + IdleCheck
      BY DEF SilentIsKicked
  <2>1. phase = "poll" /\ sweepDue > now
        BY DEF CaughtUp, DueTimes
  <2>2. sweepDue - IdleCheck - Latest(lastSeen[c], lastStallEnd) <= IdleTimeout
        BY <2>1 DEF TimersInv, HeardAtSweep
  <2>3. /\ now \in Nat /\ sweepDue \in Nat /\ IdleCheck \in Nat /\ IdleTimeout \in Nat
        /\ Latest(lastSeen[c], lastStallEnd) \in Nat
        BY Lengths DEF TimersInv, TypeOK, Connections, Latest
  <2> QED BY <2>1, <2>2, <2>3
<1> QED BY <1>1, TimersInvariance, PTL

-----------------------------------------------------------------------------
(* The stalls *)

(* What is in a buffer belongs to a connection at the door, and the loop   *)
(* waits with nothing left to read.  When the timers run, what has sat for *)
(* the length of a stall did so in one the sampler sees or has just seen.  *)
Excused ==
    /\ lastHeartbeat <= now
    /\ \A c \in Conn : buffer[c] # {} => c \in Connections
    /\ phase = "wait" => \A c \in Conn : buffer[c] = {}
    /\ phase = "timers" => \A c \in Conn :
          Unheard(c) => StallPending \/ lastStallEnd = now

(* The clock moves, and frames arrive. *)
LEMMA ClockExcuses ==
    ASSUME TimersInv, Excused, NEW d \in Nat, d > 0, now' = now + d,
           \/ phase = "wait" /\ phase' = "timers"
           \/ phase = "poll" /\ phase' = "poll",
           Arrivals(now + 1), UNCHANGED <<samplerVars, sock>>
    PROVE  Excused'
<1> USE Lengths DEF Excused, samplerVars
<1>1. lastHeartbeat \in Nat /\ now \in Nat
      BY DEF TimersInv, TypeOK
<1>2. PICK talk \in SUBSET Connections :
          /\ unreadAt' = [c \in Conn |->
                            IF c \in talk /\ buffer[c] = {} THEN now + 1 ELSE unreadAt[c]]
          /\ buffer' = [c \in Conn |->
                           IF c \in talk
                           THEN buffer[c] \cup {IF admitted[c] THEN "ping" ELSE "hello"}
                           ELSE buffer[c]]
      BY DEF Arrivals
<1>3. \A c \in Conn : buffer'[c] # {} => c \in Connections'
      BY <1>2 DEF Connections
<1>4. ASSUME phase = "wait", NEW c \in Conn, Unheard(c)' PROVE StallPending'
  <2>1. unreadAt'[c] = now + 1
        BY <1>2, <1>4 DEF Unheard
  <2> QED BY <1>1, <1>4, <2>1 DEF Unheard, StallPending
<1> QED BY <1>1, <1>3, <1>4

LEMMA ExcusedStep == ASSUME TimersInv, Excused, [Next]_vars PROVE Excused'
<1> USE Lengths DEF Excused
<1>1. CASE Tick
      BY <1>1, ClockExcuses DEF Tick, connVars
<1>2. ASSUME NEW d \in 2..MaxStallLen, Stall(d) PROVE Excused'
  <2>1. \/ phase = "wait" /\ phase' = "timers"
        \/ phase = "poll" /\ phase' = "poll"
        BY <1>2 DEF Stall
  <2> QED BY <1>2, <2>1, ClockExcuses DEF Stall, connVars
<1>3. CASE Sample
  <2>1. /\ lastHeartbeat' = now /\ lastStallEnd' = IF StallPending THEN now ELSE lastStallEnd
        /\ phase = "timers" /\ now \in Nat
        /\ UNCHANGED <<now, phase, sock, buffer, unreadAt>>
        BY <1>3 DEF Sample, Fires, loopVars, connVars, TimersInv, TypeOK
  <2> QED BY <2>1 DEF Connections, Unheard
<1>4. CASE Sweep
  <2>1. /\ phase = "timers"
        /\ UNCHANGED <<now, phase, lastHeartbeat, lastStallEnd, unreadAt>>
        BY <1>4 DEF Sweep, Fires, loopVars, samplerVars
  <2>2. \A c \in Conn : /\ buffer'[c] = buffer[c] \/ buffer'[c] = {}
                        /\ buffer'[c] # {} /\ c \in Connections => c \in Connections'
    <3>1. CASE UNCHANGED <<connVars, buffer>>
          BY <3>1 DEF connVars, Connections
    <3>2. CASE /\ sock' = [c \in Conn |-> CASE c \in IdleConns -> "gone"
                                            [] c \in UnboundConns -> "closing"
                                            [] OTHER -> sock[c]]
               /\ buffer' = [c \in Conn |-> IF c \in IdleConns THEN {} ELSE buffer[c]]
      <4>1. ASSUME NEW c \in Conn, c \notin IdleConns
            PROVE  sock'[c] = IF c \in UnboundConns THEN "closing" ELSE sock[c]
            BY <3>2, <4>1
      <4> QED BY <3>2, <4>1 DEF Connections
    <3> QED BY <1>4, <3>1, <3>2 DEF Sweep
  <2> QED BY <2>1, <2>2 DEF Unheard, StallPending
<1>5. ASSUME NEW c \in Conn, HelloTimerFires(c) PROVE Excused'
  <2>1. /\ UNCHANGED <<now, phase, lastHeartbeat, lastStallEnd, unreadAt, buffer>>
        /\ sock' = sock \/ sock' = [sock EXCEPT ![c] = "closing"]
        BY <1>5 DEF HelloTimerFires, loopVars, samplerVars
  <2>2. \A d \in Connections : d \in Connections'
        BY <2>1 DEF Connections, TimersInv, TypeOK
  <2> QED BY <2>1, <2>2 DEF Unheard, StallPending
<1>6. CASE TimersDone \/ PollDone
  <2>1. /\ phase' \in {"poll", "wait"}
        /\ phase' = "wait" => \A c \in Connections : buffer[c] = {}
        /\ UNCHANGED <<now, lastHeartbeat, sock, buffer>>
        BY <1>6 DEF TimersDone, PollDone, samplerVars, connVars
  <2> QED BY <2>1 DEF Connections
<1>7. ASSUME NEW c \in Conn, \/ \E binds \in BOOLEAN : ReadFrame(c, binds)
                            \/ Connect(c)
                            \/ CloseEvent(c)
      PROVE  Excused'
  <2>1. /\ phase = "poll" /\ UNCHANGED <<now, phase, lastHeartbeat>>
        /\ buffer' = [buffer EXCEPT ![c] = {}] \/ buffer' = buffer
        /\ \/ sock' = sock
           \/ sock' = [sock EXCEPT ![c] = "open"]
           \/ sock' = [sock EXCEPT ![c] = "gone"] /\ buffer' = [buffer EXCEPT ![c] = {}]
        BY <1>7 DEF ReadFrame, Connect, CloseEvent, loopVars, samplerVars
  <2> QED BY <2>1 DEF Connections, TimersInv, TypeOK
<1>8. CASE UNCHANGED vars
      BY <1>8 DEF vars, loopVars, samplerVars, connVars, Connections, Unheard, StallPending
<1> QED BY <1>1, <1>2, <1>3, <1>4, <1>5, <1>6, <1>7, <1>8 DEF Next

(* Nobody is judged by time the loop was not listening.                    *)
THEOREM StallsExcuse == Spec => NoVerdictForOurStall
<1> DEFINE Fair == \A c \in Conn :
              /\ Condemns(c, "idle") => ~Unheard(c)
              /\ Condemns(c, "hello-timeout") /\ Unheard(c) => retried[c]
<1>1. Init => Excused
      BY Lengths DEF Init, Excused
<1>2. ASSUME TimersInv, Excused, [Next]_vars PROVE Fair
  <2> SUFFICES ASSUME NEW c \in Conn, verdict'[c] # verdict[c], Unheard(c)
               PROVE  /\ verdict'[c] # "idle"
                      /\ verdict'[c] = "hello-timeout" => retried[c]
      BY DEF Condemns
  <2>1. now \in Nat /\ lastStallEnd \in Nat /\ since[c] \in Nat
        BY <1>2, Lengths DEF TimersInv, TypeOK
  <2>2. CASE Sweep
    <3>1. phase = "timers"
          BY <2>2 DEF Sweep, Fires
    <3>2. StallPending \/ lastStallEnd = now
          BY <1>2, <3>1 DEF Excused
    <3>3. StallTaintedSince(now - IdleTimeout) \/ StallPending
          BY <2>1, <3>2, Lengths DEF StallTaintedSince
    <3> QED BY <2>2, <3>3 DEF Sweep, connVars
  <2>3. ASSUME NEW d \in Conn, HelloTimerFires(d)
        PROVE  verdict'[c] # "idle" /\ (verdict'[c] = "hello-timeout" => retried[c])
    <3>1. /\ phase = "timers" /\ d = c
          /\ verdict'[c] = "hello-timeout"
          /\ ~(~retried[c] /\ (StallTaintedSince(since[c]) \/ StallPending))
          BY <1>2, <2>3 DEF HelloTimerFires, Fires, TimersInv, TypeOK
    <3>2. StallPending \/ lastStallEnd = now
          BY <1>2, <3>1 DEF Excused
    <3>3. since[c] <= now
          BY <1>2 DEF TimersInv, TimedAtDoor
    <3>4. StallTaintedSince(since[c]) \/ StallPending
          BY <2>1, <3>2, <3>3 DEF StallTaintedSince
    <3> QED BY <3>1, <3>4
  <2>4. CASE Sample \/ TimersDone \/ PollDone \/ Tick \/ UNCHANGED vars
        BY <2>4 DEF Sample, TimersDone, PollDone, Tick, connVars, vars
  <2>5. ASSUME NEW d \in 2..MaxStallLen, Stall(d) PROVE FALSE
        BY <2>5 DEF Stall, connVars
  <2>6. ASSUME NEW d \in Conn, \/ \E binds \in BOOLEAN : ReadFrame(d, binds)
                              \/ Connect(d)
                              \/ CloseEvent(d)
        PROVE  FALSE
        BY <2>6 DEF ReadFrame, Connect, CloseEvent
  <2> QED BY <1>2, <2>2, <2>3, <2>4, <2>5, <2>6 DEF Next
<1>3. ASSUME TimersInv, Excused, [Next]_vars PROVE [Fair]_vars
      BY <1>2, <1>3
<1> QED BY <1>1, <1>3, ExcusedStep, TimersInvariance, PTL DEF Spec, NoVerdictForOurStall
=============================================================================
