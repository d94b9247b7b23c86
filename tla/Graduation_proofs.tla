-------------------------- MODULE Graduation_proofs --------------------------
(***************************************************************************)
(* Proofs about Graduation for every set of connections and identities and *)
(* every cap, window and floor: the types, that no identity is graduated   *)
(* over the cap twice within the cooldown, and that, when a close takes    *)
(* less than an interval, no region loses its last representative.         *)
(***************************************************************************)
EXTENDS Graduation, FiniteSetTheorems, TLAPS

(* What was graduated over the cap is cooling from then on, or from a      *)
(* later release.                                                          *)
CoolsSince == \A n \in Node : lastOff[n] # 0 => cooled[n] >= lastOff[n]

GraduationInv == TypeOK /\ CoolsSince

LEMMA Bounds == Epoch \in Nat /\ MaxTime \in Nat /\ CloseTime \in Nat /\ Cooldown \in Nat
BY GraduationAssumption DEF Epoch

LEMMA ReleaseTypes ==
    ASSUME TypeOK, NEW c \in Conn, Release(c)
    PROVE  /\ sock' \in [Conn -> {"idle", "open", "closing", "gone"}]
           /\ closeBy' \in [Conn -> Nat]
<1>1. now + CloseTime \in Nat
      BY Bounds DEF TypeOK
<1> QED BY <1>1 DEF TypeOK, Release

(* A release is remembered as of now. *)
LEMMA RememberKeeps ==
    ASSUME GraduationInv, NEW n \in Node \cup {NoNode}, Remember(n)
    PROVE  /\ cooled' \in [Node -> Nat] /\ remembered' \subseteq Node
           /\ \A m \in Node : cooled'[m] = cooled[m] \/ cooled'[m] = now
           /\ n \in Node => cooled'[n] = now
<1>1. now \in Nat
      BY Bounds DEF GraduationInv, TypeOK
<1> QED BY <1>1, GraduationAssumption DEF GraduationInv, TypeOK, Remember, memory

(* No stamp is later than now. *)
PastStamps == /\ \A n \in Node : cooled[n] <= now /\ lastOff[n] <= now
              /\ lastGrad <= now

LEMMA GraduationStep ==
    ASSUME GraduationInv, PastStamps, [Next]_vars
    PROVE  GraduationInv' /\ PastStamps'
<1> USE Bounds DEF GraduationInv
<1>1. now \in Nat
      BY DEF TypeOK
<1>2. CASE Tick
      BY <1>1, <1>2 DEF Tick, TypeOK, CoolsSince, PastStamps, connVars, memory, history
<1>3. ASSUME NEW c \in Conn, NEW new \in BOOLEAN, Admit(c, new)
      PROVE  GraduationInv' /\ PastStamps'
  <2>1. ReachesOut(c, now) \in BOOLEAN
        BY Zenon DEF ReachesOut
  <2>2. reached' \in [Conn -> BOOLEAN] /\ modern' \in [Conn -> BOOLEAN]
        BY <1>3, <2>1, Zenon DEF Admit, TypeOK
  <2>3. /\ sock' \in [Conn -> {"idle", "open", "closing", "gone"}]
        /\ since' \in [Conn -> Nat]
        BY <1>1, <1>3 DEF Admit, TypeOK
  <2> QED BY <1>3, <2>2, <2>3 DEF Admit, TypeOK, CoolsSince, PastStamps, memory, history
<1>4. ASSUME NEW c \in Conn, Reintroduce(c) PROVE GraduationInv' /\ PastStamps'
  <2>1. (reached[c] \/ ReachesOut(c, since[c])) \in BOOLEAN
        BY Zenon
  <2>2. reached' \in [Conn -> BOOLEAN]
        BY <1>4, <2>1, Zenon DEF Reintroduce, TypeOK
  <2> QED BY <1>4, <2>2 DEF Reintroduce, TypeOK, CoolsSince, PastStamps, memory, history
<1>5. ASSUME NEW c \in Conn, NEW n \in Node, Bind(c, n) PROVE GraduationInv' /\ PastStamps'
      BY <1>5 DEF Bind, TypeOK, CoolsSince, PastStamps, memory, history
<1>6. ASSUME NEW c \in Conn, ChannelBinds(c) PROVE GraduationInv' /\ PastStamps'
      BY <1>6 DEF ChannelBinds, TypeOK, CoolsSince, PastStamps, memory, history
<1>7. ASSUME NEW c \in Conn, NEW s \in Sizes, Ping(c, s)
      PROVE  GraduationInv' /\ PastStamps'
  <2>1. /\ size' = [size EXCEPT ![c] = s] /\ sizeAt' = [sizeAt EXCEPT ![c] = now]
        /\ UNCHANGED <<now, since, node, modern, reached, channel, lastGrad, lastOff>>
        /\ freed' \subseteq Conn
        /\ \/ Release(c) /\ Remember(node[c])
           \/ UNCHANGED <<sock, closeBy, memory>>
        BY <1>7 DEF Ping, TypeOK
  <2>2. size' \in [Conn -> Sizes \cup {0}] /\ sizeAt' \in [Conn -> Nat]
        BY <1>1, <2>1 DEF TypeOK
  <2>3. node[c] \in Node \cup {NoNode}
        BY DEF TypeOK
  <2>4. /\ sock' \in [Conn -> {"idle", "open", "closing", "gone"}]
        /\ closeBy' \in [Conn -> Nat]
        BY <2>1, ReleaseTypes DEF TypeOK
  <2>5. /\ cooled' \in [Node -> Nat] /\ remembered' \subseteq Node
        /\ \A m \in Node : cooled'[m] = cooled[m] \/ cooled'[m] = now
        BY <2>1, <2>3, RememberKeeps DEF TypeOK, memory
  <2>6. TypeOK'
        BY <2>1, <2>2, <2>4, <2>5 DEF TypeOK
  <2>7. CoolsSince' /\ PastStamps'
        BY <1>1, <2>1, <2>5 DEF CoolsSince, PastStamps, TypeOK
  <2> QED BY <2>6, <2>7
<1>8. ASSUME NEW c \in Conn, MaybeGraduate(c) PROVE GraduationInv' /\ PastStamps'
  <2>1. /\ Release(c) /\ Remember(node[c]) /\ node[c] \in Node
        /\ lastGrad' = now /\ lastOff' = [lastOff EXCEPT ![node[c]] = now]
        /\ UNCHANGED <<now, since, node, modern, size, sizeAt, reached, channel, freed>>
        BY <1>8 DEF MaybeGraduate, Picks, Eligible, connVars, TypeOK
  <2>2. /\ cooled' \in [Node -> Nat] /\ remembered' \subseteq Node
        /\ \A m \in Node : cooled'[m] = cooled[m] \/ cooled'[m] = now
        /\ cooled'[node[c]] = now
        BY <2>1, RememberKeeps
  <2>3. lastOff' \in [Node -> Nat]
        BY <1>1, <2>1 DEF TypeOK
  <2>4. TypeOK'
        BY <1>1, <2>1, <2>2, <2>3, ReleaseTypes DEF TypeOK
  <2>5. CoolsSince' /\ PastStamps'
        BY <1>1, <2>1, <2>2 DEF CoolsSince, PastStamps, TypeOK
  <2> QED BY <2>4, <2>5
<1>9. ASSUME NEW c \in Conn, Gone(c) PROVE GraduationInv' /\ PastStamps'
      BY <1>9 DEF Gone, TypeOK, CoolsSince, PastStamps, memory, history
<1>10. CASE UNCHANGED vars
       BY <1>10 DEF vars, connVars, memory, history, TypeOK, CoolsSince, PastStamps
<1> QED BY <1>2, <1>3, <1>4, <1>5, <1>6, <1>7, <1>8, <1>9, <1>10 DEF Next

(* The invariant holds in every state of every behaviour.                  *)
THEOREM GraduationInvariance == Spec => [](GraduationInv /\ PastStamps)
<1>1. Init => GraduationInv /\ PastStamps
      BY Bounds DEF Init, GraduationInv, TypeOK, CoolsSince, PastStamps
<1> QED BY <1>1, GraduationStep, PTL DEF Spec

(* Every variable keeps its type.                                          *)
THEOREM TypeCorrect == Spec => []TypeOK
<1>1. GraduationInv => TypeOK
      BY DEF GraduationInv
<1> QED BY <1>1, GraduationInvariance, PTL

(* No identity is graduated over the cap twice within the cooldown.        *)
THEOREM NoRegraduation == Spec => CooldownHolds
<1> DEFINE Cools == \A n \in Node : lastOff'[n] # lastOff[n] /\ lastOff[n] # 0
                                       => lastOff'[n] - lastOff[n] >= Cooldown
<1>1. ASSUME GraduationInv, PastStamps, [Next]_vars PROVE Cools
  <2>1. ASSUME NEW c \in Conn, MaybeGraduate(c) PROVE Cools
    <3> SUFFICES ASSUME NEW n \in Node, lastOff'[n] # lastOff[n], lastOff[n] # 0
                 PROVE  lastOff'[n] - lastOff[n] >= Cooldown
        OBVIOUS
    <3>1. /\ lastOff' = [lastOff EXCEPT ![node[c]] = now]
          /\ ~InCooldown(node[c])
          BY <2>1 DEF MaybeGraduate, Picks, Eligible
    <3>2. n = node[c] /\ lastOff'[n] = now
          BY <1>1, <3>1 DEF GraduationInv, TypeOK
    <3>3. /\ cooled[n] \in Nat /\ lastOff[n] \in Nat /\ now \in Nat
          /\ cooled[n] >= lastOff[n]
          BY <1>1, Bounds DEF GraduationInv, TypeOK, CoolsSince
    <3> QED BY <3>1, <3>2, <3>3, Bounds DEF InCooldown
  <2>2. CASE UNCHANGED lastOff
        BY <2>2
  <2>3. ASSUME NEW c \in Conn, \/ \E new \in BOOLEAN : Admit(c, new)
                               \/ Reintroduce(c)
                               \/ \E n \in Node : Bind(c, n)
                               \/ ChannelBinds(c)
                               \/ \E s \in Sizes : Ping(c, s)
                               \/ Gone(c)
        PROVE  UNCHANGED lastOff
        BY <2>3 DEF Admit, Reintroduce, Bind, ChannelBinds, Ping, Gone, history
  <2>4. CASE Tick \/ UNCHANGED vars
        BY <2>2, <2>4 DEF Tick, vars, history
  <2> QED BY <1>1, <2>1, <2>2, <2>3, <2>4 DEF Next
<1>2. ASSUME GraduationInv, PastStamps, [Next]_vars PROVE [Cools]_vars
      BY <1>1, <1>2
<1> QED BY <1>2, GraduationInvariance, PTL DEF Spec, CooldownHolds

-----------------------------------------------------------------------------
(* Whom a graduation leaves behind.                                        *)

(* A closing socket goes in its time, and one that rule 4 did not release  *)
(* began to close no later than the last graduation.                       *)
ClosingInTime ==
    \A c \in Closing : /\ now <= closeBy[c]
                       /\ c \notin freed => closeBy[c] <= lastGrad + CloseTime

(* What a release makes of the closing sockets. *)
LEMMA ReleaseCloses ==
    ASSUME TypeOK, NEW c \in Conn, Release(c)
    PROVE  /\ Closing' = Closing \cup {c}
           /\ \A d \in Closing : closeBy'[d] = closeBy[d]
           /\ sock[c] = "open" => closeBy'[c] = now + CloseTime
BY DEF TypeOK, Release, Closing

LEMMA InTimeStep ==
    ASSUME TypeOK, PastStamps, ClosingInTime, [Next]_vars
    PROVE  ClosingInTime'
<1>1. /\ now \in Nat /\ CloseTime \in Nat /\ lastGrad \in Nat
      /\ closeBy \in [Conn -> Nat]
      BY Bounds DEF TypeOK
<1>2. ASSUME NEW S, Closing' = S, S \subseteq Closing,
             UNCHANGED <<now, closeBy, lastGrad, freed>>
      PROVE  ClosingInTime'
      BY <1>2 DEF ClosingInTime
<1>3. CASE Tick
  <2>1. /\ Closing' = Closing /\ now' = now + 1
        /\ UNCHANGED <<closeBy, lastGrad, freed>>
        /\ \A c \in Closing : now < closeBy[c]
        BY <1>3 DEF Tick, Closing, history
  <2>2. Closing \subseteq Conn
        BY DEF Closing
  <2> QED BY <1>1, <2>1, <2>2 DEF ClosingInTime
<1>4. ASSUME NEW c \in Conn, NEW new \in BOOLEAN, Admit(c, new)
      PROVE  ClosingInTime'
  <2>1. Closing' = Closing
        BY <1>4 DEF Admit, Closing, TypeOK
  <2> QED BY <1>2, <1>4, <2>1 DEF Admit, history
<1>5. ASSUME NEW c \in Conn,
             \/ Reintroduce(c)
             \/ \E n \in Node : Bind(c, n)
             \/ ChannelBinds(c)
      PROVE  ClosingInTime'
  <2>1. UNCHANGED <<now, sock, closeBy, lastGrad, freed>>
        BY <1>5 DEF Reintroduce, Bind, ChannelBinds, history
  <2>2. Closing' = Closing
        BY <2>1 DEF Closing
  <2> QED BY <1>2, <2>1, <2>2
<1>6. ASSUME NEW c \in Conn, NEW s \in Sizes, Ping(c, s)
      PROVE  ClosingInTime'
  <2>1. /\ UNCHANGED <<now, lastGrad>> /\ c \in Admitted
        /\ \/ Release(c) /\ freed' = freed \cup ({c} \ Closing)
           \/ UNCHANGED <<sock, closeBy, freed>>
        BY <1>6 DEF Ping
  <2>2. CASE UNCHANGED <<sock, closeBy, freed>>
    <3>1. Closing' = Closing
          BY <2>2 DEF Closing
    <3> QED BY <1>2, <2>1, <2>2, <3>1
  <2>3. CASE Release(c) /\ freed' = freed \cup ({c} \ Closing)
    <3>1. ASSUME NEW d \in Closing
          PROVE  /\ now' <= closeBy'[d]
                 /\ d \notin freed' => closeBy'[d] <= lastGrad' + CloseTime
          BY <2>1, <2>3, ReleaseCloses DEF ClosingInTime
    <3>2. CASE c \notin Closing
      <4>1. sock[c] = "open" /\ c \in freed'
            BY <2>1, <2>3, <3>2 DEF Admitted, Closing
      <4>2. closeBy'[c] = now + CloseTime
            BY <2>3, <4>1, ReleaseCloses
      <4>3. now' <= closeBy'[c]
            BY <1>1, <2>1, <4>2
      <4> QED BY <2>3, <3>1, <4>1, <4>3, ReleaseCloses DEF ClosingInTime
    <3>3. CASE c \in Closing
      <4>1. Closing' = Closing
            BY <2>3, <3>3, ReleaseCloses
      <4> QED BY <3>1, <4>1 DEF ClosingInTime
    <3> QED BY <3>2, <3>3
  <2> QED BY <2>1, <2>2, <2>3
<1>7. ASSUME NEW c \in Conn, MaybeGraduate(c)
      PROVE  ClosingInTime'
  <2>1. /\ Release(c) /\ lastGrad' = now /\ UNCHANGED <<now, freed>>
        /\ c \in Admitted
        BY <1>7 DEF MaybeGraduate, Picks, Eligible, Candidates
  <2>2. lastGrad <= now
        BY DEF PastStamps
  <2>3. ASSUME NEW d \in Closing
        PROVE  /\ now' <= closeBy'[d]
               /\ d \notin freed' => closeBy'[d] <= lastGrad' + CloseTime
    <3>1. d \in Conn /\ closeBy'[d] = closeBy[d]
          BY <2>1, ReleaseCloses DEF Closing
    <3>2. /\ now <= closeBy[d]
          /\ d \notin freed => closeBy[d] <= lastGrad + CloseTime
          BY DEF ClosingInTime
    <3> QED BY <1>1, <2>1, <2>2, <3>1, <3>2
  <2>4. CASE c \notin Closing
    <3>1. sock[c] = "open"
          BY <2>1, <2>4 DEF Admitted, Closing
    <3>2. closeBy'[c] = now + CloseTime
          BY <2>1, <3>1, ReleaseCloses
    <3>3. now' <= closeBy'[c] /\ closeBy'[c] <= lastGrad' + CloseTime
          BY <1>1, <2>1, <3>2
    <3> QED BY <2>1, <2>3, <3>3, ReleaseCloses DEF ClosingInTime
  <2>5. CASE c \in Closing
    <3>1. Closing' = Closing
          BY <2>1, <2>5, ReleaseCloses
    <3> QED BY <2>3, <3>1 DEF ClosingInTime
  <2> QED BY <2>4, <2>5
<1>8. ASSUME NEW c \in Conn, Gone(c) PROVE ClosingInTime'
  <2>1. Closing' \subseteq Closing
        BY <1>8 DEF Gone, Closing, TypeOK
  <2> QED BY <1>2, <1>8, <2>1 DEF Gone, history
<1>9. CASE UNCHANGED vars
  <2>1. Closing' = Closing
        BY <1>9 DEF vars, Closing
  <2> QED BY <1>2, <1>9, <2>1 DEF vars, history
<1> QED BY <1>3, <1>4, <1>5, <1>6, <1>7, <1>8, <1>9 DEF Next

(* Closing sockets keep to their time in every behaviour.                  *)
THEOREM InTimeInvariance == Spec => []ClosingInTime
<1>1. Init => ClosingInTime
      BY DEF Init, ClosingInTime, Closing
<1>2. GraduationInv => TypeOK
      BY DEF GraduationInv
<1> QED BY <1>1, <1>2, InTimeStep, GraduationInvariance, PTL DEF Spec

(* A count above one counts somebody else. *)
LEMMA AnotherMate ==
    ASSUME NEW c, RegionCount(c) > 1
    PROVE  \E d \in Mates(Candidates, c) : d # c
<1> SUFFICES ASSUME Mates(Candidates, c) \subseteq {c} PROVE FALSE
    OBVIOUS
<1>1. IsFiniteSet({c}) /\ Cardinality({c}) = 1
      BY FS_Singleton
<1>2. /\ Cardinality(Mates(Candidates, c)) <= 1
      /\ Cardinality(Mates(Candidates, c)) \in Nat
  <2>1. Mates(Candidates, c) \in SUBSET {c}
        OBVIOUS
  <2> HIDE DEF Mates
  <2>2. IsFiniteSet(Mates(Candidates, c))
        BY <1>1, <2>1, FS_Subset
  <2> QED BY <1>1, <2>1, <2>2, FS_Subset, FS_CardinalityType
<1> QED BY <1>2 DEF RegionCount

(* No region loses its last representative over the cap, if a close takes  *)
(* less than an interval: the peer that was counted beside the graduate is *)
(* closing only when rule 4 released it, for whoever an earlier graduation *)
(* released has gone.                                                      *)
THEOREM RegionRepresented == CloseTime < Interval => (Spec => RegionKeepsOne)
<1> DEFINE Kept(c) ==
        sock[c] = "open" /\ lastGrad' # lastGrad /\ sock'[c] = "closing"
           /\ Mates(Admitted, c) \cap freed = {}
        => \E d \in Mates(Admitted, c) \ {c} : sock[d] = "open"
<1> SUFFICES ASSUME CloseTime < Interval PROVE Spec => RegionKeepsOne
    OBVIOUS
<1>1. ASSUME TypeOK, ClosingInTime, NEW b \in Conn, MaybeGraduate(b),
             NEW c \in Conn, sock[c] = "open", sock'[c] = "closing",
             Mates(Admitted, c) \cap freed = {}
      PROVE  \E d \in Mates(Admitted, c) \ {c} : sock[d] = "open"
  <2>1. /\ now - lastGrad >= Interval /\ Release(b)
        /\ RegionCount(b) > 1
        BY <1>1 DEF MaybeGraduate, Picks
  <2>2. b = c
        BY <1>1, <2>1 DEF Release, TypeOK
  <2>3. PICK d \in Mates(Candidates, c) : d # c
        BY <2>1, <2>2, AnotherMate
  <2>4. d \in Mates(Admitted, c) /\ d \in Admitted
        BY <2>3 DEF Mates, Candidates
  <2>5. d \notin Closing
    <3> SUFFICES ASSUME d \in Closing PROVE FALSE
        OBVIOUS
    <3>1. d \in Conn /\ d \notin freed
          BY <1>1, <2>4 DEF Closing
    <3>2. now <= closeBy[d] /\ closeBy[d] <= lastGrad + CloseTime
          BY <1>1, <3>1 DEF ClosingInTime
    <3>3. /\ now \in Nat /\ lastGrad \in Nat /\ closeBy[d] \in Nat
          /\ CloseTime \in Nat /\ Interval \in Nat
          BY <1>1, <3>1, Bounds, GraduationAssumption DEF TypeOK
    <3> QED BY <2>1, <3>2, <3>3
  <2>6. sock[d] = "open"
        BY <2>4, <2>5 DEF Admitted, Closing
  <2> QED BY <2>3, <2>4, <2>6
<1>2. ASSUME [Next]_vars, lastGrad' # lastGrad
      PROVE  \E b \in Conn : MaybeGraduate(b)
      BY <1>2 DEF Next, Tick, Admit, Reintroduce, Bind, ChannelBinds, Ping, Gone, vars
<1>3. ASSUME TypeOK, ClosingInTime, [Next]_vars
      PROVE  \A c \in Conn : Kept(c)
      BY <1>1, <1>2, <1>3
<1> HIDE DEF Kept
<1>4. GraduationInv => TypeOK
      BY DEF GraduationInv
<1>5. [][\A c \in Conn : Kept(c)]_vars => RegionKeepsOne
      BY PTL DEF RegionKeepsOne, Kept
<1> QED BY <1>3, <1>4, <1>5, GraduationInvariance, InTimeInvariance, PTL DEF Spec
=============================================================================
