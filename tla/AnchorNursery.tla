---------------------------- MODULE AnchorNursery ----------------------------
(***************************************************************************)
(* The bootstrap nursery (selectAnchors of src/anchor_select.js and its    *)
(* use by admitConnection of src/server.js).  Once enough peers have been  *)
(* at the door for a while, a newcomer is handed K anchors and not the     *)
(* whole list; each anchor's usage is counted, and weighs against it the   *)
(* next time.                                                              *)
(*                                                                         *)
(* A connection is admitted when it connects.  A region is the top byte of *)
(* the identity a connection has bound; a newcomer may claim one before it *)
(* has bound.  Scores are compared exactly, not in floating point.  A name *)
(* of Conn may be taken again by a later connection, with the next number. *)
(***************************************************************************)
EXTENDS Integers, FiniteSets

CONSTANTS Conn, Region, NoRegion,
          K,            \* BRIDGE_ANCHOR_K
          MinUptime,    \* BRIDGE_ANCHOR_MIN_UPTIME_MS
          MinPool,      \* BRIDGE_ANCHOR_MIN_POOL
          Steps,        \* by how much the clock may move
          MaxTime,      \* bound on the clock
          MaxArrivals   \* bound on the connections

ASSUME AnchorNurseryAssumption ==
    /\ NoRegion \notin Region
    /\ {K, MinUptime} \cup Steps \subseteq Nat \ {0}
    /\ {MinPool, MaxTime, MaxArrivals} \subseteq Nat
    /\ IsFiniteSet(Conn)

VARIABLES now,      \* Date.now()
          number,   \* the place of a connection in the map, 0 when not there
          since,    \* conn.since
          region,   \* the region of the bound identity
          uses,     \* conn.anchorUses
          arrivals  \* connections so far

nurseryVars == <<now, number, since, region, uses, arrivals>>

Present == {c \in Conn : number[c] # 0}

NurseryInit ==
    /\ now = 0
    /\ number = [c \in Conn |-> 0]
    /\ since = [c \in Conn |-> 0]
    /\ region = [c \in Conn |-> NoRegion]
    /\ uses = [c \in Conn |-> 0]
    /\ arrivals = 0

-----------------------------------------------------------------------------
(* The selection *)

EligibleFor(new) == {c \in Present \ {new} : now - since[c] >= MinUptime}
Bound(S) == {c \in S : region[c] # NoRegion}

(* Longevity counts up to ten times the minimum. *)
Uptime(c) == IF now - since[c] < 10 * MinUptime THEN now - since[c]
                                               ELSE 10 * MinUptime

MaxUses(S) == CHOOSE m \in {uses[c] : c \in S} : \A c \in S : uses[c] <= m

(* Fault: usage does not weigh. *)
ScoreUnloaded(S, c) == Uptime(c)

(* 100 * MaxUses * 10 * MinUptime times the score: longevity less 0.35 of  *)
(* the usage relative to the most used.                                    *)
Score(S, c) == IF MaxUses(S) = 0 THEN Uptime(c)
               ELSE 100 * MaxUses(S) * Uptime(c) - 35 * 10 * MinUptime * uses[c]

(* The ranking among the eligible S: equals keep the order of the map. *)
Ahead(S, a, b) == \/ Score(S, a) > Score(S, b)
                  \/ Score(S, a) = Score(S, b) /\ number[a] < number[b]

(* The first n of T. *)
Top(S, T, n) == {c \in T : Cardinality({d \in T : Ahead(S, d, c)}) < n}

(* Fault: region-mates may take every place. *)
OwnShareAll == K

OwnShare == IF K >= 2 THEN K \div 2 ELSE 1

(* Pass 0: the newcomer's region-mates have up to half of the places. *)
Mates(S, claim) ==
    IF claim = NoRegion THEN {}
    ELSE Top(S, {c \in S : region[c] = claim}, OwnShare)

(* Pass 1: the first of each region not used yet. *)
Delegates(S, chosen) ==
    LET used == {region[c] : c \in chosen}
    IN  Top(S, {c \in Bound(S) : /\ region[c] \notin used
                                 /\ \A d \in S : region[d] = region[c]
                                                   => ~Ahead(S, d, c)},
            K - Cardinality(chosen))

(* Fault: longevity alone fills the places (the door before 2026-10-08).   *)
FilledByAnybody(S, chosen) ==
    chosen \cup Top(S, S \ chosen, K - Cardinality(chosen))

(* Fault: an unbound socket is no anchor at all. *)
FilledByBound(S, chosen) ==
    chosen \cup Top(S, Bound(S) \ chosen, K - Cardinality(chosen))

(* Passes 2 and 3: the rest of the bound, then of the others. *)
Filled(S, chosen) ==
    LET two == chosen \cup Top(S, Bound(S) \ chosen, K - Cardinality(chosen))
    IN  two \cup Top(S, S \ two, K - Cardinality(two))

Curated(S, claim) ==
    LET mates == Mates(S, claim)
    IN  Filled(S, mates \cup Delegates(S, mates))

(* selectAnchors: below the pool's minimum the whole list. *)
Anchors(new, claim) ==
    LET S == EligibleFor(new)
    IN  IF Cardinality(S) < MinPool THEN Present \ {new} ELSE Curated(S, claim)

-----------------------------------------------------------------------------
(* Actions *)

(* anchorUses starts at nothing and counts every list it is in. *)
Used(c, anchors) == [d \in Conn |-> IF d \in anchors THEN uses[d] + 1
                                    ELSE IF d = c THEN 0 ELSE uses[d]]

(* A connection is admitted and introduced. *)
Admit(c, claim) ==
    /\ number[c] = 0
    /\ arrivals < MaxArrivals
    /\ arrivals' = arrivals + 1
    /\ number' = [number EXCEPT ![c] = arrivals + 1]
    /\ since' = [since EXCEPT ![c] = now]
    /\ uses' = Used(c, Anchors(c, claim))
    /\ UNCHANGED <<now, region>>

(* Its identity binds, which may belie the claim. *)
Bind(c, r) ==
    /\ c \in Present
    /\ region[c] = NoRegion
    /\ region' = [region EXCEPT ![c] = r]
    /\ UNCHANGED <<now, number, since, uses, arrivals>>

Leave(c) ==
    /\ c \in Present
    /\ number' = [number EXCEPT ![c] = 0]
    /\ since' = [since EXCEPT ![c] = 0]
    /\ region' = [region EXCEPT ![c] = NoRegion]
    /\ uses' = [uses EXCEPT ![c] = 0]
    /\ UNCHANGED <<now, arrivals>>

Tick(d) ==
    /\ now + d <= MaxTime
    /\ now' = now + d
    /\ UNCHANGED <<number, since, region, uses, arrivals>>

NurseryNext ==
    \/ \E c \in Conn :
        \/ \E claim \in Region \cup {NoRegion} : Admit(c, claim)
        \/ \E r \in Region : Bind(c, r)
        \/ Leave(c)
    \/ \E d \in Steps : Tick(d)

NurserySpec == NurseryInit /\ [][NurseryNext]_nurseryVars

-----------------------------------------------------------------------------
(* Properties *)

(* Every variable keeps its type, and nobody is used more often than       *)
(* connections came after it.                                              *)
NurseryTypeOK ==
    /\ now \in 0..MaxTime
    /\ number \in [Conn -> 0..MaxArrivals]
    /\ since \in [Conn -> 0..now]
    /\ region \in [Conn -> Region \cup {NoRegion}]
    /\ uses \in [Conn -> Nat]
    /\ arrivals \in 0..MaxArrivals
    /\ \A c \in Present : uses[c] <= arrivals - number[c]

(* c is admitted in this step, and the list is a selection. *)
Selects(c) == /\ number[c] = 0 /\ number'[c] # 0
              /\ Cardinality(EligibleFor(c)) >= MinPool
Picked == {a \in Present : uses'[a] = uses[a] + 1}

(* Anti-concentration: of two region-mates that have been there for as     *)
(* long, the one that was everybody's first contact so far is not handed   *)
(* out again before the other.                                             *)
NoPileUp ==
    [][\A c \in Conn : Selects(c) =>
          \A a \in Picked : \A b \in EligibleFor(c) :
              /\ region[a] # NoRegion /\ region[a] = region[b]
              /\ Uptime(a) = Uptime(b)
              /\ uses[a] > uses[b]
              => b \in Picked]_nurseryVars

OwnHalf == IF K >= 2 THEN K \div 2 ELSE 1

(* Diversity: a region that an eligible peer is bound in has an anchor, if *)
(* not as many regions as there are places beside the newcomer's own half  *)
(* have one.                                                               *)
Diverse ==
    [][\A c \in Conn : Selects(c) =>
          LET heard == {region[a] : a \in Bound(Picked)}
          IN  \A b \in Bound(EligibleFor(c)) :
                  region[b] \in heard \/ Cardinality(heard) > K - OwnHalf]_nurseryVars

(* "A socket that has not said who it is cannot be an anchor while a bound *)
(* one is available."                                                      *)
UnboundLast ==
    [][\A c \in Conn : Selects(c) /\ Picked # Bound(Picked)
          => Bound(EligibleFor(c)) \subseteq Picked]_nurseryVars

(* "A cold door still introduces whoever it has": the passes together hand *)
(* out K anchors, never one more, and fewer only when there are no more.   *)
PlacesFilled ==
    [][\A c \in Conn : Selects(c) =>
          LET n == Cardinality(EligibleFor(c))
          IN  Cardinality(Picked) = IF n < K THEN n ELSE K]_nurseryVars
=============================================================================
