--------------------------- MODULE HandedOut_proofs ---------------------------
(***************************************************************************)
(* Theorems about what the bridge hands out of the map of its connections: *)
(* the anchors of a newcomer (AnchorNursery), and the samples the kernel's *)
(* fill asks for (DirectoryFeed).                                          *)
(*                                                                         *)
(* The promises of the feed hold because a request is on its way at most   *)
(* once, and only while it has neither been answered nor cut off.  Those   *)
(* of the anchors hold because the ranking is a strict order in which any  *)
(* two differ, so that the first n of a set are exactly n, or all of it.   *)
(***************************************************************************)
EXTENDS DirectoryFeed, AnchorNursery, FiniteSetTheorems, WellFoundedInduction, TLAPS

-----------------------------------------------------------------------------
(* The feed *)

(* What is on its way was promised, is not cut off, is a sample of what    *)
(* the source returned to it, and is there once.                           *)
OnItsWay(d) == /\ asked[d.req] = "sent"
               /\ d.req \notin cut
               /\ \E P \in pool[d.req] : Drawn(d.sample, P \ {Self})
PendingIsPromised == \A i \in DOMAIN pending : OnItsWay(pending[i])
PendingOnce == \A i, j \in DOMAIN pending :
                  pending[i].req = pending[j].req => i = j

HeardIsAnswered == \A a \in heard : asked[a.req] = "answered"
CutWasSent == \A r \in cut : asked[r] # "not"

FeedInv == /\ TypeOK
           /\ PendingIsPromised
           /\ PendingOnce
           /\ HeardIsAnswered
           /\ CutWasSent
           /\ HonestAnswer
           /\ NothingAfterStop

Delivery == [req : Request, gen : 0..MaxGen,
             sample : SUBSET (Node \ {Self}), then : SUBSET Handler]

-----------------------------------------------------------------------------
LEMMA FeedInit == Init => FeedInv
<1> SUFFICES ASSUME Init PROVE FeedInv
    OBVIOUS
<1>1. <<>> \in Seq(Delivery) /\ DOMAIN <<>> = {}
      OBVIOUS
<1>2. TypeOK
  <2>1. pending \in Seq(Delivery)
        BY <1>1 DEF Init
  <2>2. 0 \in 0..MaxGen
        BY DirectoryFeedAssumption
  <2>3. asked \in [Request -> {"not", "unavailable", "sent", "answered", "unheard"}]
        BY DEF Init
  <2>4. pool \in [Request -> SUBSET SUBSET Node]
        BY DEF Init
  <2> QED BY <2>1, <2>2, <2>3, <2>4, Zenon DEF Init, TypeOK, Delivery
<1>3. PendingIsPromised /\ PendingOnce
      BY <1>1 DEF Init, PendingIsPromised, PendingOnce
<1>4. HeardIsAnswered /\ CutWasSent /\ HonestAnswer /\ NothingAfterStop
      BY DEF Init, HeardIsAnswered, CutWasSent, HonestAnswer, NothingAfterStop
<1> QED BY <1>2, <1>3, <1>4 DEF FeedInv

(* What the invariant says of the timers, by position. *)
LEMMA PendingFacts ==
    ASSUME FeedInv
    PROVE  /\ pending \in Seq(Delivery)
           /\ DOMAIN pending = 1..Len(pending)
           /\ \A i \in DOMAIN pending : /\ pending[i] \in Delivery
                                        /\ pending[i].req \in Request
                                        /\ OnItsWay(pending[i])
<1>1. pending \in Seq(Delivery)
      BY DEF FeedInv, TypeOK, Delivery
<1>2. /\ DOMAIN pending = 1..Len(pending)
      /\ \A i \in DOMAIN pending : pending[i] \in Delivery
      BY <1>1
<1>3. \A d \in Delivery : d.req \in Request
      BY DEF Delivery
<1> QED BY <1>1, <1>2, <1>3 DEF FeedInv, PendingIsPromised

(* A delivery that stays on its way: its request fares as before. *)
LEMMA StaysOnItsWay ==
    ASSUME NEW d, OnItsWay(d),
           asked'[d.req] = asked[d.req],
           pool'[d.req] = pool[d.req],
           d.req \in cut' => d.req \in cut
    PROVE  /\ asked'[d.req] = "sent"
           /\ d.req \notin cut'
           /\ \E P \in pool'[d.req] : Drawn(d.sample, P \ {Self})
BY DEF OnItsWay

LEMMA UnavailableStep ==
    ASSUME FeedInv, NEW r \in Request, asked[r] = "not", Unavailable(r),
           UNCHANGED <<hasSource, known, handlers, generation, cut>>
    PROVE  FeedInv'
<1>1. /\ asked' = [asked EXCEPT ![r] = "unavailable"]
      /\ UNCHANGED <<pending, pool, heard>>
      BY DEF Unavailable
<1>2. TypeOK'
      BY <1>1 DEF FeedInv, TypeOK
<1>3. ASSUME NEW i \in DOMAIN pending PROVE OnItsWay(pending[i])'
  <2>1. OnItsWay(pending[i]) /\ pending[i].req \in Request
        BY PendingFacts
  <2>2. pending[i].req # r
        BY <2>1 DEF OnItsWay
  <2>3. asked'[pending[i].req] = asked[pending[i].req]
        BY <1>1, <2>1, <2>2 DEF FeedInv, TypeOK
  <2> QED BY <1>1, <2>1, <2>3, StaysOnItsWay DEF OnItsWay, Drawn
<1>4. PendingIsPromised' /\ PendingOnce'
      BY <1>1, <1>3 DEF FeedInv, PendingIsPromised, PendingOnce
<1>5. /\ HeardIsAnswered' /\ CutWasSent' /\ NothingAfterStop'
      BY <1>1 DEF FeedInv, TypeOK, HeardIsAnswered, CutWasSent, NothingAfterStop
<1>6. HonestAnswer'
      BY <1>1 DEF FeedInv, HonestAnswer, Drawn
<1> QED BY <1>2, <1>4, <1>5, <1>6 DEF FeedInv

LEMMA ServedStep ==
    ASSUME FeedInv, NEW r \in Request, asked[r] = "not", Served(r),
           UNCHANGED <<hasSource, known, handlers, generation, cut>>
    PROVE  FeedInv'
<1>1. PICK S \in Samples :
         pending' = Append(pending, [req |-> r, gen |-> generation,
                                     sample |-> S, then |-> handlers])
      BY DEF Served
<1> DEFINE d == [req |-> r, gen |-> generation, sample |-> S, then |-> handlers]
<1>2. /\ S \in SUBSET (Node \ {Self})
      /\ Drawn(S, known \ {Self})
      BY DEF Samples, Drawn, FeedInv, TypeOK
<1>3. d \in Delivery /\ pending \in Seq(Delivery)
      BY <1>2 DEF FeedInv, TypeOK, Delivery
<1>4. /\ pending' \in Seq(Delivery)
      /\ Len(pending') = Len(pending) + 1
      /\ DOMAIN pending' = 1..Len(pending')
      /\ \A i \in 1..Len(pending) : pending'[i] = pending[i]
      /\ pending'[Len(pending) + 1] = d
      BY <1>1, <1>3
<1> HIDE DEF d
<1>5. d.req = r /\ d.sample = S
      BY DEF d
<1>6. ASSUME NEW i \in DOMAIN pending
      PROVE  /\ pending[i].req # r /\ pending[i].req \in Request
             /\ OnItsWay(pending[i])
      BY PendingFacts DEF OnItsWay
<1>7. TypeOK'
      BY <1>4 DEF Served, FeedInv, TypeOK, Delivery
<1>8. asked' = [asked EXCEPT ![r] = "sent"] /\ pool' = [pool EXCEPT ![r] = {known}]
      BY DEF Served
<1>9. PendingIsPromised'
  <2> SUFFICES ASSUME NEW i \in DOMAIN pending'
               PROVE  OnItsWay(pending[i])'
      BY DEF PendingIsPromised
  <2>1. CASE i \in 1..Len(pending)
    <3>1. i \in DOMAIN pending /\ pending'[i] = pending[i]
          BY <2>1, <1>3, <1>4
    <3>2. OnItsWay(pending[i]) /\ pending[i].req # r
          BY <3>1, <1>6
    <3>3. asked'[pending[i].req] = asked[pending[i].req]
          /\ pool'[pending[i].req] = pool[pending[i].req]
          BY <3>1, <3>2, <1>6, <1>8 DEF FeedInv, TypeOK
    <3> QED BY <3>1, <3>2, <3>3, StaysOnItsWay DEF OnItsWay, Drawn
  <2>2. CASE i = Len(pending) + 1
    <3>1. pending'[i].req = r /\ pending'[i].sample = S
          BY <2>2, <1>4, <1>5
    <3>2. asked'[r] = "sent" /\ pool'[r] = {known} /\ r \notin cut
          BY <1>8 DEF FeedInv, TypeOK, CutWasSent
    <3> QED BY <3>1, <3>2, <1>2 DEF OnItsWay, Drawn
  <2> QED BY <2>1, <2>2, <1>3, <1>4
<1>10. PendingOnce'
       BY <1>3, <1>4, <1>5, <1>6 DEF FeedInv, PendingOnce
<1>11. /\ HeardIsAnswered' /\ CutWasSent' /\ NothingAfterStop'
       BY <1>8 DEF Served, FeedInv, TypeOK, HeardIsAnswered, CutWasSent, NothingAfterStop
<1>12. HonestAnswer'
       BY <1>8 DEF Served, FeedInv, TypeOK, HeardIsAnswered, HonestAnswer, Drawn
<1> QED BY <1>7, <1>9, <1>10, <1>11, <1>12 DEF FeedInv

LEMMA DeliverStep == ASSUME FeedInv, Deliver PROVE FeedInv'
<1> DEFINE d == Head(pending)
           called == IF d.gen = generation THEN Called(d) ELSE {}
<1>1. pending \in Seq(Delivery) /\ pending # <<>>
      BY DEF Deliver, FeedInv, TypeOK, Delivery
<1>2. /\ d \in Delivery
      /\ d = pending[1]
      /\ 1 \in DOMAIN pending
      /\ Tail(pending) \in Seq(Delivery)
      /\ Len(Tail(pending)) = Len(pending) - 1
      /\ DOMAIN Tail(pending) = 1..(Len(pending) - 1)
      /\ \A i \in 1..(Len(pending) - 1) : Tail(pending)[i] = pending[i + 1]
      BY <1>1
<1>3. d.req \in Request /\ d.sample \in SUBSET (Node \ {Self}) /\ called \subseteq Handler
      BY <1>2 DEF Called, Delivery, FeedInv, TypeOK
<1>4. /\ pending' = Tail(pending)
      /\ heard' = heard \cup [req : {d.req}, by : called, sample : {d.sample}]
      /\ asked' = [asked EXCEPT ![d.req] = IF called = {} THEN "unheard" ELSE "answered"]
      /\ UNCHANGED <<hasSource, known, handlers, generation, pool, cut>>
      BY DEF Deliver
<1>5. OnItsWay(d)
      BY <1>2 DEF FeedInv, PendingIsPromised
<1>6. \A i \in DOMAIN pending' : /\ pending'[i] = pending[i + 1]
                                 /\ i + 1 \in DOMAIN pending
                                 /\ pending'[i].req # d.req
      BY <1>1, <1>2, <1>4 DEF FeedInv, PendingOnce
<1> HIDE DEF d, called
<1>7. TypeOK'
      BY <1>2, <1>3, <1>4 DEF FeedInv, TypeOK, Delivery
<1>8. PendingIsPromised'
  <2> SUFFICES ASSUME NEW i \in DOMAIN pending'
               PROVE  OnItsWay(pending[i])'
      BY DEF PendingIsPromised
  <2>1. /\ pending'[i] = pending[i + 1] /\ pending[i + 1].req # d.req
        /\ OnItsWay(pending[i + 1]) /\ pending[i + 1].req \in Request
        BY <1>6, PendingFacts
  <2>2. asked'[pending[i + 1].req] = asked[pending[i + 1].req]
        BY <2>1, <1>4 DEF FeedInv, TypeOK
  <2> QED BY <2>1, <2>2, <1>4, StaysOnItsWay DEF OnItsWay, Drawn
<1>9. PendingOnce'
      BY <1>1, <1>2, <1>4, <1>6 DEF FeedInv, PendingOnce
<1>10. \A a \in heard' : a \in heard \/ (a.req = d.req /\ a.sample = d.sample /\ called # {})
       BY <1>4
<1>11. \A a \in heard : a.req # d.req /\ a.req \in Request
       BY <1>5 DEF FeedInv, TypeOK, HeardIsAnswered, OnItsWay
<1>12. HeardIsAnswered'
       BY <1>3, <1>4, <1>10, <1>11 DEF FeedInv, TypeOK, HeardIsAnswered
<1>13. CutWasSent'
       BY <1>3, <1>4 DEF FeedInv, TypeOK, CutWasSent
<1>14. HonestAnswer'
       BY <1>4, <1>5, <1>10 DEF FeedInv, HonestAnswer, OnItsWay, Drawn
<1>15. NothingAfterStop'
       BY <1>4, <1>5, <1>10 DEF FeedInv, NothingAfterStop, OnItsWay
<1> QED BY <1>7, <1>8, <1>9, <1>12, <1>13, <1>14, <1>15 DEF FeedInv

LEMMA StopStep == ASSUME FeedInv, Stop PROVE FeedInv'
<1>1. /\ generation' = generation + 1 /\ generation < MaxGen
      /\ pending' = <<>>
      /\ cut' = cut \cup {r \in Request : asked[r] = "sent"}
      /\ UNCHANGED <<hasSource, known, handlers, asked, pool, heard>>
      BY DEF Stop, Cancel, Outstanding
<1>2. TypeOK'
      BY <1>1, DirectoryFeedAssumption DEF FeedInv, TypeOK, DirectoryFeedAssumption
<1>3. PendingIsPromised' /\ PendingOnce'
      BY <1>1 DEF PendingIsPromised, PendingOnce
<1>4. HeardIsAnswered' /\ CutWasSent' /\ HonestAnswer'
      BY <1>1 DEF FeedInv, HeardIsAnswered, CutWasSent, HonestAnswer, Drawn
<1>5. NothingAfterStop'
      BY <1>1 DEF FeedInv, HeardIsAnswered, NothingAfterStop
<1> QED BY <1>2, <1>3, <1>4, <1>5 DEF FeedInv

(* What else happens touches neither the requests nor the answers. *)
LEMMA OtherSteps ==
    ASSUME FeedInv, TypeOK',
           UNCHANGED <<pending, asked, pool, heard, cut>>
    PROVE  FeedInv'
BY DEF FeedInv, PendingIsPromised, PendingOnce, OnItsWay, HeardIsAnswered,
       CutWasSent, HonestAnswer, NothingAfterStop, Drawn

LEMMA FeedStep == FeedInv /\ [Next]_vars => FeedInv'
<1> SUFFICES ASSUME FeedInv, [Next]_vars PROVE FeedInv'
    OBVIOUS
<1>1. ASSUME NEW r \in Request, Ask(r) PROVE FeedInv'
      BY <1>1, UnavailableStep, ServedStep DEF Ask
<1>2. CASE Deliver
      BY <1>2, DeliverStep
<1>3. CASE SetSource
      BY <1>3, OtherSteps DEF SetSource, history, FeedInv, TypeOK
<1>4. ASSUME NEW h \in Handler, Subscribe(h) \/ Unsubscribe(h) PROVE FeedInv'
      BY <1>4, OtherSteps DEF Subscribe, Unsubscribe, history, FeedInv, TypeOK
<1>5. CASE Stop
      BY <1>5, StopStep
<1>6. ASSUME NEW n \in Node, Known(n) PROVE FeedInv'
      BY <1>6, OtherSteps DEF Known, history, FeedInv, TypeOK
<1>7. CASE UNCHANGED vars
      BY <1>7, OtherSteps DEF vars, history, FeedInv, TypeOK
<1> QED BY <1>1, <1>2, <1>3, <1>4, <1>5, <1>6, <1>7 DEF Next

-----------------------------------------------------------------------------
(* The invariant holds in every behaviour. *)
THEOREM FeedInvariance == Spec => []FeedInv
<1> QED BY FeedInit, FeedStep, PTL DEF Spec

(* Every variable keeps its type, and the bridge never offers itself, for  *)
(* any sample size and any number of requests, handlers and stops.         *)
THEOREM TypeCorrect == Spec => []TypeOK
<1>1. FeedInv => TypeOK
      BY DEF FeedInv
<1> QED BY <1>1, FeedInvariance, PTL

(* Every answer is a full sample of the list its own request was given.    *)
THEOREM AnswersHonest == Spec => []HonestAnswer
<1>1. FeedInv => HonestAnswer
      BY DEF FeedInv
<1> QED BY <1>1, FeedInvariance, PTL

(* What was on its way at a stop is never delivered. *)
THEOREM StopIsFinal == Spec => []NothingAfterStop
<1>1. FeedInv => NothingAfterStop
      BY DEF FeedInv
<1> QED BY <1>1, FeedInvariance, PTL

(* Nobody is called that has unsubscribed. *)
THEOREM OnlySubscribersHear == Spec => UnsubscribedUnheard
<1>1. [Next]_vars => [\A a \in heard' \ heard : a.by \in handlers]_vars
  <2> SUFFICES ASSUME [Next]_vars, NEW a \in heard' \ heard
               PROVE  a.by \in handlers
      OBVIOUS
  <2>1. CASE Deliver
        BY <2>1 DEF Deliver, Called
  <2>2. CASE ~Deliver
        BY <2>2 DEF Next, Ask, Unavailable, Served, SetSource, Subscribe,
                    Unsubscribe, Stop, Known, vars, history
  <2> QED BY <2>1, <2>2
<1> QED BY <1>1, PTL DEF Spec, UnsubscribedUnheard

-----------------------------------------------------------------------------
(* The anchors *)

(* The map has one entry for each number. *)
NumbersUnique ==
    \A c \in Present : \A d \in Present : number[c] = number[d] => c = d

NurseryInv == NurseryTypeOK /\ NumbersUnique

-----------------------------------------------------------------------------
(* Finite sets and least elements *)

LEMMA NurseryConstants ==
    /\ K \in Nat \ {0} /\ MinUptime \in Nat \ {0}
    /\ MinPool \in Nat /\ MaxTime \in Nat /\ MaxArrivals \in Nat
    /\ \A d \in Steps : d \in Nat
BY AnchorNurseryAssumption

LEMMA ConnsFinite ==
    \A S \in SUBSET Conn : IsFiniteSet(S) /\ Cardinality(S) \in Nat
BY AnchorNurseryAssumption, FS_Subset, FS_CardinalityType

LEMMA LeastNat ==
    ASSUME NEW S \in SUBSET Nat, S # {}
    PROVE  \E x \in S : \A y \in S : x <= y
<1>1. \E x \in S : \A y \in S : ~(<<y, x>> \in OpToRel(<, Nat))
      BY WFMin, NatLessThanWellFounded, Zenon
<1>2. PICK x \in S : \A y \in S : ~(y < x)
      BY <1>1 DEF OpToRel
<1> QED BY <1>2

LEMMA ASubsetCounts ==
    ASSUME NEW T \in SUBSET Conn, NEW U \in SUBSET T
    PROVE  /\ Cardinality(U) \in Nat /\ Cardinality(T) \in Nat
           /\ Cardinality(U) <= Cardinality(T)
           /\ U # T => Cardinality(U) < Cardinality(T)
<1>1. IsFiniteSet(T) /\ Cardinality(T) \in Nat /\ Cardinality(U) \in Nat
      BY ConnsFinite
<1>2. Cardinality(U) <= Cardinality(T) /\ (Cardinality(T) = Cardinality(U) => T = U)
      BY <1>1, FS_Subset
<1> QED BY <1>1, <1>2

-----------------------------------------------------------------------------
(* The ranking *)

(* Ahead is a strict order of S, and tells any two members apart. *)
Ranked(S) ==
    /\ S \in SUBSET Conn
    /\ \A a \in S : ~Ahead(S, a, a)
    /\ \A a \in S : \A b \in S : a # b => Ahead(S, a, b) \/ Ahead(S, b, a)
    /\ \A a \in S : \A b \in S : \A c \in S :
          Ahead(S, a, b) /\ Ahead(S, b, c) => Ahead(S, a, c)

LEMMA MostUsed ==
    ASSUME NurseryTypeOK, NEW S \in SUBSET Present, S # {}
    PROVE  MaxUses(S) \in Nat /\ \A c \in S : uses[c] <= MaxUses(S)
<1> DEFINE T == {uses[c] : c \in S}
           L == {arrivals - u : u \in T}
<1>1. /\ arrivals \in Nat
      /\ \A c \in S : /\ c \in Conn /\ uses[c] \in Nat /\ number[c] \in Nat
                      /\ uses[c] <= arrivals - number[c]
      BY NurseryConstants DEF NurseryTypeOK, Present
<1>2. T \subseteq Nat /\ \A u \in T : u <= arrivals
      BY <1>1
<1>3. L \in SUBSET Nat /\ L # {}
      BY <1>1, <1>2
<1> HIDE DEF L
<1>4. PICK l \in L : \A y \in L : l <= y
      BY <1>3, LeastNat
<1> USE DEF L
<1>5. PICK m \in T : l = arrivals - m
      BY <1>4
<1>6. \A c \in S : uses[c] <= m
  <2> SUFFICES ASSUME NEW c \in S PROVE uses[c] <= m
      OBVIOUS
  <2>1. arrivals - uses[c] \in L
        OBVIOUS
  <2>2. l <= arrivals - uses[c]
        BY <1>4, <2>1
  <2> QED BY <1>1, <1>2, <1>5, <2>2
<1> HIDE DEF L
<1>7. /\ MaxUses(S) \in T
      /\ \A c \in S : uses[c] <= MaxUses(S)
      BY <1>6, Zenon DEF MaxUses
<1> QED BY <1>2, <1>7

LEMMA UptimeType ==
    ASSUME NurseryTypeOK, NEW c \in Conn
    PROVE  Uptime(c) \in Nat
<1>1. now \in Nat /\ since[c] \in 0..now
      BY NurseryConstants DEF NurseryTypeOK
<1> QED BY <1>1, NurseryConstants DEF Uptime

LEMMA ScoreType ==
    ASSUME NurseryTypeOK, NEW S \in SUBSET Present, NEW c \in S
    PROVE  Score(S, c) \in Int
<1>1. MaxUses(S) \in Nat /\ c \in Conn
      BY MostUsed DEF Present
<1>2. Uptime(c) \in Nat /\ uses[c] \in Nat
      BY <1>1, UptimeType DEF NurseryTypeOK
<1>3. 100 * MaxUses(S) * Uptime(c) \in Int
      BY <1>1, <1>2
<1>4. 35 * 10 * MinUptime * uses[c] \in Int
      BY <1>2, NurseryConstants
<1> QED BY <1>2, <1>3, <1>4 DEF Score

LEMMA RankingExists ==
    ASSUME NurseryInv, NEW S \in SUBSET Present
    PROVE  Ranked(S)
<1>1. /\ \A a \in S : Score(S, a) \in Int
      /\ \A a \in S : a \in Conn /\ number[a] \in Nat
      /\ \A a \in S : \A b \in S : number[a] = number[b] => a = b
      BY ScoreType, NurseryConstants DEF NurseryInv, NurseryTypeOK, NumbersUnique, Present
<1>2. ASSUME NEW a \in S, NEW b \in S, a # b
      PROVE  Ahead(S, a, b) \/ Ahead(S, b, a)
  <2>1. number[a] < number[b] \/ number[b] < number[a]
        BY <1>1, <1>2
  <2>2. \/ Score(S, a) > Score(S, b) \/ Score(S, b) > Score(S, a)
        \/ Score(S, a) = Score(S, b)
        BY <1>1
  <2> QED BY <2>1, <2>2 DEF Ahead
<1>3. ASSUME NEW a \in S PROVE ~Ahead(S, a, a)
      BY <1>1 DEF Ahead
<1>4. ASSUME NEW a \in S, NEW b \in S, NEW c \in S,
             Ahead(S, a, b), Ahead(S, b, c)
      PROVE  Ahead(S, a, c)
  <2>1. /\ Score(S, a) \in Int /\ Score(S, b) \in Int /\ Score(S, c) \in Int
        /\ number[a] \in Nat /\ number[b] \in Nat /\ number[c] \in Nat
        BY <1>1
  <2> QED BY <1>4, <2>1 DEF Ahead
<1> QED BY <1>1, <1>2, <1>3, <1>4 DEF Ranked

-----------------------------------------------------------------------------
(* The first n of a set *)

Better(S, T, c) == {d \in T : Ahead(S, d, c)}

LEMMA TopMembers ==
    ASSUME NEW S, NEW T, NEW n, NEW c
    PROVE  c \in Top(S, T, n) <=> c \in T /\ Cardinality(Better(S, T, c)) < n
BY DEF Top, Better

LEMMA TopWithin == ASSUME NEW S, NEW T, NEW n PROVE Top(S, T, n) \subseteq T
BY DEF Top

LEMMA BetterGrows ==
    ASSUME NEW S, Ranked(S), NEW T \in SUBSET S, NEW a \in T, NEW b \in T,
           Ahead(S, a, b)
    PROVE  /\ Cardinality(Better(S, T, a)) \in Nat
           /\ Cardinality(Better(S, T, b)) \in Nat
           /\ Cardinality(Better(S, T, a)) < Cardinality(Better(S, T, b))
<1>1. Better(S, T, a) \in SUBSET Better(S, T, b)
      BY DEF Better, Ranked
<1>2. Better(S, T, a) # Better(S, T, b)
      BY DEF Better, Ranked
<1>3. Better(S, T, b) \in SUBSET Conn
      BY DEF Better, Ranked
<1> QED BY <1>1, <1>2, <1>3, ASubsetCounts

LEMMA BetterCount ==
    ASSUME NEW S, Ranked(S), NEW T \in SUBSET S, NEW c
    PROVE  Cardinality(Better(S, T, c)) \in Nat
<1>1. Better(S, T, c) \in SUBSET Conn
      BY DEF Better, Ranked
<1> QED BY <1>1, ConnsFinite

(* Whoever is ahead of one of the first is one of them. *)
LEMMA TopClosed ==
    ASSUME NEW S, Ranked(S), NEW T \in SUBSET S, NEW n \in Int,
           NEW a \in T, NEW b \in Top(S, T, n), Ahead(S, a, b)
    PROVE  a \in Top(S, T, n)
<1>1. b \in T /\ Cardinality(Better(S, T, b)) < n
      BY TopMembers
<1>2. /\ Cardinality(Better(S, T, a)) \in Nat
      /\ Cardinality(Better(S, T, b)) \in Nat
      /\ Cardinality(Better(S, T, a)) < Cardinality(Better(S, T, b))
      BY <1>1, BetterGrows
<1>3. Cardinality(Better(S, T, a)) < n
      BY <1>1, <1>2
<1> QED BY <1>3, TopMembers

(* Every set that is not empty has a first. *)
LEMMA FirstExists ==
    ASSUME NEW S, Ranked(S), NEW U \in SUBSET S, U # {}
    PROVE  \E b \in U : \A d \in U : ~Ahead(S, d, b)
<1> DEFINE ranks == {Cardinality(Better(S, U, c)) : c \in U}
<1>1. ranks \in SUBSET Nat /\ ranks # {}
      BY BetterCount
<1>2. PICK r \in ranks : \A x \in ranks : r <= x
      BY <1>1, LeastNat
<1>3. PICK b \in U : r = Cardinality(Better(S, U, b))
      BY <1>2
<1>4. ASSUME NEW d \in U, Ahead(S, d, b) PROVE FALSE
  <2>1. /\ Cardinality(Better(S, U, d)) \in Nat /\ r \in Nat
        /\ Cardinality(Better(S, U, d)) < r
        BY <1>3, <1>4, BetterGrows
  <2>2. r <= Cardinality(Better(S, U, d))
        BY <1>2
  <2> QED BY <2>1, <2>2
<1> QED BY <1>4

(* If anybody is left out, every place is taken. *)
LEMMA TopFull ==
    ASSUME NEW S, Ranked(S), NEW T \in SUBSET S, NEW n \in Int,
           T \ Top(S, T, n) # {}
    PROVE  Cardinality(Top(S, T, n)) >= n
<1>1. T \ Top(S, T, n) \in SUBSET S
      OBVIOUS
<1>2. PICK b \in T \ Top(S, T, n) : \A d \in T \ Top(S, T, n) : ~Ahead(S, d, b)
      BY <1>1, FirstExists
<1>3. Better(S, T, b) \in SUBSET Top(S, T, n)
      BY <1>2 DEF Better
<1>4. Top(S, T, n) \in SUBSET Conn
      BY TopMembers DEF Ranked
<1>5. /\ Cardinality(Better(S, T, b)) \in Nat
      /\ Cardinality(Top(S, T, n)) \in Nat
      /\ Cardinality(Better(S, T, b)) <= Cardinality(Top(S, T, n))
      BY <1>3, <1>4, ASubsetCounts
<1>6. ~(Cardinality(Better(S, T, b)) < n)
      BY <1>2, TopMembers
<1> QED BY <1>5, <1>6

(* Every set that is not empty has a last. *)
LEMMA LastExists ==
    ASSUME NEW S, Ranked(S), NEW U \in SUBSET S, U # {}
    PROVE  \E b \in U : U \ {b} \subseteq Better(S, U, b)
<1> DEFINE lacks == {Cardinality(U) - Cardinality(Better(S, U, c)) : c \in U}
<1>1. U \in SUBSET Conn
      BY DEF Ranked
<1>2. \A c \in U : /\ Cardinality(Better(S, U, c)) \in Nat
                   /\ Cardinality(U) \in Nat
                   /\ Cardinality(Better(S, U, c)) <= Cardinality(U)
  <2> SUFFICES ASSUME NEW c \in U
               PROVE  /\ Cardinality(Better(S, U, c)) \in Nat
                      /\ Cardinality(U) \in Nat
                      /\ Cardinality(Better(S, U, c)) <= Cardinality(U)
      OBVIOUS
  <2>1. Better(S, U, c) \in SUBSET U
        BY DEF Better
  <2> QED BY <1>1, <2>1, ASubsetCounts
<1>3. lacks \in SUBSET Nat /\ lacks # {}
      BY <1>2
<1>4. PICK l \in lacks : \A x \in lacks : l <= x
      BY <1>3, LeastNat
<1>5. PICK b \in U : l = Cardinality(U) - Cardinality(Better(S, U, b))
      BY <1>4
<1>6. ASSUME NEW d \in U \ {b} PROVE d \in Better(S, U, b)
  <2> SUFFICES ASSUME Ahead(S, b, d) PROVE FALSE
      BY DEF Better, Ranked
  <2>1. Cardinality(Better(S, U, b)) < Cardinality(Better(S, U, d))
        BY BetterGrows
  <2>2. l <= Cardinality(U) - Cardinality(Better(S, U, d))
        BY <1>4
  <2> QED BY <1>2, <1>5, <2>1, <2>2
<1> QED BY <1>6

(* The first n are at most n. *)
LEMMA TopSmall ==
    ASSUME NEW S, Ranked(S), NEW T \in SUBSET S, NEW n \in Nat
    PROVE  Cardinality(Top(S, T, n)) <= n
<1> DEFINE U == Top(S, T, n)
<1>1. U \in SUBSET S /\ U \in SUBSET T /\ U \in SUBSET Conn
      BY TopMembers DEF Ranked
<1> HIDE DEF U
<1>2. CASE U = {}
  <2>1. Cardinality(U) = 0
        BY <1>2, FS_EmptySet
  <2> QED BY <2>1 DEF U
<1>3. CASE U # {}
  <2>1. PICK b \in U : U \ {b} \subseteq Better(S, U, b)
        BY <1>1, <1>3, LastExists
  <2>2. Better(S, U, b) \in SUBSET Better(S, T, b)
        BY <1>1 DEF Better
  <2>3. U \ {b} \in SUBSET Better(S, T, b)
        BY <2>1, <2>2
  <2>4. Better(S, T, b) \in SUBSET Conn
        BY DEF Better, Ranked
  <2>5. /\ Cardinality(U \ {b}) <= Cardinality(Better(S, T, b))
        /\ Cardinality(U \ {b}) \in Nat
        /\ Cardinality(Better(S, T, b)) \in Nat
        BY <2>3, <2>4, ASubsetCounts
  <2>6. Cardinality(Better(S, T, b)) < n
        BY <2>1, TopMembers DEF U
  <2>7. Cardinality(U) \in Nat /\ Cardinality(U \ {b}) = Cardinality(U) - 1
        BY <1>1, <2>1, ConnsFinite, FS_RemoveElement
  <2>8. Cardinality(U) <= n
        BY <2>5, <2>6, <2>7
  <2> QED BY <2>8 DEF U
<1> QED BY <1>2, <1>3

-----------------------------------------------------------------------------
(* The passes *)

(* What is chosen after pass 1 and after pass 2. *)
Chosen(S, claim) == Mates(S, claim) \cup Delegates(S, Mates(S, claim))
Two(S, claim) == Chosen(S, claim) \cup
    Top(S, Bound(S) \ Chosen(S, claim), K - Cardinality(Chosen(S, claim)))

LEMMA PassesOf ==
    ASSUME NEW S, NEW claim
    PROVE  Curated(S, claim) =
              Two(S, claim) \cup
              Top(S, S \ Two(S, claim), K - Cardinality(Two(S, claim)))
BY DEF Curated, Filled, Chosen, Two

(* A delegate is the first of a region that is not used. *)
FirstOf(S, c) == \A d \in S : region[d] = region[c] => ~Ahead(S, d, c)
Heads(S, chosen) == {c \in Bound(S) : /\ region[c] \notin {region[a] : a \in chosen}
                                      /\ FirstOf(S, c)}

LEMMA DelegatesOf ==
    ASSUME NEW S, NEW chosen
    PROVE  Delegates(S, chosen) =
              Top(S, Heads(S, chosen), K - Cardinality(chosen))
<1> DEFINE used == {region[a] : a \in chosen}
           T == {c \in Bound(S) : /\ region[c] \notin used
                                  /\ \A d \in S : region[d] = region[c]
                                                    => ~Ahead(S, d, c)}
<1>1. Delegates(S, chosen) = Top(S, T, K - Cardinality(chosen))
      BY Zenon DEF Delegates
<1>2. Heads(S, chosen) = T
      BY Zenon DEF Heads, FirstOf
<1> QED BY <1>1, <1>2, Zenon

(* Every delegate is bound, the first of its region, and of no region used. *)
LEMMA DelegatesAreHeads ==
    ASSUME NEW S, NEW chosen, NEW c \in Delegates(S, chosen)
    PROVE  /\ c \in Bound(S) /\ FirstOf(S, c)
           /\ \A a \in chosen : region[a] # region[c]
<1>1. c \in Heads(S, chosen)
      BY DelegatesOf, TopMembers, Zenon
<1> QED BY <1>1, Zenon DEF Heads

LEMMA PassesWithin ==
    ASSUME NEW S, NEW claim \in Region \cup {NoRegion}
    PROVE  /\ Mates(S, claim) \subseteq Bound(S)
           /\ Delegates(S, Mates(S, claim)) \subseteq Bound(S)
           /\ Chosen(S, claim) \subseteq Bound(S)
           /\ Two(S, claim) \subseteq Bound(S)
           /\ Curated(S, claim) \subseteq S
           /\ Bound(S) \subseteq S
           /\ Chosen(S, claim) \subseteq Two(S, claim)
           /\ Two(S, claim) \subseteq Curated(S, claim)
<1>1. Mates(S, claim) \subseteq Bound(S)
      BY TopMembers, AnchorNurseryAssumption DEF Mates, Bound
<1>2. Delegates(S, Mates(S, claim)) \subseteq Bound(S)
      BY DelegatesAreHeads, Zenon
<1>3. Chosen(S, claim) \subseteq Bound(S)
      BY <1>1, <1>2 DEF Chosen
<1>4. Two(S, claim) \subseteq Bound(S)
      BY <1>3, TopMembers DEF Two
<1>5. Bound(S) \subseteq S
      BY DEF Bound
<1>6. Curated(S, claim) \subseteq S
  <2>1. Top(S, S \ Two(S, claim), K - Cardinality(Two(S, claim))) \subseteq S
    <3>1. Top(S, S \ Two(S, claim), K - Cardinality(Two(S, claim)))
             \subseteq S \ Two(S, claim)
          BY TopWithin, Zenon
    <3> QED BY <3>1
  <2> QED BY <1>4, <1>5, <2>1, PassesOf, Zenon
<1>7. Chosen(S, claim) \subseteq Two(S, claim)
      BY Zenon DEF Two
<1>8. Two(S, claim) \subseteq Curated(S, claim)
      BY PassesOf, Zenon
<1> QED BY <1>1, <1>2, <1>3, <1>4, <1>5, <1>6, <1>7, <1>8, Zenon

LEMMA PlacesLeft ==
    ASSUME NEW U \in SUBSET Conn
    PROVE  K - Cardinality(U) \in Int /\ Cardinality(U) \in Nat
BY ConnsFinite, NurseryConstants

(* Adding the first of T to U never exceeds the places, and when any of T  *)
(* is left out all places are taken.                                       *)
LEMMA Filling ==
    ASSUME NEW S, Ranked(S), NEW U \in SUBSET S, NEW T \in SUBSET S, U \cap T = {},
           Cardinality(U) <= K,
           NEW V, V = U \cup Top(S, T, K - Cardinality(U))
    PROVE  /\ Cardinality(V) <= K
           /\ T \ V # {} => Cardinality(V) = K
<1> DEFINE n == K - Cardinality(U)
           F == Top(S, T, n)
<1>1. U \in SUBSET Conn /\ T \in SUBSET Conn /\ F \in SUBSET Conn /\ F \subseteq T
      BY TopWithin DEF Ranked
<1>2. n \in Nat /\ Cardinality(U) \in Nat
      BY <1>1, PlacesLeft, NurseryConstants
<1>3. Cardinality(F) <= n
  <2> HIDE DEF n
  <2> QED BY <1>2, TopSmall DEF F
<1>4. T \ F # {} => Cardinality(F) >= n
  <2> HIDE DEF n
  <2> QED BY <1>2, TopFull DEF F
<1> HIDE DEF F
<1>5. Cardinality(U \cup F) = Cardinality(U) + Cardinality(F)
  <2>1. U \cap F = {}
        BY <1>1
  <2>2. IsFiniteSet(U) /\ IsFiniteSet(F) /\ Cardinality(F) \in Nat
        BY <1>1, ConnsFinite
  <2>3. Cardinality(U \cup F) =
           Cardinality(U) + Cardinality(F) - Cardinality(U \cap F)
        BY <2>2, FS_Union
  <2>4. Cardinality(U \cap F) = 0
        BY <2>1, FS_EmptySet
  <2> QED BY <1>2, <2>2, <2>3, <2>4
<1>6. Cardinality(F) \in Nat /\ V = U \cup F
      BY <1>1, ConnsFinite DEF F
<1>7. T \ V # {} => T \ F # {}
      BY <1>6
<1>8. Cardinality(V) = Cardinality(U) + Cardinality(F)
      BY <1>5, <1>6, Zenon
<1>9. /\ Cardinality(V) <= K
      /\ Cardinality(F) >= n => Cardinality(V) = K
  <2>1. K \in Nat /\ Cardinality(F) \in Nat /\ Cardinality(U) \in Nat
        BY <1>2, <1>6, NurseryConstants
  <2>2. Cardinality(F) <= K - Cardinality(U)
        BY <1>3
  <2> QED BY <1>8, <2>1, <2>2
<1> QED BY <1>4, <1>7, <1>9

(* The newcomer's region-mates have at most half of the places. *)
LEMMA MatesFew ==
    ASSUME NEW S, Ranked(S), NEW claim \in Region \cup {NoRegion}
    PROVE  /\ Cardinality(Mates(S, claim)) <= OwnHalf
           /\ \A a \in Mates(S, claim) : region[a] = claim
           /\ OwnHalf \in Nat \ {0} /\ OwnHalf <= K
<1>1. OwnShare \in Nat \ {0} /\ OwnHalf = OwnShare /\ OwnHalf <= K
      BY NurseryConstants DEF OwnShare, OwnHalf
<1>2. CASE claim = NoRegion
  <2>1. Mates(S, claim) = {}
        BY <1>2 DEF Mates
  <2>2. Cardinality(Mates(S, claim)) = 0
        BY <2>1, FS_EmptySet
  <2> QED BY <1>1, <2>1, <2>2
<1>3. CASE claim # NoRegion
  <2> DEFINE T == {c \in S : region[c] = claim}
  <2>1. Mates(S, claim) = Top(S, T, OwnShare)
        BY <1>3 DEF Mates
  <2>2. \A a \in Mates(S, claim) : a \in T
        BY <2>1, TopMembers
  <2>3. T \in SUBSET S
        OBVIOUS
  <2>4. Cardinality(Top(S, T, OwnShare)) <= OwnShare
    <3> HIDE DEF T
    <3> QED BY <1>1, <2>3, TopSmall
  <2> QED BY <1>1, <2>1, <2>2, <2>4
<1> QED BY <1>2, <1>3

(* How full each pass leaves the places. *)
LEMMA PassesFill ==
    ASSUME NEW S, Ranked(S), NEW claim \in Region \cup {NoRegion}
    PROVE  /\ Cardinality(Two(S, claim)) <= K
           /\ Cardinality(Curated(S, claim)) <= K
           /\ Bound(S) \ Two(S, claim) # {} => Cardinality(Two(S, claim)) = K
           /\ S \ Curated(S, claim) # {} => Cardinality(Curated(S, claim)) = K
<1> DEFINE mates == Mates(S, claim)
           heads == Heads(S, mates)
           chosen == Chosen(S, claim)
           two == Two(S, claim)
           all == Curated(S, claim)
           boundRest == Bound(S) \ chosen
           rest == S \ two
<1>1. /\ mates \in SUBSET S /\ chosen \in SUBSET S /\ two \in SUBSET S
      /\ boundRest \in SUBSET S /\ chosen \cap boundRest = {}
      BY PassesWithin
<1>2. Cardinality(chosen) <= K
  <2>1. heads \in SUBSET S /\ mates \cap heads = {}
        BY DEF Heads, Bound
  <2>2. chosen = mates \cup Top(S, heads, K - Cardinality(mates))
        BY DelegatesOf DEF Chosen
  <2>3. Cardinality(mates) <= K
    <3>1. mates \in SUBSET Conn
          BY <1>1 DEF Ranked
    <3>2. Cardinality(mates) \in Nat
          BY <3>1, ConnsFinite
    <3> QED BY <3>2, MatesFew, NurseryConstants
  <2> HIDE DEF mates, heads, chosen
  <2> QED BY <1>1, <2>1, <2>2, <2>3, Filling
<1>3. /\ Cardinality(two) <= K
      /\ boundRest \ two # {} => Cardinality(two) = K
  <2>1. two = chosen \cup Top(S, boundRest, K - Cardinality(chosen))
        BY DEF Two
  <2> HIDE DEF two, chosen, boundRest
  <2> QED BY <1>1, <1>2, <2>1, Filling
<1>4. /\ Cardinality(all) <= K
      /\ rest \ all # {} => Cardinality(all) = K
  <2>1. all = two \cup Top(S, rest, K - Cardinality(two))
        BY PassesOf
  <2>2. rest \in SUBSET S /\ two \cap rest = {}
        OBVIOUS
  <2> HIDE DEF two, all, rest
  <2> QED BY <1>1, <1>3, <2>1, <2>2, Filling
<1>5. Bound(S) \ two # {} => boundRest \ two # {}
      BY PassesWithin
<1>6. S \ all # {} => rest \ all # {}
      BY PassesWithin
<1> QED BY <1>3, <1>4, <1>5, <1>6

(* No unbound one is chosen while a bound one is not. *)
LEMMA BoundFirst ==
    ASSUME NEW S, Ranked(S), NEW claim \in Region \cup {NoRegion},
           NEW a \in Curated(S, claim), a \notin Bound(S)
    PROVE  Bound(S) \subseteq Curated(S, claim)
<1> DEFINE two == Two(S, claim)
<1>1. two \in SUBSET Conn /\ a \notin two
      BY PassesWithin DEF Ranked
<1>2. K - Cardinality(two) > 0
  <2>1. a \in Top(S, S \ two, K - Cardinality(two))
        BY <1>1, PassesOf
  <2>2. Cardinality(Better(S, S \ two, a)) < K - Cardinality(two)
        BY <2>1, TopMembers
  <2>3. Cardinality(Better(S, S \ two, a)) \in Nat
        BY BetterCount
  <2>4. K - Cardinality(two) \in Int
        BY <1>1, PlacesLeft
  <2> QED BY <2>2, <2>3, <2>4
<1>3. Cardinality(two) # K
      BY <1>2, NurseryConstants
<1>4. Bound(S) \subseteq two
      BY <1>3, PassesFill
<1> QED BY <1>4, PassesWithin

(* Whoever is ahead of a chosen one of its own region is chosen. *)
LEMMA AheadIsChosen ==
    ASSUME NEW S, Ranked(S), NEW claim \in Region \cup {NoRegion},
           NEW a \in Curated(S, claim), NEW b \in S,
           region[a] # NoRegion, region[a] = region[b], Ahead(S, b, a)
    PROVE  b \in Curated(S, claim)
<1>1. a \in S /\ a \in Bound(S) /\ b \in Bound(S)
      BY PassesWithin DEF Bound
<1>2. CASE a \in Mates(S, claim)
  <2> DEFINE T == {c \in S : region[c] = claim}
  <2>1. claim # NoRegion /\ a \in Top(S, T, OwnShare)
        BY <1>2 DEF Mates
  <2>2. T \in SUBSET S /\ b \in T
        BY <2>1, TopMembers
  <2>3. OwnShare \in Int
        BY NurseryConstants DEF OwnShare
  <2> HIDE DEF T
  <2>4. b \in Top(S, T, OwnShare)
        BY <2>1, <2>2, <2>3, TopClosed
  <2>5. b \in Mates(S, claim)
        BY <2>1, <2>4 DEF Mates, T
  <2> QED BY <2>5, PassesWithin DEF Chosen
<1>3. CASE a \in Delegates(S, Mates(S, claim))
  <2>1. FirstOf(S, a)
        BY <1>3, DelegatesAreHeads, Zenon
  <2> QED BY <2>1 DEF FirstOf
<1>4. CASE a \in Two(S, claim) \ Chosen(S, claim)
  <2> DEFINE T == Bound(S) \ Chosen(S, claim)
             n == K - Cardinality(Chosen(S, claim))
  <2>1. T \in SUBSET S /\ a \in Top(S, T, n)
        BY <1>4, PassesWithin DEF Two
  <2>2. n \in Int
        BY PassesWithin, PlacesLeft DEF Ranked
  <2> HIDE DEF n
  <2>3. b \in T => b \in Top(S, T, n)
    <3> HIDE DEF T
    <3> QED BY <2>1, <2>2, TopClosed
  <2>4. b \in Two(S, claim)
        BY <1>1, <2>3 DEF Two, n
  <2> QED BY <2>4, PassesWithin
<1>5. CASE a \notin Two(S, claim)
  <2> DEFINE T == S \ Two(S, claim)
             n == K - Cardinality(Two(S, claim))
  <2>1. T \in SUBSET S /\ a \in Top(S, T, n)
        BY <1>5, PassesOf
  <2>2. n \in Int
        BY PassesWithin, PlacesLeft DEF Ranked
  <2> HIDE DEF n
  <2>3. b \in T => b \in Top(S, T, n)
    <3> HIDE DEF T
    <3> QED BY <2>1, <2>2, TopClosed
  <2> QED BY <2>3, PassesOf DEF n
<1> QED BY <1>2, <1>3, <1>4, <1>5 DEF Chosen

(* How many regions are heard: each delegate is of one of its own, and no  *)
(* delegate is of the newcomer's when a mate is.                           *)
Heard(P) == {region[a] : a \in P}

(* As many regions as delegates. *)
LEMMA DelegatesDiffer ==
    ASSUME NEW S, Ranked(S), NEW claim \in Region \cup {NoRegion},
           NEW D, D = Delegates(S, Mates(S, claim)),
           NEW R, IsFiniteSet(R), Heard(D) \subseteq R
    PROVE  Cardinality(D) <= Cardinality(R)
<1> DEFINE f == [d \in D |-> region[d]]
<1>1. \A d \in D : d \in S /\ FirstOf(S, d)
      BY DelegatesAreHeads DEF Bound
<1>2. ASSUME NEW d \in D, NEW e \in D, region[d] = region[e] PROVE d = e
      BY <1>1, <1>2 DEF FirstOf, Ranked
<1>3. f \in [D -> R]
      BY DEF Heard
<1>4. f \in Injection(D, R)
      BY <1>2, <1>3 DEF Injection, IsInjective
<1> QED BY <1>4, FS_Injection

(* A region that goes unheard has left no place to the delegates. *)
LEMMA UnheardIsCrowdedOut ==
    ASSUME NEW S, Ranked(S), NEW claim \in Region \cup {NoRegion},
           NEW b \in Bound(S), region[b] \notin Heard(Bound(Curated(S, claim)))
    PROVE  Cardinality(Delegates(S, Mates(S, claim)))
              >= K - Cardinality(Mates(S, claim))
<1> DEFINE mates == Mates(S, claim)
           region_b == {d \in S : region[d] = region[b]}
           n == K - Cardinality(mates)
<1>1. /\ Bound(S) \subseteq S /\ mates \subseteq Bound(S)
      /\ mates \subseteq Bound(Curated(S, claim))
      /\ Delegates(S, mates) \subseteq Bound(Curated(S, claim))
      /\ mates \in SUBSET Conn
      BY PassesWithin DEF Bound, Chosen, Ranked
<1>2. b \in region_b /\ region_b \in SUBSET S
      BY <1>1
<1> HIDE DEF region_b
<1>3. PICK first \in region_b : \A d \in region_b : ~Ahead(S, d, first)
      BY <1>2, FirstExists
<1>4. first \in S /\ region[first] = region[b] /\ FirstOf(S, first)
      BY <1>3 DEF region_b, FirstOf
<1>5. first \in Bound(S)
      BY <1>4 DEF Bound
<1>6. \A a \in mates : region[a] # region[first]
      BY <1>1, <1>4 DEF Heard
<1>7. first \in Heads(S, mates)
      BY <1>4, <1>5, <1>6 DEF Heads
<1>8. first \notin Delegates(S, mates)
      BY <1>1, <1>4 DEF Heard
<1>9. Heads(S, mates) \in SUBSET S /\ n \in Int
      BY <1>1, PlacesLeft DEF Heads
<1>10. Delegates(S, mates) = Top(S, Heads(S, mates), n)
       BY DelegatesOf
<1> HIDE DEF n, mates
<1>11. Heads(S, mates) \ Top(S, Heads(S, mates), n) # {}
       BY <1>7, <1>8, <1>10
<1>12. Cardinality(Top(S, Heads(S, mates), n)) >= n
       BY <1>9, <1>11, TopFull
<1> QED BY <1>10, <1>12 DEF n, mates

LEMMA HeardEnough ==
    ASSUME NEW S, Ranked(S), NEW claim \in Region \cup {NoRegion},
           NEW b \in Bound(S), region[b] \notin Heard(Bound(Curated(S, claim)))
    PROVE  Cardinality(Heard(Bound(Curated(S, claim)))) > K - OwnHalf
<1> DEFINE mates == Mates(S, claim)
           D == Delegates(S, mates)
           H == Heard(Bound(Curated(S, claim)))
<1>1. /\ mates \subseteq Bound(Curated(S, claim))
      /\ D \subseteq Bound(Curated(S, claim))
      /\ mates \in SUBSET Conn /\ D \in SUBSET Conn
      /\ Bound(Curated(S, claim)) \in SUBSET Conn
      BY PassesWithin DEF Bound, Chosen, Ranked
<1>2. Heard(D) \subseteq H /\ Heard(mates) \subseteq H
      BY <1>1 DEF Heard
<1>3. IsFiniteSet(H) /\ Cardinality(H) \in Nat
  <2> DEFINE P == Bound(Curated(S, claim))
             f == [a \in P |-> region[a]]
  <2>1. IsFiniteSet(P)
        BY <1>1, ConnsFinite
  <2>2. f \in Surjection(P, H)
        BY DEF Surjection, Heard
  <2>3. IsFiniteSet(H)
        BY <2>1, <2>2, FS_Surjection
  <2> QED BY <2>3, FS_CardinalityType
<1>4. /\ Cardinality(mates) \in Nat /\ Cardinality(D) \in Nat
      /\ Cardinality(D) >= K - Cardinality(mates)
      /\ Cardinality(mates) <= OwnHalf
      BY <1>1, UnheardIsCrowdedOut, MatesFew, ConnsFinite
<1>5. OwnHalf \in Nat \ {0}
      BY MatesFew
<1> HIDE DEF H, D, mates
<1>6. CASE mates = {}
  <2>1. Cardinality(mates) = 0
        BY <1>6, FS_EmptySet
  <2>2. Cardinality(D) <= Cardinality(H)
        BY <1>2, <1>3, DelegatesDiffer DEF D, mates
  <2> QED BY <1>3, <1>4, <1>5, <2>1, <2>2, NurseryConstants DEF H
<1>7. CASE mates # {}
  <2>1. PICK m \in mates : region[m] = claim
        BY <1>7, MatesFew DEF mates
  <2>2. claim \in H
        BY <1>2, <2>1 DEF Heard
  <2>3. claim \notin Heard(D)
        BY <2>1, DelegatesAreHeads DEF Heard, D
  <2>4. /\ IsFiniteSet(H \ {claim})
        /\ Cardinality(H \ {claim}) = Cardinality(H) - 1
        BY <1>3, <2>2, FS_RemoveElement
  <2>5. Heard(D) \subseteq H \ {claim}
        BY <1>2, <2>3
  <2>6. Cardinality(D) <= Cardinality(H \ {claim})
        BY <2>4, <2>5, DelegatesDiffer DEF D, mates
  <2> QED BY <1>3, <1>4, <1>5, <2>4, <2>6, NurseryConstants DEF H
<1> QED BY <1>6, <1>7

-----------------------------------------------------------------------------
(* The actions *)

LEMMA AnchorsAreOthers ==
    ASSUME NEW c \in Conn, NEW claim \in Region \cup {NoRegion}
    PROVE  Anchors(c, claim) \subseteq Present \ {c}
<1>1. EligibleFor(c) \subseteq Present \ {c}
      BY DEF EligibleFor
<1>2. Curated(EligibleFor(c), claim) \subseteq EligibleFor(c)
      BY PassesWithin, Zenon
<1> QED BY <1>1, <1>2 DEF Anchors

LEMMA AdmitStep ==
    ASSUME NurseryInv, NEW c \in Conn, NEW claim \in Region \cup {NoRegion},
           Admit(c, claim)
    PROVE  NurseryInv'
<1> DEFINE A == Anchors(c, claim)
<1>1. /\ arrivals \in Nat /\ arrivals' = arrivals + 1 /\ arrivals' <= MaxArrivals
      /\ number \in [Conn -> 0..MaxArrivals] /\ number[c] = 0
      /\ number' = [number EXCEPT ![c] = arrivals + 1]
      /\ since' = [since EXCEPT ![c] = now]
      /\ uses \in [Conn -> Nat] /\ uses' = Used(c, A)
      /\ UNCHANGED <<now, region>>
      BY NurseryConstants DEF NurseryInv, NurseryTypeOK, Admit
<1>2. A \subseteq Present \ {c}
      BY AnchorsAreOthers
<1> HIDE DEF A
<1>3. uses' \in [Conn -> Nat] /\ uses'[c] = 0
      BY <1>1, <1>2 DEF Used
<1>4. \A d \in Conn : /\ number[d] \in Nat
                      /\ number'[d] = IF d = c THEN arrivals + 1 ELSE number[d]
                      /\ d # c => uses'[d] <= uses[d] + 1
                      /\ uses[d] \in Nat /\ uses'[d] \in Nat
      BY <1>1, <1>3, NurseryConstants DEF Used
<1>5. ASSUME NEW d \in Present'
      PROVE  uses'[d] <= arrivals' - number'[d]
  <2>1. d \in Conn /\ number'[d] # 0
        BY DEF Present
  <2>2. CASE d = c
        BY <1>1, <1>3, <1>4, <2>1, <2>2
  <2>3. CASE d # c
    <3>1. d \in Present /\ number'[d] = number[d] /\ number[d] \in Nat
          BY <1>4, <2>1, <2>3 DEF Present
    <3>2. uses[d] <= arrivals - number[d] /\ uses'[d] <= uses[d] + 1
          BY <1>4, <2>1, <2>3, <3>1 DEF NurseryInv, NurseryTypeOK
    <3> QED BY <1>1, <1>4, <2>1, <3>1, <3>2
  <2> QED BY <2>2, <2>3
<1>6. NurseryTypeOK'
  <2>1. arrivals' \in 0..MaxArrivals /\ number' \in [Conn -> 0..MaxArrivals]
        BY <1>1, NurseryConstants
  <2>2. now' \in 0..MaxTime /\ since' \in [Conn -> 0..now']
        /\ region' \in [Conn -> Region \cup {NoRegion}]
        BY <1>1, NurseryConstants DEF NurseryInv, NurseryTypeOK
  <2> QED BY <1>3, <1>5, <2>1, <2>2 DEF NurseryTypeOK
<1>7. \A d \in Present : number[d] <= arrivals
  <2> SUFFICES ASSUME NEW d \in Present PROVE number[d] <= arrivals
      OBVIOUS
  <2>1. d \in Conn /\ uses[d] <= arrivals - number[d]
        BY DEF Present, NurseryInv, NurseryTypeOK
  <2> QED BY <1>1, <1>4, <2>1
<1>8. NumbersUnique'
  <2> SUFFICES ASSUME NEW d \in Present', NEW e \in Present', number'[d] = number'[e]
               PROVE  d = e
      BY DEF NumbersUnique
  <2>1. d \in Conn /\ e \in Conn /\ number'[d] # 0 /\ number'[e] # 0
        BY DEF Present
  <2>2. /\ d # c => d \in Present /\ number'[d] = number[d]
        /\ e # c => e \in Present /\ number'[e] = number[e]
        BY <1>4, <2>1 DEF Present
  <2>3. CASE d # c /\ e # c
        BY <2>2, <2>3 DEF NurseryInv, NumbersUnique
  <2>4. CASE d = c \/ e = c
        BY <1>1, <1>4, <1>7, <2>1, <2>2, <2>4
  <2> QED BY <2>3, <2>4
<1> QED BY <1>6, <1>8 DEF NurseryInv

LEMMA LeaveStep ==
    ASSUME NurseryInv, NEW c \in Conn, Leave(c) PROVE NurseryInv'
<1>1. /\ number' = [number EXCEPT ![c] = 0] /\ since' = [since EXCEPT ![c] = 0]
      /\ region' = [region EXCEPT ![c] = NoRegion] /\ uses' = [uses EXCEPT ![c] = 0]
      /\ UNCHANGED <<now, arrivals>>
      BY DEF Leave
<1>2. \A d \in Present' : d \in Present /\ number'[d] = number[d] /\ uses'[d] = uses[d]
      BY <1>1 DEF Present, NurseryInv, NurseryTypeOK
<1>3. NurseryTypeOK'
  <2>1. /\ number' \in [Conn -> 0..MaxArrivals] /\ since' \in [Conn -> 0..now']
        /\ region' \in [Conn -> Region \cup {NoRegion}] /\ uses' \in [Conn -> Nat]
        BY <1>1, NurseryConstants DEF NurseryInv, NurseryTypeOK
  <2> QED BY <1>1, <1>2, <2>1 DEF NurseryInv, NurseryTypeOK
<1>4. NumbersUnique'
      BY <1>2 DEF NurseryInv, NumbersUnique
<1> QED BY <1>3, <1>4 DEF NurseryInv

LEMMA QuietStep ==
    ASSUME NurseryInv,
           \/ \E c \in Conn, r \in Region : Bind(c, r)
           \/ \E d \in Steps : Tick(d)
           \/ UNCHANGED nurseryVars
    PROVE  NurseryInv'
<1>1. UNCHANGED <<number, uses, arrivals>>
      BY DEF Bind, Tick, nurseryVars
<1>2. Present' = Present
      BY <1>1 DEF Present
<1>3. /\ now' \in 0..MaxTime /\ since' \in [Conn -> 0..now']
      /\ region' \in [Conn -> Region \cup {NoRegion}]
  <2>1. ASSUME NEW c \in Conn, NEW r \in Region, Bind(c, r)
        PROVE  /\ UNCHANGED <<now, since>>
               /\ region' \in [Conn -> Region \cup {NoRegion}]
        BY <2>1 DEF Bind, NurseryInv, NurseryTypeOK
  <2>2. ASSUME NEW d \in Steps, Tick(d)
        PROVE  /\ now' \in 0..MaxTime /\ since' \in [Conn -> 0..now']
               /\ UNCHANGED region
    <3>1. now \in Nat /\ d \in Nat /\ now' = now + d /\ now' <= MaxTime
          BY <2>2, NurseryConstants DEF Tick, NurseryInv, NurseryTypeOK
    <3>2. since' = since /\ since \in [Conn -> 0..now]
          BY <2>2 DEF Tick, NurseryInv, NurseryTypeOK
    <3>3. \A c \in Conn : since[c] \in 0..now'
          BY <3>1, <3>2
    <3> QED BY <2>2, <3>1, <3>2, <3>3, NurseryConstants DEF Tick
  <2> QED BY <2>1, <2>2 DEF nurseryVars, NurseryInv, NurseryTypeOK
<1> QED BY <1>1, <1>2, <1>3 DEF NurseryInv, NurseryTypeOK, NumbersUnique

(* The invariant holds in every state of every behaviour.                  *)
THEOREM NurseryInvariance == NurserySpec => []NurseryInv
<1>1. NurseryInit => NurseryInv
      BY NurseryConstants DEF NurseryInit, NurseryInv, NurseryTypeOK, NumbersUnique, Present
<1>2. NurseryInv /\ [NurseryNext]_nurseryVars => NurseryInv'
  <2> SUFFICES ASSUME NurseryInv, [NurseryNext]_nurseryVars PROVE NurseryInv'
      OBVIOUS
  <2> QED BY AdmitStep, LeaveStep, QuietStep, Zenon DEF NurseryNext
<1> QED BY <1>1, <1>2, PTL DEF NurserySpec

(* Every variable keeps its type, and nobody is used more often than       *)
(* connections came after it.                                              *)
THEOREM NurseryTypeCorrect == NurserySpec => []NurseryTypeOK
<1>1. NurseryInv => NurseryTypeOK
      BY DEF NurseryInv
<1> QED BY <1>1, NurseryInvariance, PTL

(* An introduction by selection hands out what the passes chose.           *)
LEMMA SelectionIsCurated ==
    ASSUME NurseryInv, [NurseryNext]_nurseryVars, NEW c \in Conn, Selects(c)
    PROVE  /\ Ranked(EligibleFor(c))
           /\ \E claim \in Region \cup {NoRegion} :
                 Picked = Curated(EligibleFor(c), claim)
<1>1. EligibleFor(c) \in SUBSET Present
      BY DEF EligibleFor
<1>2. \E d \in Conn : \E claim \in Region \cup {NoRegion} : Admit(d, claim)
  <2>1. ASSUME NEW d \in Conn, Leave(d) PROVE FALSE
        BY <2>1 DEF Leave, Selects, NurseryInv, NurseryTypeOK
  <2>2. CASE UNCHANGED number
        BY <2>2 DEF Selects
  <2>3. ASSUME \/ \E d \in Conn, r \in Region : Bind(d, r)
               \/ \E d \in Steps : Tick(d)
               \/ UNCHANGED nurseryVars
        PROVE  UNCHANGED number
        BY <2>3 DEF Bind, Tick, nurseryVars
  <2> QED BY <2>1, <2>2, <2>3 DEF NurseryNext
<1>3. PICK d \in Conn, claim \in Region \cup {NoRegion} : Admit(d, claim)
      BY <1>2
<1>4. number' = [number EXCEPT ![d] = arrivals + 1] /\ number[d] = 0
      BY <1>3 DEF Admit
<1>5. d = c
      BY <1>4 DEF Selects, NurseryInv, NurseryTypeOK
<1>6. Anchors(c, claim) = Curated(EligibleFor(c), claim)
  <2>1. ~(Cardinality(EligibleFor(c)) < MinPool)
    <3>1. Cardinality(EligibleFor(c)) \in Nat
          BY <1>1, ConnsFinite DEF Present
    <3> QED BY <3>1, NurseryConstants DEF Selects
  <2> QED BY <2>1, Zenon DEF Anchors
<1>7. uses' = Used(c, Anchors(c, claim))
      BY <1>3, <1>5 DEF Admit
<1>8. Anchors(c, claim) \subseteq Present \ {c} /\ c \notin Present
      BY <1>4, <1>5, AnchorsAreOthers DEF Present
<1> HIDE DEF Present
<1>9. \A a \in Present : /\ a \in Conn /\ uses[a] \in Nat /\ a # c
      BY <1>8 DEF Present, NurseryInv, NurseryTypeOK
<1>10. \A a \in Present : uses'[a] = uses[a] + 1 <=> a \in Anchors(c, claim)
       BY <1>7, <1>9 DEF Used
<1>11. Picked = Anchors(c, claim)
       BY <1>8, <1>10 DEF Picked
<1> QED BY <1>1, <1>6, <1>11, RankingExists

(* An unbound socket is handed out only beside every bound one.            *)
THEOREM BoundBeforeUnbound == NurserySpec => UnboundLast
<1> DEFINE Holds(c) == Selects(c) /\ Picked # Bound(Picked)
                          => Bound(EligibleFor(c)) \subseteq Picked
<1>1. ASSUME NurseryInv, [NurseryNext]_nurseryVars, NEW c \in Conn PROVE Holds(c)
  <2> SUFFICES ASSUME Selects(c), Picked # Bound(Picked)
               PROVE  Bound(EligibleFor(c)) \subseteq Picked
      OBVIOUS
  <2> DEFINE S == EligibleFor(c)
  <2>1. PICK claim \in Region \cup {NoRegion} : Picked = Curated(S, claim)
        BY <1>1, SelectionIsCurated
  <2>2. Ranked(S)
        BY <1>1, SelectionIsCurated
  <2>3. PICK a \in Picked : a \notin Bound(Picked)
        BY DEF Bound
  <2>4. a \notin Bound(S)
        BY <2>3 DEF Bound
  <2> HIDE DEF S
  <2>5. Bound(S) \subseteq Picked
        BY <2>1, <2>2, <2>3, <2>4, BoundFirst
  <2> QED BY <2>5 DEF S
<1> HIDE DEF Holds
<1>2. NurseryInv /\ [NurseryNext]_nurseryVars => [\A c \in Conn : Holds(c)]_nurseryVars
      BY <1>1
<1>3. [][\A c \in Conn : Holds(c)]_nurseryVars => UnboundLast
      BY PTL DEF UnboundLast, Holds
<1> QED BY <1>2, <1>3, NurseryInvariance, PTL DEF NurserySpec

(* Whoever was used more is not handed out before its equal.               *)
LEMMA LessUsedAhead ==
    ASSUME NurseryInv, NEW S \in SUBSET Present, NEW a \in S, NEW b \in S,
           Uptime(a) = Uptime(b), uses[a] > uses[b]
    PROVE  Ahead(S, b, a)
<1> DEFINE M == MaxUses(S)
<1>1. /\ M \in Nat /\ uses[a] <= M /\ uses[a] \in Nat /\ uses[b] \in Nat
      /\ Uptime(a) \in Nat
      BY MostUsed, UptimeType DEF NurseryInv, NurseryTypeOK, Present
<1>2. M # 0
      BY <1>1
<1>3. /\ Score(S, a) = 100 * M * Uptime(a) - 35 * 10 * MinUptime * uses[a]
      /\ Score(S, b) = 100 * M * Uptime(a) - 35 * 10 * MinUptime * uses[b]
      BY <1>2, Zenon DEF Score
<1> HIDE DEF M
<1>4. 100 * M * Uptime(a) \in Int
      BY <1>1
<1>5. ASSUME NEW m \in Nat \ {0}, NEW x \in Nat, NEW y \in Nat, x > y
      PROVE  35 * 10 * m * x > 35 * 10 * m * y
  <2>1. x - y \in Nat \ {0}
        BY <1>5
  <2>2. m * (x - y) > 0
        BY <2>1
  <2>3. m * (x - y) = m * x - m * y
        OBVIOUS
  <2> QED BY <2>2, <2>3
<1>6. 35 * 10 * MinUptime * uses[a] > 35 * 10 * MinUptime * uses[b]
      BY <1>1, <1>5, NurseryConstants
<1>7. Score(S, b) > Score(S, a)
  <2>1. 35 * 10 * MinUptime * uses[a] \in Int /\ 35 * 10 * MinUptime * uses[b] \in Int
        BY <1>1, NurseryConstants
  <2> QED BY <1>3, <1>4, <1>6, <2>1
<1> QED BY <1>7 DEF Ahead

(* Usage spreads: of equals of one region the less used is never passed    *)
(* over.                                                                   *)
THEOREM UsageSpreads == NurserySpec => NoPileUp
<1> DEFINE Holds(c) ==
        Selects(c) =>
          \A a \in Picked : \A b \in EligibleFor(c) :
              /\ region[a] # NoRegion /\ region[a] = region[b]
              /\ Uptime(a) = Uptime(b)
              /\ uses[a] > uses[b]
              => b \in Picked
<1>1. ASSUME NurseryInv, [NurseryNext]_nurseryVars, NEW c \in Conn PROVE Holds(c)
  <2> DEFINE S == EligibleFor(c)
  <2> SUFFICES ASSUME Selects(c), NEW a \in Picked, NEW b \in S,
                      region[a] # NoRegion, region[a] = region[b],
                      Uptime(a) = Uptime(b), uses[a] > uses[b]
               PROVE  b \in Picked
      OBVIOUS
  <2>1. PICK claim \in Region \cup {NoRegion} : Picked = Curated(S, claim)
        BY <1>1, SelectionIsCurated
  <2>2. Ranked(S) /\ S \in SUBSET Present
        BY <1>1, SelectionIsCurated DEF EligibleFor
  <2> HIDE DEF S
  <2>3. a \in S
        BY <2>1, PassesWithin
  <2>4. Ahead(S, b, a)
        BY <1>1, <2>2, <2>3, LessUsedAhead
  <2> QED BY <2>1, <2>2, <2>4, AheadIsChosen
<1> HIDE DEF Holds
<1>2. NurseryInv /\ [NurseryNext]_nurseryVars => [\A c \in Conn : Holds(c)]_nurseryVars
      BY <1>1
<1>3. [][\A c \in Conn : Holds(c)]_nurseryVars => NoPileUp
      BY PTL DEF NoPileUp, Holds
<1> QED BY <1>2, <1>3, NurseryInvariance, PTL DEF NurserySpec

(* A region goes unheard only when the places of the others have gone to   *)
(* as many regions.                                                        *)
THEOREM RegionsHeard == NurserySpec => Diverse
<1> DEFINE Holds(c) ==
        Selects(c) =>
          LET told == {region[a] : a \in Bound(Picked)}
          IN  \A b \in Bound(EligibleFor(c)) :
                  region[b] \in told \/ Cardinality(told) > K - OwnHalf
<1>1. ASSUME NurseryInv, [NurseryNext]_nurseryVars, NEW c \in Conn PROVE Holds(c)
  <2> DEFINE S == EligibleFor(c)
  <2> SUFFICES ASSUME Selects(c), NEW b \in Bound(S),
                      region[b] \notin Heard(Bound(Picked))
               PROVE  Cardinality(Heard(Bound(Picked))) > K - OwnHalf
      BY DEF Heard
  <2>1. PICK claim \in Region \cup {NoRegion} : Picked = Curated(S, claim)
        BY <1>1, SelectionIsCurated
  <2>2. Ranked(S)
        BY <1>1, SelectionIsCurated
  <2> HIDE DEF S
  <2> QED BY <2>1, <2>2, HeardEnough
<1> HIDE DEF Holds
<1>2. NurseryInv /\ [NurseryNext]_nurseryVars => [\A c \in Conn : Holds(c)]_nurseryVars
      BY <1>1
<1>3. [][\A c \in Conn : Holds(c)]_nurseryVars => Diverse
      BY PTL DEF Diverse, Holds
<1> QED BY <1>2, <1>3, NurseryInvariance, PTL DEF NurserySpec

(* The passes hand out K anchors, or all there are.                        *)
THEOREM PlacesTaken == NurserySpec => PlacesFilled
<1> DEFINE Holds(c) ==
        Selects(c) =>
          LET n == Cardinality(EligibleFor(c))
          IN  Cardinality(Picked) = IF n < K THEN n ELSE K
<1>1. ASSUME NurseryInv, [NurseryNext]_nurseryVars, NEW c \in Conn PROVE Holds(c)
  <2> DEFINE S == EligibleFor(c)
  <2> SUFFICES ASSUME Selects(c)
               PROVE  Cardinality(Picked) = IF Cardinality(S) < K THEN Cardinality(S)
                                                                  ELSE K
      OBVIOUS
  <2>1. PICK claim \in Region \cup {NoRegion} : Picked = Curated(S, claim)
        BY <1>1, SelectionIsCurated
  <2>2. Ranked(S)
        BY <1>1, SelectionIsCurated
  <2> HIDE DEF S
  <2>3. Picked \in SUBSET S /\ S \in SUBSET Conn
        BY <2>1, <2>2, PassesWithin DEF Ranked
  <2>4. /\ Cardinality(Picked) <= K
        /\ Picked # S => Cardinality(Picked) = K
        BY <2>1, <2>2, <2>3, PassesFill
  <2>5. /\ Cardinality(Picked) \in Nat /\ Cardinality(S) \in Nat
        /\ Cardinality(Picked) <= Cardinality(S)
        BY <2>3, ASubsetCounts
  <2>6. CASE Picked = S
    <3>1. ~(Cardinality(S) < K) => Cardinality(S) = K
          BY <2>4, <2>5, <2>6, NurseryConstants
    <3> QED BY <2>6, <3>1
  <2>7. CASE Picked # S
    <3>1. ~(Cardinality(S) < K)
          BY <2>4, <2>5, <2>7, NurseryConstants
    <3> QED BY <2>4, <2>7, <3>1
  <2> QED BY <2>6, <2>7
<1> HIDE DEF Holds
<1>2. NurseryInv /\ [NurseryNext]_nurseryVars => [\A c \in Conn : Holds(c)]_nurseryVars
      BY <1>1
<1>3. [][\A c \in Conn : Holds(c)]_nurseryVars => PlacesFilled
      BY PTL DEF PlacesFilled, Holds
<1> QED BY <1>2, <1>3, NurseryInvariance, PTL DEF NurserySpec
=============================================================================
