---------------------- MODULE GraduatedRegistry_proofs ----------------------
(***************************************************************************)
(* Proofs about GraduatedRegistry for every set of identities, bound and   *)
(* expiry: what the registry forgets, and what a sample may say.  The      *)
(* invariant is that ranks are unique and ordered like the times.          *)
(***************************************************************************)
EXTENDS GraduatedRegistry, FiniteSetTheorems, WellFoundedInduction, TLAPS

(* Ranks are drawn from a counter, once each. *)
RanksUnique == /\ \A n \in Node : rank[n] <= notes
               /\ \A m, n \in Node : rank[m] = rank[n] /\ rank[m] # 0 => m = n

(* A graduation stamps and ranks together: later in rank, later in time.   *)
RankIsAge == /\ \A n \in Node : at[n] <= now
             /\ \A m, n \in Node : rank[m] # 0 /\ rank[m] <= rank[n]
                                      => at[m] <= at[n]

MembersRanked == \A n \in reg : rank[n] # 0

RegistryInv == /\ TypeOK
               /\ RanksUnique
               /\ RankIsAge
               /\ MembersRanked
               /\ Bounded
               /\ SampleIsFresh
               /\ RemembersRecent

-----------------------------------------------------------------------------
(* Of a set of identities that are all ranked, exactly one is oldest.      *)
LEMMA OneOldest ==
    ASSUME TypeOK, RanksUnique, NEW S \in SUBSET Node, S # {},
           \A n \in S : rank[n] # 0
    PROVE  \E o \in S : Oldest(S) = {o}
<1> DEFINE T == {rank[n] : n \in S}
<1>1. T \subseteq Nat /\ T # {}
      BY DEF TypeOK
<1>2. \E x \in T : \A y \in T : ~(<<y, x>> \in OpToRel(<, Nat))
      BY <1>1, WFMin, NatLessThanWellFounded, Zenon
<1>3. PICK x \in T : \A y \in T : ~(y < x)
      BY <1>1, <1>2 DEF OpToRel
<1>4. PICK o \in S : rank[o] = x
      BY <1>3
<1>5. \A m \in S : rank[o] <= rank[m]
      BY <1>3, <1>4 DEF TypeOK
<1>6. o \in Oldest(S)
      BY <1>5 DEF Oldest
<1>7. ASSUME NEW n \in Oldest(S) PROVE n = o
  <2>1. rank[n] <= rank[o] /\ n \in S
        BY <1>4, <1>7 DEF Oldest
  <2>2. rank[n] = rank[o]
        BY <1>5, <2>1 DEF TypeOK
  <2> QED BY <2>1, <2>2 DEF RanksUnique
<1> QED BY <1>6, <1>7

(* Every subset of the identities is finite. *)
LEMMA NodesFinite ==
    \A S \in SUBSET Node : IsFiniteSet(S) /\ Cardinality(S) \in Nat
BY RegistryAssumption, FS_Subset, FS_CardinalityType

(* The registry after a graduation of n: n, and the others but for one     *)
(* that had to go.                                                         *)
LEMMA AfterNote ==
    ASSUME RegistryInv, NEW n \in Node, Note(n)
    PROVE  /\ n \in reg' /\ reg' \subseteq Node
           /\ Cardinality(reg') <= MReg
           /\ \A o \in reg \ reg' :
                 /\ Cardinality(reg \ {n}) = MReg
                 /\ \A m \in reg \ {n} : rank[o] <= rank[m]
<1> DEFINE kept == reg \ {n}
<1>1. /\ kept \subseteq Node /\ IsFiniteSet(kept)
      /\ Cardinality(kept) \in Nat
      /\ \A m \in kept : rank[m] # 0
      BY NodesFinite DEF RegistryInv, TypeOK, MembersRanked
<1>2. Cardinality(kept) <= Cardinality(reg) /\ Cardinality(reg) <= MReg
  <2>1. IsFiniteSet(reg) /\ kept \in SUBSET reg
        BY NodesFinite DEF RegistryInv, TypeOK
  <2> QED BY <2>1, FS_Subset DEF RegistryInv, Bounded
<1>3. MReg \in Nat \ {0}
      BY RegistryAssumption
<1>4. Cardinality(reg) \in Nat
      BY NodesFinite DEF RegistryInv, TypeOK
<1>5. CASE Cardinality(kept) < MReg
  <2>1. reg' = kept \cup {n}
        BY <1>5 DEF Note
  <2>2. Cardinality(reg') = Cardinality(kept) + 1
        BY <1>1, <2>1, FS_AddElement
  <2>3. Cardinality(reg') <= MReg
        BY <1>1, <1>3, <1>5, <2>2
  <2> QED BY <1>1, <2>1, <2>3
<1>6. CASE ~(Cardinality(kept) < MReg)
  <2>1. Cardinality(kept) = MReg
        BY <1>1, <1>2, <1>3, <1>4, <1>6
  <2>2. kept # {}
        BY <1>3, <2>1, FS_EmptySet
  <2>3. PICK o \in kept : Oldest(kept) = {o}
        BY <1>1, <2>2, OneOldest DEF RegistryInv
  <2>4. reg' = (kept \ {o}) \cup {n}
        BY <1>6, <2>3 DEF Note
  <2>5. Cardinality(kept \ {o}) = MReg - 1 /\ IsFiniteSet(kept \ {o})
        BY <1>1, <2>1, FS_RemoveElement
  <2>6. Cardinality(reg') = (MReg - 1) + 1
        BY <2>4, <2>5, FS_AddElement
  <2>7. \A m \in kept : rank[o] <= rank[m]
        BY <2>3 DEF Oldest
  <2> QED BY <1>1, <1>3, <2>1, <2>4, <2>6, <2>7
<1> QED BY <1>5, <1>6

-----------------------------------------------------------------------------
(* note() keeps the invariant. *)

LEMMA NoteRanks ==
    ASSUME RegistryInv, NEW n \in Node, Note(n)
    PROVE  TypeOK' /\ RanksUnique' /\ RankIsAge' /\ MembersRanked'
<1> USE RegistryAssumption
<1>1. /\ notes \in Nat /\ notes' = notes + 1 /\ now \in Nat /\ now' = now
      /\ rank \in [Node -> Nat] /\ rank' = [rank EXCEPT ![n] = notes + 1]
      /\ at \in [Node -> Nat] /\ at' = [at EXCEPT ![n] = now]
      BY DEF RegistryInv, TypeOK, Note
<1>2. TypeOK'
  <2>1. reg' \subseteq Node
        BY AfterNote
  <2> QED BY <1>1, <2>1 DEF RegistryInv, TypeOK, Note
<1>3. \A m \in Node : rank[m] <= notes /\ at[m] <= now
      BY DEF RegistryInv, RanksUnique, RankIsAge
<1>4. RanksUnique'
  <2>1. ASSUME NEW m \in Node PROVE rank'[m] <= notes'
        BY <1>1, <1>3
  <2>2. ASSUME NEW l \in Node, NEW m \in Node, rank'[l] = rank'[m], rank'[l] # 0
        PROVE  l = m
    <3>1. CASE l # n /\ m # n
          BY <1>1, <2>2, <3>1 DEF RegistryInv, RanksUnique
    <3>2. CASE l = n \/ m = n
          BY <1>1, <1>3, <2>2, <3>2
    <3> QED BY <3>1, <3>2
  <2> QED BY <2>1, <2>2 DEF RanksUnique
<1>5. RankIsAge'
  <2>1. ASSUME NEW m \in Node PROVE at'[m] <= now'
        BY <1>1, <1>3
  <2>2. ASSUME NEW l \in Node, NEW m \in Node, rank'[l] # 0, rank'[l] <= rank'[m]
        PROVE  at'[l] <= at'[m]
    <3>1. CASE l # n /\ m # n
          BY <1>1, <2>2, <3>1 DEF RegistryInv, RankIsAge
    <3>2. CASE m = n
          BY <1>1, <1>3, <3>2
    <3>3. CASE l = n /\ m # n
          BY <1>1, <1>3, <2>2, <3>3
    <3> QED BY <3>1, <3>2, <3>3
  <2> QED BY <2>1, <2>2 DEF RankIsAge
<1>6. MembersRanked'
  <2>1. ASSUME NEW m \in reg' PROVE rank'[m] # 0
    <3>1. CASE m = n
          BY <1>1, <3>1
    <3>2. CASE m # n
          BY <1>1, <2>1, <3>2 DEF Note, RegistryInv, MembersRanked, TypeOK, Oldest
    <3> QED BY <3>1, <3>2
  <2> QED BY <2>1 DEF MembersRanked
<1> QED BY <1>2, <1>4, <1>5, <1>6

(* Whoever graduates later stays later. *)
LEMMA SinceGrows ==
    ASSUME RegistryInv, NEW n \in Node, Note(n), NEW o \in Node, o # n
    PROVE  /\ Since(o) \cup {n} \subseteq Since(o)'
           /\ Cardinality(Since(o)) <= Cardinality(Since(o)')
<1>1. /\ notes \in Nat /\ rank \in [Node -> Nat]
      /\ rank' = [rank EXCEPT ![n] = notes + 1]
      /\ \A m \in Node : rank[m] <= notes
      BY RegistryAssumption DEF RegistryInv, TypeOK, RanksUnique, Note
<1>2. Since(o) \cup {n} \subseteq Since(o)'
      BY <1>1 DEF Since
<1>3. Since(o)' \in SUBSET Node
      BY DEF Since
<1>4. IsFiniteSet(Since(o)')
      BY <1>3, NodesFinite
<1> QED BY <1>2, <1>4, FS_Subset

LEMMA NoteRemembers ==
    ASSUME RegistryInv, NEW n \in Node, Note(n)
    PROVE  RemembersRecent'
<1> SUFFICES ASSUME NEW o \in Node, rank'[o] # 0, Live(o)', o \notin reg'
             PROVE  Cardinality(Since(o)') >= MReg
    BY DEF RemembersRecent
<1>1. o # n
      BY AfterNote
<1>2. /\ rank'[o] = rank[o] /\ rank[o] # 0 /\ Live(o)
      /\ Since(o) \in SUBSET Node /\ Since(o)' \in SUBSET Node
      BY <1>1 DEF Note, RegistryInv, TypeOK, Live, Since
<1>3. /\ Cardinality(Since(o)) \in Nat /\ Cardinality(Since(o)') \in Nat
      /\ MReg \in Nat \ {0}
      BY <1>2, NodesFinite, RegistryAssumption
<1>4. CASE o \notin reg
  <2>1. Cardinality(Since(o)) >= MReg
        BY <1>2, <1>4 DEF RegistryInv, RemembersRecent
  <2>2. Cardinality(Since(o)) <= Cardinality(Since(o)')
        BY <1>1, SinceGrows
  <2> QED BY <1>3, <2>1, <2>2
<1>5. CASE o \in reg
  <2> DEFINE kept == reg \ {n}
  <2>1. /\ Cardinality(kept) = MReg
        /\ \A m \in kept : rank[o] <= rank[m]
        BY <1>5, AfterNote
  <2>2. IsFiniteSet(kept) /\ o \in kept /\ kept \in SUBSET Node
        BY <1>1, <1>5, NodesFinite DEF RegistryInv, TypeOK
  <2>3. \A m \in kept \ {o} : m \in Since(o)
        BY <1>2, <2>1, <2>2 DEF Since, RegistryInv, RanksUnique, TypeOK
  <2>4. (kept \ {o}) \cup {n} \in SUBSET Since(o)'
        BY <1>1, <2>3, SinceGrows
  <2>5. Cardinality(kept \ {o}) = MReg - 1 /\ IsFiniteSet(kept \ {o})
        BY <2>1, <2>2, FS_RemoveElement
  <2>6. Cardinality((kept \ {o}) \cup {n}) = (MReg - 1) + 1
        BY <2>5, FS_AddElement
  <2>7. IsFiniteSet(Since(o)')
        BY <1>2, NodesFinite
  <2>8. Cardinality((kept \ {o}) \cup {n}) <= Cardinality(Since(o)')
        BY <2>4, <2>7, FS_Subset
  <2> QED BY <1>3, <2>6, <2>8
<1> QED BY <1>4, <1>5

LEMMA NoteStep ==
    ASSUME RegistryInv, NEW n \in Node, Note(n)
    PROVE  RegistryInv'
<1>1. Bounded'
      BY AfterNote DEF Bounded
<1>2. SampleIsFresh'
  <2>1. ASSUME NEW m \in answer' PROVE rank'[m] # 0 /\ Live(m)'
    <3>1. m \in answer /\ m \in Node
          BY <2>1 DEF Note, RegistryInv, TypeOK
    <3>2. rank[m] # 0 /\ Live(m)
          BY <3>1 DEF RegistryInv, SampleIsFresh
    <3>3. CASE m = n
          BY <3>1, <3>3, RegistryAssumption DEF Note, RegistryInv, TypeOK, Live
    <3>4. CASE m # n
          BY <3>1, <3>2, <3>4 DEF Note, RegistryInv, TypeOK, Live
    <3> QED BY <3>3, <3>4
  <2> QED BY <2>1 DEF SampleIsFresh
<1> QED BY <1>1, <1>2, NoteRanks, NoteRemembers DEF RegistryInv

-----------------------------------------------------------------------------
(* sample() keeps the invariant: the sweep removes the expired entries,    *)
(* all of them.                                                            *)
LEMMA SweepIsExact ==
    ASSUME RegistryInv, NEW n \in reg
    PROVE  n \in Swept <=> ~Live(n)
<1>1. n \in Swept => ~Live(n)
      BY DEF Swept, RegistryInv, TypeOK
<1>2. ASSUME ~Live(n), NEW m \in reg, rank[m] <= rank[n] PROVE ~Live(m)
  <2>1. m \in Node /\ n \in Node /\ rank[m] # 0
        BY <1>2 DEF RegistryInv, TypeOK, MembersRanked
  <2>2. at[m] <= at[n] /\ at[m] \in Nat /\ at[n] \in Nat /\ now \in Nat
        BY <1>2, <2>1 DEF RegistryInv, RankIsAge, TypeOK
  <2> QED BY <1>2, <2>2, RegistryAssumption DEF Live
<1> QED BY <1>1, <1>2 DEF Swept

LEMMA SampleStep ==
    ASSUME RegistryInv, NEW exclude, Sample(exclude)
    PROVE  RegistryInv'
<1>1. /\ reg' = reg \ Swept /\ UNCHANGED <<now, at, rank, notes>>
      /\ answer' \subseteq reg'
      BY DEF Sample
<1>2. TypeOK'
      BY <1>1 DEF RegistryInv, TypeOK
<1>3. RanksUnique' /\ RankIsAge' /\ MembersRanked'
      BY <1>1 DEF RegistryInv, RanksUnique, RankIsAge, MembersRanked
<1>4. Bounded'
  <2>1. IsFiniteSet(reg) /\ reg' \in SUBSET reg
        BY <1>1, NodesFinite DEF RegistryInv, TypeOK
  <2>2. Cardinality(reg') <= Cardinality(reg)
        BY <2>1, FS_Subset
  <2>3. Cardinality(reg) \in Nat /\ Cardinality(reg') \in Nat /\ MReg \in Nat
        BY <1>2, NodesFinite, RegistryAssumption DEF RegistryInv, TypeOK
  <2> QED BY <2>2, <2>3 DEF Bounded, RegistryInv
<1>5. SampleIsFresh'
  <2>1. ASSUME NEW n \in answer' PROVE rank[n] # 0 /\ Live(n)
        BY <1>1, <2>1, SweepIsExact DEF RegistryInv, MembersRanked
  <2> QED BY <1>1, <2>1 DEF SampleIsFresh, Live
<1>6. RemembersRecent'
  <2>1. ASSUME NEW n \in Node, rank[n] # 0, Live(n), n \notin reg'
        PROVE  Cardinality(Since(n)) >= MReg
    <3>1. n \notin reg
          BY <1>1, <2>1, SweepIsExact
    <3> QED BY <2>1, <3>1 DEF RegistryInv, RemembersRecent
  <2> QED BY <1>1, <2>1 DEF RemembersRecent, Live, Since
<1> QED BY <1>2, <1>3, <1>4, <1>5, <1>6 DEF RegistryInv

(* The clock moves on: what is live now was live before.                   *)
LEMMA TickStep == ASSUME RegistryInv, Tick PROVE RegistryInv'
<1>1. /\ now \in Nat /\ now' = now + 1 /\ UNCHANGED <<reg, at, rank, notes>>
      /\ answer' = {} /\ at \in [Node -> Nat]
      BY DEF Tick, entries, RegistryInv, TypeOK
<1>2. TypeOK'
      BY <1>1, RegistryAssumption DEF Tick, RegistryInv, TypeOK
<1>3. RanksUnique' /\ MembersRanked' /\ Bounded' /\ SampleIsFresh'
      BY <1>1 DEF RegistryInv, RanksUnique, MembersRanked, Bounded, SampleIsFresh
<1>4. RankIsAge'
      BY <1>1 DEF RegistryInv, RankIsAge
<1>5. \A n \in Node : Live(n)' => Live(n)
      BY <1>1, RegistryAssumption DEF Live
<1>6. RemembersRecent'
      BY <1>1, <1>5 DEF RegistryInv, RemembersRecent, Since
<1> QED BY <1>2, <1>3, <1>4, <1>6 DEF RegistryInv

LEMMA StutterStep == ASSUME RegistryInv, UNCHANGED vars PROVE RegistryInv'
BY DEF vars, entries, RegistryInv, TypeOK, RanksUnique, RankIsAge, MembersRanked,
       Bounded, SampleIsFresh, RemembersRecent, Live, Since

-----------------------------------------------------------------------------
(* The theorems.                                                           *)

LEMMA RegistryInit == Init => RegistryInv
<1> SUFFICES ASSUME Init PROVE RegistryInv
    OBVIOUS
<1>1. Cardinality({}) = 0
      BY FS_EmptySet
<1> QED BY <1>1, RegistryAssumption
        DEF Init, RegistryInv, TypeOK, RanksUnique, RankIsAge, MembersRanked,
            Bounded, SampleIsFresh, RemembersRecent

(* The invariant holds in every state of every behaviour.                  *)
THEOREM RegistryInvariance == Spec => []RegistryInv
<1>1. RegistryInv /\ [Next]_vars => RegistryInv'
      BY NoteStep, SampleStep, TickStep, StutterStep DEF Next
<1> QED BY RegistryInit, <1>1, PTL DEF Spec

(* Every variable keeps its type.                                          *)
THEOREM TypeCorrect == Spec => []TypeOK
<1>1. RegistryInv => TypeOK
      BY DEF RegistryInv
<1> QED BY RegistryInvariance, <1>1, PTL

(* The registry never holds more than MReg identities.                     *)
THEOREM RegistryBounded == Spec => []Bounded
<1>1. RegistryInv => Bounded
      BY DEF RegistryInv
<1> QED BY RegistryInvariance, <1>1, PTL

(* No sample names an identity that graduated L_reg or more ago.           *)
THEOREM SamplesFresh == Spec => []SampleIsFresh
<1>1. RegistryInv => SampleIsFresh
      BY DEF RegistryInv
<1> QED BY RegistryInvariance, <1>1, PTL

(* A recent graduate is forgotten only for MReg later ones.                *)
THEOREM RecentRemembered == Spec => []RemembersRecent
<1>1. RegistryInv => RemembersRecent
      BY DEF RegistryInv
<1> QED BY RegistryInvariance, <1>1, PTL
=============================================================================
