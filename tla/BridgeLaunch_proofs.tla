-------------------------- MODULE BridgeLaunch_proofs --------------------------
(***************************************************************************)
(* Proofs about BridgeLaunch for every set of bridges, environment and     *)
(* kernel: what a bridge that serves has been held to, the isolation of    *)
(* one that names its upstreams, the one author key, and the gate before   *)
(* every publish, the types, and that the book of other bridges never      *)
(* goes back.  An invariant each for the launch, the key, the rounds, the  *)
(* types and the book; the last two need that of the launch.               *)
(***************************************************************************)
EXTENDS BridgeLaunch, FiniteSetTheorems, TLAPS

Serves == phase \in {"open", "leaving", "closing"}

(* What each phase has left behind it. *)
Passed == /\ phase \in {"down", "starting", "gate", "open", "leaving", "closing"}
          /\ phase # "down" => /\ \E i \in Installations : env = i.env
                               /\ Constructs(env)
          /\ Running => /\ RegionApplied(env, kernel)
                        /\ ModulesLanded(env, kernel)
                        /\ target = FillTarget(env)
          /\ ~Running => link = "off" /\ dialed = {}
          /\ pc # "off" => Serves

(* The uplink under way goes to a candidate, and one that has been built   *)
(* carries the mesh's cap.                                                 *)
Linked == /\ link \in {"off", "probing", "starting", "up", "none"}
          /\ link \in {"starting", "up"} =>
                /\ PoolsOk(env) /\ SurfacesOk(env, kernel)
                /\ retire = MeshCap(env)

(* In the upstreams-only mode a candidate is a named seed. *)
Confined == env.only =>
    /\ link = "probing" => seeds \in Seq(EnvSeeds \ {SelfUrl})
    /\ dialed \subseteq EnvSeeds \ {SelfUrl}
    /\ link \in {"starting", "up"} => upstream \in (EnvSeeds \ {SelfUrl}) \cup {NoUrl}
    /\ Serves => Joined

LaunchInv == Passed /\ Linked /\ Confined

(* No key but the first is minted: before it is stored it is not used.     *)
KeyInv == \/ /\ minted = 0 /\ signers = {} /\ author = NoKey
             /\ authorFile \in {NoKey, Torn}
          \/ /\ minted = 1 /\ signers \subseteq {1} /\ author \in {NoKey, 1}
             /\ authorFile = 1

(* A round that is under way began when the bridge was up long enough.     *)
RoundInv == /\ now \in Nat /\ bootAt \in Nat
            /\ todo \in [Caller -> SUBSET Region]
            /\ (\E c \in Caller : todo[c] # {}) => UpLongEnough
            /\ phase = "down" => \A c \in Caller : todo[c] = {}

-----------------------------------------------------------------------------
(* The candidates *)

(* An enumeration of a finite set is a sequence over it.                   *)
LEMMA Enumeration ==
    ASSUME NEW S, IsFiniteSet(S), NEW s \in [1..Cardinality(S) -> S]
    PROVE  s \in Seq(S)
<1>1. Cardinality(S) \in Nat
      BY FS_CardinalityType
<1> QED BY <1>1

LEMMA NamedFinite ==
    ASSUME \E i \in Installations : env = i.env
    PROVE  IsFiniteSet(EnvSeeds \ {SelfUrl})
<1>1. env.seeds \in Seq(Bridge \cup {Self})
      BY LaunchAssumption
<1>2. EnvSeeds \ {SelfUrl} \subseteq Bridge \cup {Self}
      BY <1>1 DEF EnvSeeds
<1>3. IsFiniteSet(Bridge \cup {Self})
      BY LaunchAssumption, FS_AddElement
<1> QED BY <1>2, <1>3, FS_Subset

LEMMA NamedOnly ==
    ASSUME env.only, \E i \in Installations : env = i.env,
           NEW b, NEW s \in Candidates(b)
    PROVE  s \in Seq(EnvSeeds \ {SelfUrl})
<1> DEFINE S == EnvSeeds \ {SelfUrl}
<1>1. s \in [1..Cardinality(S) -> S]
      BY DEF Candidates
<1> QED BY <1>1, NamedFinite, Enumeration

-----------------------------------------------------------------------------
(* The launch *)

LEMMA DirectoryTask ==
    ASSUME DirectoryNext
    PROVE  pc' # "off" => pc # "off"
BY DEF DirectoryNext, Learn, Publish, Heartbeat, EnsureAuthor, Poll, DeclareClass,
       Subscribe, Meshed, Hour, taskVars

LEMMA ExitsKeep == ASSUME LaunchInv, Exits PROVE LaunchInv'
BY DEF LaunchInv, Exits, FreshTask, Passed, Linked, Confined, Running, Serves

LEMMA LaunchStep == ASSUME LaunchInv, [Next]_vars PROVE LaunchInv'
<1> USE DEF LaunchInv
<1>1. ASSUME NEW i \in Installations, Launch(i) PROVE LaunchInv'
      BY <1>1 DEF Launch, Passed, Linked, Confined, Running, Serves, taskVars
<1>2. CASE NodeStarts
  <2>1. /\ phase = "starting" /\ env' = env /\ kernel' = kernel
        /\ dialed' = dialed /\ dialed = {} /\ upstream' = upstream
        /\ target' = FillTarget(env) /\ phase' \in {"gate", "open"}
        /\ link' \in {"probing", "off"}
        /\ link = "off" /\ pc = "off"
        /\ RegionApplied(env, kernel) /\ ModulesLanded(env, kernel)
        BY <1>2 DEF NodeStarts, Dials, Passed, Running, Serves
  <2>2. Passed'
        BY <1>2, <2>1 DEF NodeStarts, Passed, Running, Serves
  <2>3. Linked'
        BY <2>1 DEF Linked
  <2>4. ASSUME env.only PROVE phase' = "gate" /\ link' = "probing" /\ seeds' \in Candidates(EmptyBook)
        BY <1>2, <2>4 DEF NodeStarts, Dials
  <2>5. ASSUME env.only PROVE seeds' \in Seq(EnvSeeds \ {SelfUrl})
        BY <2>1, <2>4, <2>5, NamedOnly DEF Passed
  <2>6. Confined'
        BY <2>1, <2>4, <2>5 DEF Confined, Serves, EnvSeeds, SelfUrl
  <2> QED BY <2>2, <2>3, <2>6
<1>3. CASE NodeRefuses
      BY <1>3, ExitsKeep DEF NodeRefuses
<1>4. CASE Probe
  <2>1. /\ Running /\ link = "probing" /\ seeds # <<>>
        /\ dialed' = dialed \cup {Head(seeds)}
        /\ UNCHANGED <<phase, env, kernel, target, pc>>
        /\ \/ seeds' = <<>> /\ Builds(Head(seeds))
           \/ seeds' = Tail(seeds) /\ UNCHANGED <<link, upstream, retire>>
        BY <1>4 DEF Probe, directoryVars, taskVars
  <2>2. ASSUME env.only
        PROVE  Head(seeds) \in EnvSeeds \ {SelfUrl} /\ Tail(seeds) \in Seq(EnvSeeds \ {SelfUrl})
        BY <2>1, <2>2 DEF Confined
  <2>3. ~env.only \/ ~Serves
        BY <2>1 DEF Confined, Joined
  <2>4. Passed'
        BY <2>1 DEF Passed, Running, Serves
  <2>5. CASE Builds(Head(seeds))
    <3>1. \/ link' = "none" /\ UNCHANGED upstream
          \/ /\ link' = "starting" /\ upstream' = Head(seeds) /\ retire' = MeshCap(env)
             /\ PoolsOk(env) /\ SurfacesOk(env, kernel)
          BY <2>5 DEF Builds
    <3>2. Linked'
          BY <2>1, <3>1 DEF Linked
    <3>3. Confined'
          BY <2>1, <2>2, <2>3, <3>1 DEF Confined, Serves, EnvSeeds, SelfUrl
    <3> QED BY <2>4, <3>2, <3>3
  <2>6. CASE seeds' = Tail(seeds) /\ UNCHANGED <<link, upstream, retire>>
    <3>1. Linked'
          BY <2>1, <2>6 DEF Linked
    <3>2. Confined'
          BY <2>1, <2>2, <2>3, <2>6 DEF Confined, Serves, EnvSeeds, SelfUrl
    <3> QED BY <2>4, <3>1, <3>2
  <2> QED BY <2>1, <2>5, <2>6
<1>5. CASE NoSeedLeft
  <2>1. /\ Running /\ link = "probing"
        /\ UNCHANGED <<phase, env, kernel, target, pc, dialed>>
        /\ \/ link' = "none"
           \/ /\ link' = "starting" /\ upstream' = NoUrl /\ retire' = MeshCap(env)
              /\ PoolsOk(env) /\ SurfacesOk(env, kernel)
        BY <1>5 DEF NoSeedLeft, Builds, directoryVars, taskVars
  <2>2. ~env.only \/ ~Serves
        BY <2>1 DEF Confined, Joined
  <2> QED BY <2>1, <2>2 DEF Passed, Linked, Confined, Running, Serves, EnvSeeds, SelfUrl
<1>6. CASE TransportStarts
  <2>1. /\ Running /\ link = "starting"
        /\ UNCHANGED <<phase, env, kernel, target, pc, dialed>>
        /\ \/ link' = "up" /\ UNCHANGED <<upstream, retire>>
           \/ link' = "none"
        BY <1>6 DEF TransportStarts
  <2>2. ~env.only \/ ~Serves
        BY <2>1 DEF Confined, Joined
  <2> QED BY <2>1, <2>2 DEF Passed, Linked, Confined, Running, Serves, EnvSeeds, SelfUrl
<1>7. CASE GateOpens
      BY <1>7 DEF GateOpens, Publishes, Passed, Linked, Confined, Running, Serves,
                  Joined, EnvSeeds, SelfUrl
<1>8. CASE GateExits
      BY <1>8, ExitsKeep DEF GateExits
<1>9. CASE Signal
      BY <1>9 DEF Signal, Passed, Linked, Confined, Running, Serves, Joined, EnvSeeds, SelfUrl
<1>10. CASE PeerLeft
      BY <1>10 DEF PeerLeft, Leaves, Passed, Linked, Confined, Running, Serves, Joined,
                   EnvSeeds, SelfUrl, directoryVars, taskVars
<1>11. CASE ShutDown \/ Crash
      BY <1>11, ExitsKeep DEF ShutDown, Crash
<1>12. CASE DirectoryStep \/ HourDown
  <2>1. UNCHANGED launchVars
        BY <1>12 DEF DirectoryStep, HourDown, Alive
  <2>2. pc' # "off" => pc # "off"
        BY <1>12, DirectoryTask DEF DirectoryStep, HourDown, Hour
  <2> QED BY <2>1, <2>2 DEF launchVars, Passed, Linked, Confined, Running, Serves,
                            Joined, EnvSeeds, SelfUrl
<1>13. CASE UNCHANGED vars
      BY <1>13 DEF vars, launchVars, directoryVars, taskVars, Passed, Linked, Confined,
                   Running, Serves, Joined, EnvSeeds, SelfUrl
<1> QED BY <1>1, <1>2, <1>3, <1>4, <1>5, <1>6, <1>7, <1>8, <1>9, <1>10, <1>11,
           <1>12, <1>13 DEF Next

THEOREM LaunchInvariance == Spec => []LaunchInv
<1>1. Init => LaunchInv
      BY DEF Init, InitDirectory, LaunchInv, Passed, Linked, Confined, Running, Serves
<1> QED BY <1>1, LaunchStep, PTL DEF Spec

(* A bridge that serves runs what was asked for, and nothing else.         *)
THEOREM ClosedOnFailure == Spec => []FailsClosed
<1>1. LaunchInv => FailsClosed
      BY DEF LaunchInv, Passed, Linked, FailsClosed, Running, Constructs, Coherent,
             RegionApplied, ModulesLanded, SurfacesOk
<1> QED BY <1>1, LaunchInvariance, PTL

(* The fill's target, the mesh's cap and the profile of an armed bridge    *)
(* are the number of its environment.                                      *)
THEOREM CapIsOne == Spec => []OneCap
<1>1. LaunchInv => OneCap
  <2> SUFFICES ASSUME LaunchInv, link = "up", env.arms = Module
               PROVE  /\ target = env.meshMax.n /\ retire = target /\ target > 0
                      /\ env.pools.form # "absent" => env.pools.M = target
      BY DEF OneCap
  <2>1. Running /\ Constructs(env) /\ Armed(env)
        BY DEF LaunchInv, Passed, Running, Armed
  <2>2. StrictCap(env.meshMax) # 0
        BY <2>1 DEF Constructs
  <2>3. StrictCap(env.meshMax) = env.meshMax.n /\ env.meshMax.n \in 1..MaxSafe
        BY <2>2 DEF StrictCap
  <2>4. target = env.meshMax.n /\ retire = env.meshMax.n /\ PoolsOk(env)
        BY <2>1, <2>3 DEF LaunchInv, Passed, Linked, FillTarget, MeshCap
  <2>5. MeshCap(env) = env.meshMax.n /\ env.meshMax.n > 0
        BY <2>1, <2>3, ArmingAssumption DEF MeshCap
  <2> QED BY <2>4, <2>5 DEF PoolsOk
<1> QED BY <1>1, LaunchInvariance, PTL

(* Both, as the runs state it.                                             *)
THEOREM ServedAsAsked == Spec => []ServesAsAsked
<1>1. OneCap /\ FailsClosed => ServesAsAsked
      BY DEF ServesAsAsked
<1> QED BY <1>1, CapIsOne, ClosedOnFailure, PTL

(* A bridge that names its upstreams is isolated from all others.          *)
THEOREM NamedIsIsolated == Spec => []Isolated
<1>1. LaunchInv => Isolated
      BY DEF LaunchInv, Passed, Confined, Isolated, Serves, Joined
<1> QED BY <1>1, LaunchInvariance, PTL

-----------------------------------------------------------------------------
(* The key *)

LEMMA KeyStep == ASSUME KeyInv, [Next]_vars PROVE KeyInv'
<1>1. CASE UNCHANGED <<minted, signers, author, authorFile>>
      BY <1>1 DEF KeyInv
<1>2. CASE Exits
      BY <1>2 DEF KeyInv, Exits, FreshTask, diskVars
<1>3. CASE EnsureAuthor
  <2>1. Key = 1 /\ signers' = signers
        BY <1>3 DEF KeyInv, Key, EnsureAuthor
  <2>2. CASE author' = Key /\ authorFile' = Key /\ minted' = IF Key > minted THEN Key ELSE minted
        BY <2>1, <2>2 DEF KeyInv
  <2>3. CASE authorFile \notin 1..minted /\ authorFile' \in {authorFile, Torn} /\ UNCHANGED <<author, minted>>
        BY <2>1, <2>3 DEF KeyInv
  <2> QED BY <1>3, <2>2, <2>3 DEF EnsureAuthor
<1>4. ASSUME NEW c \in Caller, NEW r \in Region, Publish(c, r) PROVE KeyInv'
      BY <1>4 DEF KeyInv, Publish, diskVars
<1>5. ASSUME DirectoryNext PROVE KeyInv'
  <2>1. ASSUME NEW u \in Advertisers, NEW t \in Issued, Learn(u, t) PROVE KeyInv'
        BY <1>1, <2>1 DEF Learn, taskVars
  <2>2. CASE Heartbeat \/ Poll \/ DeclareClass \/ Subscribe \/ Meshed \/ Hour
        BY <1>1, <2>2 DEF Heartbeat, Poll, DeclareClass, Subscribe, Meshed, Hour,
                          taskVars, diskVars
  <2> QED BY <1>3, <1>4, <1>5, <2>1, <2>2 DEF DirectoryNext
<1>6. ASSUME NEW i \in Installations, Launch(i) PROVE KeyInv'
      BY <1>1, <1>6 DEF Launch, taskVars, diskVars
<1>7. CASE NodeStarts \/ TransportStarts \/ GateOpens \/ Signal
      BY <1>1, <1>7 DEF NodeStarts, TransportStarts, GateOpens, Signal, diskVars
<1>8. CASE Probe \/ NoSeedLeft \/ PeerLeft \/ UNCHANGED vars
      BY <1>1, <1>8 DEF Probe, NoSeedLeft, PeerLeft, vars, directoryVars, taskVars, diskVars
<1>9. CASE HourDown
      BY <1>1, <1>9 DEF HourDown, Hour, diskVars
<1> QED BY <1>2, <1>5, <1>6, <1>7, <1>8, <1>9
        DEF Next, NodeRefuses, GateExits, ShutDown, Crash, DirectoryStep

(* Whatever fails or crashes, a bridge signs with one key.                 *)
THEOREM OneAuthor == Spec => []AuthorIsDurable
<1>1. Init => KeyInv
      BY DEF Init, InitDirectory, KeyInv
<1>2. KeyInv => AuthorIsDurable
  <2> SUFFICES ASSUME KeyInv PROVE Cardinality(signers) <= 1
      BY DEF AuthorIsDurable
  <2>1. signers = {} \/ signers = {1}
        BY DEF KeyInv
  <2> QED BY <2>1, FS_EmptySet, FS_Singleton
<1> QED BY <1>1, <1>2, KeyStep, PTL DEF Spec

-----------------------------------------------------------------------------
(* The rounds *)

(* A caller's round: all of the regions are of the directory, and nothing  *)
(* is begun before its time.                                               *)
LEMMA RoundBegins ==
    ASSUME RoundInv, NEW c \in Caller
    PROVE  /\ Round(c) \in [Caller -> SUBSET Region]
           /\ (\E d \in Caller : Round(c)[d] # {}) => UpLongEnough
<1>1. Regions \subseteq Region
      BY DirectoryAssumption DEF Regions, InBook
<1>2. CASE Established
      BY <1>1, <1>2 DEF Round, Established, RoundInv
<1>3. CASE ~Established
      BY <1>3 DEF Round, RoundInv
<1> QED BY <1>2, <1>3

LEMMA RoundStep == ASSUME RoundInv, LaunchInv, [Next]_vars PROVE RoundInv'
<1> USE DirectoryAssumption
<1>1. CASE UNCHANGED <<now, bootAt, todo>> /\ phase' # "down"
      BY <1>1 DEF RoundInv, UpLongEnough
<1>2. CASE Exits
      BY <1>2 DEF RoundInv, Exits, FreshTask
<1>3. ASSUME NEW i \in Installations, Launch(i) PROVE RoundInv'
      BY <1>3 DEF RoundInv, Launch, taskVars, UpLongEnough
<1>4. CASE Hour /\ phase' = phase
  <2>1. UpLongEnough => UpLongEnough'
        BY <1>4 DEF Hour, UpLongEnough, RoundInv
  <2> QED BY <1>4, <2>1 DEF Hour, RoundInv
<1>5. ASSUME NEW c \in Caller, todo' = Round(c), UNCHANGED <<now, bootAt>>,
             phase' # "down"
      PROVE  RoundInv'
  <2>1. UpLongEnough' = UpLongEnough
        BY <1>5 DEF UpLongEnough
  <2> QED BY <1>5, <2>1, RoundBegins DEF RoundInv
<1>6. CASE DirectoryStep
  <2>1. phase' = phase /\ phase # "down"
        BY <1>6 DEF DirectoryStep, Alive, launchVars
  <2>2. ASSUME NEW c \in Caller, NEW r \in Region, Publish(c, r) PROVE RoundInv'
    <3>1. /\ todo' = [todo EXCEPT ![c] = @ \ {r}] /\ r \in todo[c]
          /\ now' = now /\ bootAt' = bootAt
          BY <2>2 DEF Publish, Upcoming
    <3>2. UpLongEnough /\ UpLongEnough'
          BY <3>1 DEF RoundInv, UpLongEnough
    <3> QED BY <2>1, <3>1, <3>2 DEF RoundInv
  <2>3. ASSUME NEW u \in Advertisers, NEW t \in Issued, Learn(u, t) PROVE RoundInv'
        BY <1>1, <2>1, <2>3 DEF Learn, taskVars
  <2>4. CASE Heartbeat
        BY <1>5, <2>1, <2>4 DEF Heartbeat, Caller
  <2>5. CASE Poll
        BY <1>1, <1>5, <2>1, <2>5 DEF Poll, Caller
  <2>6. CASE EnsureAuthor \/ DeclareClass \/ Subscribe \/ Meshed
        BY <1>1, <2>1, <2>6 DEF EnsureAuthor, DeclareClass, Subscribe, Meshed, taskVars
  <2> QED BY <1>4, <1>6, <2>1, <2>2, <2>3, <2>4, <2>5, <2>6 DEF DirectoryStep, DirectoryNext
<1>7. CASE TransportStarts
  <2>1. phase' = phase /\ phase # "down" /\ UNCHANGED <<now, bootAt>>
        BY <1>7 DEF TransportStarts, Running
  <2> QED BY <1>1, <1>5, <1>7, <2>1 DEF TransportStarts, Caller
<1>8. CASE NodeStarts \/ GateOpens \/ Signal
      BY <1>1, <1>8 DEF NodeStarts, GateOpens, Signal, Dials, Publishes
<1>9. CASE Probe \/ NoSeedLeft \/ PeerLeft
      BY <1>1, <1>9 DEF Probe, NoSeedLeft, PeerLeft, Running, Leaves, directoryVars, taskVars
<1>10. CASE HourDown
      BY <1>4, <1>10 DEF HourDown, launchVars
<1>11. CASE UNCHANGED vars
      BY <1>11 DEF vars, launchVars, directoryVars, taskVars, RoundInv, UpLongEnough
<1> QED BY <1>2, <1>3, <1>6, <1>7, <1>8, <1>9, <1>10, <1>11
        DEF Next, NodeRefuses, GateExits, ShutDown, Crash

(* No publish is within MinUptime of the launch.                           *)
THEOREM GateBeforePublish == Spec => EstablishedFirst
<1>1. Init => RoundInv
      BY DirectoryAssumption DEF Init, InitDirectory, RoundInv, Caller
<1>2. ASSUME RoundInv, [Next]_vars
      PROVE  [offered' # offered /\ phase' # "down" => now - bootAt >= MinUptime]_vars
  <2>1. CASE UNCHANGED offered
        BY <2>1
  <2>2. CASE Exits
        BY <2>2 DEF Exits
  <2>3. ASSUME NEW c \in Caller, NEW r \in Region, Publish(c, r)
        PROVE  now - bootAt >= MinUptime
        BY <1>2, <2>3 DEF Publish, Upcoming, RoundInv, UpLongEnough
  <2>4. CASE DirectoryNext
    <3>1. ASSUME NEW u \in Advertisers, NEW t \in Issued, Learn(u, t) PROVE UNCHANGED offered
          BY <3>1 DEF Learn
    <3>2. CASE Heartbeat \/ EnsureAuthor \/ Poll \/ DeclareClass \/ Subscribe \/ Meshed \/ Hour
          BY <3>2 DEF Heartbeat, EnsureAuthor, Poll, DeclareClass, Subscribe, Meshed, Hour
    <3> QED BY <2>1, <2>3, <2>4, <3>1, <3>2 DEF DirectoryNext
  <2>5. ASSUME NEW i \in Installations, Launch(i) PROVE UNCHANGED offered
        BY <2>5 DEF Launch
  <2>6. CASE NodeStarts \/ Probe \/ NoSeedLeft \/ TransportStarts \/ GateOpens
             \/ Signal \/ PeerLeft \/ HourDown \/ UNCHANGED vars
        BY <2>6 DEF NodeStarts, Probe, NoSeedLeft, TransportStarts, GateOpens, Signal,
                    PeerLeft, HourDown, Hour, vars, directoryVars
  <2> QED BY <1>2, <2>1, <2>2, <2>4, <2>5, <2>6
          DEF Next, NodeRefuses, GateExits, ShutDown, Crash, DirectoryStep
<1> QED BY <1>1, <1>2, RoundStep, LaunchInvariance, PTL DEF Spec, EstablishedFirst

-----------------------------------------------------------------------------
(* Types *)

(* The conjuncts of TypeOK, by who changes them; those of the key and of   *)
(* the rounds follow from their invariants.                                *)
LaunchTypes == /\ \E i \in Installations : env = i.env /\ kernel = i.kernel
               /\ launches \in 0..MaxLaunches
               /\ target \in Nat /\ retire \in Nat
               /\ seeds \in Seq(Bridge \cup {Self})
               /\ upstream \in Bridge \cup {Self, NoUrl}
               /\ dialed \subseteq Bridge \cup {Self}
TaskTypes == /\ now \in 1..MaxTime /\ bootAt \in 1..now
             /\ pc \in {"off", "author", "waiting", "publishing", "subscribing", "ended"}
             /\ {meshed, beat, stopped, held} \subseteq BOOLEAN
             /\ {toSub, subs, offered} \subseteq SUBSET Region
Book == [Bridge -> [issued : 0..now, seen : 0..now]]
BookTypes == /\ now \in Nat \ {0}
             /\ book \in Book
             /\ bookFile = Torn \/ bookFile \in Book

LEMMA CapsNatural ==
    ASSUME NEW i \in Installations, env = i.env
    PROVE  FillTarget(env) \in Nat /\ MeshCap(env) \in Nat
<1>1. StrictCap(env.meshMax) \in Nat
      BY ArmingAssumption DEF StrictCap
<1>2. env.meshMax \in Raw /\ env.maxPeers \in Raw
      BY LaunchAssumption
<1>3. Parsed(env.meshMax) \in Int /\ WsCap(env) \in Int
      BY <1>2, ArmingAssumption DEF Parsed, WsCap, Raw
<1>4. LegacyMeshCap(env) \in Nat
      BY <1>3 DEF LegacyMeshCap
<1> QED BY <1>1, <1>4 DEF FillTarget, MeshCap

(* Whatever the mode, the candidates are a list of urls.                   *)
LEMMA CandidatesAreUrls ==
    ASSUME NEW i \in Installations, env = i.env, NEW b, NEW s \in Candidates(b)
    PROVE  s \in Seq(Bridge \cup {Self})
<1> DEFINE Wide == (EnvSeeds \cup Defaults \cup {u \in Bridge : b[u] # Unknown}) \ {SelfUrl}
           Narrow == EnvSeeds \ {SelfUrl}
<1>1. EnvSeeds \subseteq Bridge \cup {Self}
      BY LaunchAssumption DEF EnvSeeds
<1>2. Wide \subseteq Bridge \cup {Self} /\ Narrow \subseteq Bridge \cup {Self}
      BY <1>1, LaunchAssumption
<1>3. IsFiniteSet(Bridge \cup {Self})
      BY LaunchAssumption, FS_AddElement
<1>4. IsFiniteSet(Wide) /\ IsFiniteSet(Narrow)
      BY <1>2, <1>3, FS_Subset
<1>5. s \in [1..Cardinality(Wide) -> Wide] \/ s \in [1..Cardinality(Narrow) -> Narrow]
      BY DEF Candidates
<1>6. s \in Seq(Wide) \/ s \in Seq(Narrow)
      BY <1>4, <1>5, Enumeration
<1> QED BY <1>2, <1>6

LEMMA LaunchTypesStep ==
    ASSUME LaunchTypes, LaunchInv, [Next]_vars
    PROVE  LaunchTypes'
<1> USE DEF LaunchTypes
<1>1. PICK i \in Installations : env = i.env /\ kernel = i.kernel
      BY DEF LaunchTypes
<1>2. CASE UNCHANGED launchVars
      BY <1>2 DEF launchVars
<1>3. CASE Exits
      BY <1>3 DEF Exits
<1>4. ASSUME NEW j \in Installations, Launch(j) PROVE LaunchTypes'
      BY <1>4, LaunchAssumption DEF Launch
<1>5. CASE NodeStarts
  <2>1. /\ UNCHANGED <<env, kernel, upstream, dialed, retire, launches>>
        /\ target' = FillTarget(env)
        BY <1>5 DEF NodeStarts
  <2>2. (seeds' \in Candidates(EmptyBook) \/ seeds' \in Candidates(book')) \/ seeds' = seeds
        BY <1>5 DEF NodeStarts, Dials
  <2>3. seeds' \in Seq(Bridge \cup {Self})
        BY <1>1, <2>2, CandidatesAreUrls
  <2> QED BY <1>1, <2>1, <2>3, CapsNatural
<1>6. CASE Probe
  <2>1. /\ UNCHANGED <<env, kernel, target, launches>>
        /\ seeds # <<>> /\ dialed' = dialed \cup {Head(seeds)}
        /\ seeds' \in {<<>>, Tail(seeds)}
        /\ \/ UNCHANGED <<upstream, retire>>
           \/ upstream' = Head(seeds) /\ retire' = MeshCap(env)
        BY <1>6 DEF Probe, Builds
  <2>2. Head(seeds) \in Bridge \cup {Self} /\ Tail(seeds) \in Seq(Bridge \cup {Self})
        BY <2>1
  <2>3. seeds' \in Seq(Bridge \cup {Self})
    <3>1. CASE seeds' = <<>>
          BY <3>1
    <3>2. CASE seeds' = Tail(seeds)
          BY <2>2, <3>2
    <3> QED BY <2>1, <3>1, <3>2
  <2>4. retire' \in Nat /\ upstream' \in Bridge \cup {Self, NoUrl}
        BY <1>1, <2>1, <2>2, CapsNatural
  <2> QED BY <2>1, <2>2, <2>3, <2>4
<1>7. CASE NoSeedLeft
  <2>1. /\ UNCHANGED <<env, kernel, target, launches, seeds, dialed>>
        /\ \/ UNCHANGED <<upstream, retire>>
           \/ upstream' = NoUrl /\ retire' = MeshCap(env)
        BY <1>7 DEF NoSeedLeft, Builds
  <2> QED BY <1>1, <2>1, CapsNatural
<1>8. CASE TransportStarts \/ GateOpens \/ Signal \/ PeerLeft
      BY <1>8 DEF TransportStarts, GateOpens, Signal, PeerLeft
<1> QED BY <1>2, <1>3, <1>4, <1>5, <1>6, <1>7, <1>8
        DEF Next, NodeRefuses, GateExits, ShutDown, Crash, DirectoryStep, Alive,
            HourDown, vars

LEMMA TaskTypesStep ==
    ASSUME TaskTypes, [Next]_vars
    PROVE  TaskTypes'
<1> USE DirectoryAssumption, LaunchAssumption DEF TaskTypes
<1>1. CASE UNCHANGED <<now, bootAt, meshed, pc, beat, stopped, toSub, subs, held, offered>>
      BY <1>1
<1>2. CASE Exits
      BY <1>2 DEF Exits, FreshTask
<1>3. ASSUME NEW i \in Installations, Launch(i) PROVE TaskTypes'
  <2>1. /\ now' = now /\ bootAt' = now /\ meshed' = FALSE
        /\ UNCHANGED <<pc, beat, stopped, toSub, subs, held, offered>>
        BY <1>3 DEF Launch, taskVars
  <2>2. meshed' \in BOOLEAN
        BY <2>1
  <2>3. now' \in 1..MaxTime /\ bootAt' \in 1..now'
        BY <2>1
  <2> QED BY <2>1, <2>2, <2>3
<1>4. CASE NodeStarts \/ GateOpens
      BY <1>4 DEF NodeStarts, GateOpens, Publishes
<1>5. CASE Signal
  <2>1. UNCHANGED <<now, bootAt, meshed, pc, toSub, held, offered>>
        BY <1>5 DEF Signal
  <2>2. /\ stopped' = TRUE \/ stopped' = stopped
        /\ beat' = FALSE \/ beat' = beat
        /\ subs' = {} \/ subs' = subs
        BY <1>5 DEF Signal, StopPublisher
  <2> QED BY <2>1, <2>2
<1>6. CASE Hour
  <2>1. beat' \in BOOLEAN
        BY <1>6, Zenon DEF Hour
  <2>2. now' \in 1..MaxTime /\ bootAt' \in 1..now'
        BY <1>6 DEF Hour
  <2>3. UNCHANGED <<meshed, pc, stopped, toSub, subs, held, offered>>
        BY <1>6 DEF Hour
  <2> QED BY <2>1, <2>2, <2>3
<1>7. CASE DirectoryNext
  <2>1. ASSUME NEW u \in Advertisers, NEW t \in Issued, Learn(u, t) PROVE TaskTypes'
        BY <1>1, <2>1 DEF Learn, taskVars
  <2>2. ASSUME NEW c \in Caller, NEW r \in Region, Publish(c, r) PROVE TaskTypes'
        BY <2>2 DEF Publish
  <2>3. CASE Heartbeat \/ EnsureAuthor \/ Poll
        BY <2>3 DEF Heartbeat, EnsureAuthor, Poll
  <2>4. CASE Meshed
        BY <2>4 DEF Meshed, taskVars
  <2>5. Regions \subseteq Region
        BY DEF Regions, InBook
  <2>6. CASE DeclareClass
        BY <2>5, <2>6 DEF DeclareClass
  <2>7. CASE Subscribe
    <3>1. Upcoming(toSub) \subseteq Region
          BY DEF Upcoming
    <3>2. held' \in BOOLEAN
      <4>1. held \in BOOLEAN
            OBVIOUS
      <4> QED BY <2>7, <4>1, Zenon DEF Subscribe
    <3>3. toSub' \subseteq Region /\ subs' \subseteq Region /\ pc' \in {pc, "ended"}
          BY <2>7, <3>1 DEF Subscribe
    <3>4. UNCHANGED <<now, bootAt, meshed, beat, stopped, offered>>
          BY <2>7 DEF Subscribe
    <3> QED BY <3>2, <3>3, <3>4
  <2> QED BY <1>6, <1>7, <2>1, <2>2, <2>3, <2>4, <2>6, <2>7 DEF DirectoryNext
<1>8. CASE Probe \/ NoSeedLeft \/ PeerLeft \/ UNCHANGED vars
      BY <1>1, <1>8 DEF Probe, NoSeedLeft, PeerLeft, vars, directoryVars, taskVars
<1>9. CASE TransportStarts
      BY <1>1, <1>9 DEF TransportStarts
<1> QED BY <1>2, <1>3, <1>4, <1>5, <1>6, <1>7, <1>8, <1>9
        DEF Next, NodeRefuses, GateExits, ShutDown, Crash, DirectoryStep, HourDown

LEMMA BookTypesStep ==
    ASSUME BookTypes, [Next]_vars
    PROVE  BookTypes'
<1> USE DEF BookTypes
<1>1. CASE UNCHANGED <<now, book, bookFile>>
      BY <1>1 DEF Book
<1>2. EmptyBook \in Book /\ Loaded \in Book
      BY DEF EmptyBook, Unknown, Book, Loaded
<1>3. CASE Exits \/ NodeStarts
      BY <1>2, <1>3 DEF Exits, NodeStarts, diskVars, Book
<1>4. CASE Hour
  <2>1. now' = now + 1 /\ UNCHANGED <<book, bookFile>>
        BY <1>4 DEF Hour, diskVars
  <2>2. Book \subseteq Book'
        BY <2>1 DEF Book
  <2> QED BY <2>1, <2>2
<1>5. ASSUME NEW u \in Advertisers, NEW t \in Issued, Learn(u, t) PROVE BookTypes'
  <2>1. /\ now' = now /\ book' = Merged(u, t)
        /\ bookFile' \in {book', bookFile, Torn}
        BY <1>5 DEF Learn, Saves
  <2>2. t \in 0..now /\ u \in Bridge
        BY DirectoryAssumption DEF Issued
  <2>3. Merged(u, t) \in Book
    <3>1. (IF u \in InBook THEN book[u].seen ELSE now) \in 0..now
          BY <2>2 DEF Book, InBook
    <3> QED BY <2>2, <3>1 DEF Merged, Book, Unknown
  <2>4. Book' = Book
        BY <2>1 DEF Book
  <2> QED BY <2>1, <2>3, <2>4
<1>6. CASE DirectoryNext
  <2>1. ASSUME NEW c \in Caller, NEW r \in Region, Publish(c, r) PROVE BookTypes'
        BY <1>1, <2>1 DEF Publish, diskVars
  <2>2. CASE Heartbeat \/ EnsureAuthor \/ Poll \/ DeclareClass \/ Subscribe \/ Meshed
        BY <1>1, <2>2 DEF Heartbeat, EnsureAuthor, Poll, DeclareClass, Subscribe,
                          Meshed, diskVars
  <2> QED BY <1>4, <1>5, <1>6, <2>1, <2>2 DEF DirectoryNext
<1>7. ASSUME NEW i \in Installations, Launch(i) PROVE BookTypes'
      BY <1>1, <1>7 DEF Launch, diskVars
<1>8. CASE Probe \/ NoSeedLeft \/ TransportStarts \/ GateOpens \/ Signal \/ PeerLeft
           \/ UNCHANGED vars
      BY <1>1, <1>8 DEF Probe, NoSeedLeft, TransportStarts, GateOpens, Signal, PeerLeft,
                        vars, directoryVars, diskVars
<1> QED BY <1>3, <1>4, <1>6, <1>7, <1>8
        DEF Next, NodeRefuses, GateExits, ShutDown, Crash, DirectoryStep, HourDown

(* Every variable of the bridge and of its files keeps its type.           *)
THEOREM TypeCorrect == Spec => []TypeOK
<1>1. ASSUME Init
      PROVE  LaunchTypes /\ TaskTypes /\ BookTypes /\ KeyInv /\ RoundInv
  <2> USE <1>1, DirectoryAssumption, LaunchAssumption DEF Init, InitDirectory
  <2>1. LaunchTypes
    <3>1. <<>> \in Seq(Bridge \cup {Self})
          OBVIOUS
    <3> QED BY <3>1 DEF LaunchTypes
  <2>2. TaskTypes
    <3>1. meshed \in BOOLEAN /\ beat \in BOOLEAN /\ stopped \in BOOLEAN /\ held \in BOOLEAN
          OBVIOUS
    <3>2. now \in 1..MaxTime /\ bootAt \in 1..now
          OBVIOUS
    <3>3. toSub = {} /\ subs = {} /\ offered = {} /\ pc = "off"
          OBVIOUS
    <3> QED BY <3>1, <3>2, <3>3 DEF TaskTypes
  <2>3. BookTypes
        BY DEF BookTypes, Book, EmptyBook, Unknown
  <2>4. KeyInv /\ RoundInv
        BY DEF KeyInv, RoundInv, Caller
  <2> QED BY <2>1, <2>2, <2>3, <2>4
<1>2. LaunchInv /\ LaunchTypes /\ TaskTypes /\ BookTypes /\ KeyInv /\ RoundInv => TypeOK
      BY DEF LaunchInv, Passed, Linked, LaunchTypes, TaskTypes, BookTypes, Book, KeyInv,
             RoundInv, TypeOK
<1> QED BY <1>1, <1>2, LaunchInvariance, LaunchTypesStep, TaskTypesStep, BookTypesStep,
           KeyStep, RoundStep, PTL DEF Spec

-----------------------------------------------------------------------------
(* The book *)

(* A process that has not started its node knows no bridge, and one whose  *)
(* publisher runs knows at least what the file says, or what of it is too  *)
(* old to be kept.                                                         *)
BookInv ==
    /\ phase \in {"down", "starting"} => book = EmptyBook
    /\ subs # {} => pc # "off"
    /\ pc # "off" => DirectoryOn
    /\ Running /\ DirectoryOn /\ bookFile # Torn =>
          \A u \in Bridge : \/ bookFile[u].issued <= book[u].issued
                            \/ now - bookFile[u].issued > MaxAge

(* What a merge does to what was known of one bridge. *)
LEMMA MergeKeeps ==
    ASSUME BookTypes, NEW u \in Bridge, NEW t \in 1..now, t > book[u].issued,
           NEW v \in Bridge
    PROVE  /\ Merged(u, t)[v] # Unknown =>
                /\ Merged(u, t)[v].issued >= book[v].issued
                /\ book[v] # Unknown => Merged(u, t)[v].seen = book[v].seen
                /\ now - Merged(u, t)[v].issued <= MaxAge
           /\ Merged(u, t)[v].issued < book[v].issued => now - book[v].issued > MaxAge
<1> DEFINE seen == IF u \in InBook THEN book[u].seen ELSE now
           put == [book EXCEPT ![u] = [issued |-> t, seen |-> seen]]
<1>1. /\ book[v].issued \in 0..now /\ book[v].seen \in 0..now
      /\ MaxAge \in Nat /\ now \in Nat
      BY DirectoryAssumption DEF BookTypes, Book
<1>2. Merged(u, t)[v] = IF now - put[v].issued > MaxAge THEN Unknown ELSE put[v]
      BY DEF Merged
<1>3. CASE v = u
  <2>1. put[v] = [issued |-> t, seen |-> seen]
        BY <1>3 DEF BookTypes, Book
  <2>2. book[v] # Unknown => seen = book[v].seen
        BY <1>3 DEF InBook
  <2> HIDE DEF put, seen
  <2> QED BY <1>1, <1>2, <1>3, <2>1, <2>2 DEF Unknown
<1>4. CASE v # u
  <2>1. put[v] = book[v]
        BY <1>4 DEF BookTypes, Book
  <2> HIDE DEF put, seen
  <2> QED BY <1>1, <1>2, <2>1 DEF Unknown
<1> QED BY <1>3, <1>4

LEMMA BookStep ==
    ASSUME BookInv, BookTypes, LaunchInv, [Next]_vars
    PROVE  BookInv'
<1> USE DEF BookInv
<1>1. CASE UNCHANGED <<phase, env, now, pc, book, bookFile>> /\ (subs' # {} => pc' # "off")
      BY <1>1 DEF Running, DirectoryOn
<1>2. CASE Exits
      BY <1>2 DEF Exits, FreshTask, Running
<1>3. ASSUME NEW i \in Installations, Launch(i) PROVE BookInv'
      BY <1>3 DEF Launch, Running, LaunchInv, Passed, Serves, taskVars, diskVars
<1>4. CASE NodeStarts
  <2>1. /\ UNCHANGED <<env, now, bookFile, subs>> /\ phase = "starting" /\ pc = "off"
        /\ pc' # "off" => env.directory /\ env.publicUrl = "wss"
        /\ book' = IF DirectoryOn THEN Loaded ELSE EmptyBook
        /\ phase' \in {"gate", "open"}
        BY <1>4 DEF NodeStarts, Publishes, diskVars, LaunchInv, Passed, Serves
  <2>2. DirectoryOn' = DirectoryOn
        BY <2>1 DEF DirectoryOn
  <2>3. pc' # "off" => DirectoryOn
        BY <2>1 DEF DirectoryOn
  <2>4. ASSUME DirectoryOn, bookFile # Torn, NEW u \in Bridge
        PROVE  bookFile'[u].issued <= book'[u].issued
    <3>1. book' = bookFile /\ bookFile' = bookFile /\ bookFile \in Book
          BY <2>1, <2>4 DEF Loaded, BookTypes
    <3>2. bookFile[u].issued \in Int
          BY <3>1 DEF Book, BookTypes
    <3> QED BY <3>1, <3>2
  <2> QED BY <2>1, <2>2, <2>3, <2>4
<1>5. CASE GateOpens
  <2>1. /\ UNCHANGED <<env, now, bookFile, subs, book>>
        /\ phase = "gate" /\ phase' = "open"
        /\ pc' = pc \/ (env.directory /\ env.publicUrl = "wss")
        /\ pc = "off"
        BY <1>5 DEF GateOpens, Publishes, diskVars, LaunchInv, Passed, Serves
  <2>2. DirectoryOn' = DirectoryOn /\ Running /\ Running'
        BY <2>1 DEF DirectoryOn, Running
  <2>3. pc' # "off" => DirectoryOn
        BY <2>1 DEF DirectoryOn
  <2> QED BY <2>1, <2>2, <2>3
<1>6. CASE Signal \/ PeerLeft
  <2>1. /\ UNCHANGED <<env, now, book, bookFile, pc>>
        /\ Running /\ Running' /\ phase' \in {"leaving", "closing"}
        /\ subs' \in {{}, subs}
        BY <1>6 DEF Signal, PeerLeft, Leaves, Running, StopPublisher, diskVars,
                    directoryVars, taskVars
  <2>2. DirectoryOn' = DirectoryOn
        BY <2>1 DEF DirectoryOn
  <2> QED BY <2>1, <2>2
<1>7. CASE Hour /\ UNCHANGED launchVars
  <2>1. /\ now' = now + 1 /\ UNCHANGED <<phase, env, book, bookFile, pc, subs>>
        BY <1>7 DEF Hour, diskVars, launchVars
  <2>2. DirectoryOn' = DirectoryOn /\ Running' = Running
        BY <2>1 DEF DirectoryOn, Running
  <2>3. ASSUME bookFile # Torn, NEW u \in Bridge, now - bookFile[u].issued > MaxAge
        PROVE  now' - bookFile'[u].issued > MaxAge
    <3>1. bookFile[u].issued \in 0..now /\ now \in Nat /\ MaxAge \in Nat
          BY <2>3, DirectoryAssumption DEF BookTypes, Book
    <3> QED BY <2>1, <2>3, <3>1
  <2> QED BY <2>1, <2>2, <2>3
<1>8. ASSUME NEW u \in Advertisers, NEW t \in Issued, Learn(u, t), Alive
      PROVE  BookInv'
  <2>1. /\ now' = now /\ book' = Merged(u, t) /\ bookFile' \in {book', bookFile, Torn}
        /\ UNCHANGED <<phase, env, pc, subs>> /\ subs # {} /\ t > book[u].issued
        BY <1>8 DEF Learn, Saves, Alive, launchVars, taskVars
  <2>2. u \in Bridge /\ t \in 1..now
        BY DirectoryAssumption DEF Issued
  <2>3. DirectoryOn' = DirectoryOn /\ Running' = Running /\ Running /\ DirectoryOn
        BY <1>8, <2>1 DEF DirectoryOn, Running, Alive
  <2>4. phase \notin {"down", "starting"}
        BY <2>3 DEF Running
  <2>5. ASSUME bookFile' # Torn, NEW v \in Bridge
        PROVE  \/ bookFile'[v].issued <= book'[v].issued
               \/ now' - bookFile'[v].issued > MaxAge
    <3>1. book'[v].issued \in Int
          BY <2>1, <2>2, MergeKeeps DEF Merged, Unknown, BookTypes, Book
    <3>2. CASE bookFile' = book'
          BY <3>1, <3>2
    <3>3. CASE bookFile' = bookFile
      <4>1. bookFile[v].issued \in 0..now /\ book[v].issued \in 0..now
            /\ now \in Nat /\ MaxAge \in Nat
            BY <2>5, <3>3, DirectoryAssumption DEF BookTypes, Book
      <4>2. \/ bookFile[v].issued <= book[v].issued
            \/ now - bookFile[v].issued > MaxAge
            BY <2>3, <2>5, <3>3
      <4>3. book'[v].issued < book[v].issued => now - book[v].issued > MaxAge
            BY <2>1, <2>2, MergeKeeps
      <4> QED BY <2>1, <3>1, <3>3, <4>1, <4>2, <4>3
    <3> QED BY <2>1, <2>5, <3>2, <3>3
  <2> QED BY <2>1, <2>3, <2>4, <2>5
<1>9. CASE DirectoryStep
  <2>1. UNCHANGED launchVars /\ Alive /\ DirectoryNext
        BY <1>9 DEF DirectoryStep, Alive
  <2>2. UNCHANGED <<phase, env>>
        BY <2>1 DEF launchVars
  <2>3. ASSUME NEW c \in Caller, NEW r \in Region, Publish(c, r) PROVE BookInv'
        BY <1>1, <2>2, <2>3 DEF Publish, diskVars
  <2>4. CASE Heartbeat \/ Meshed
        BY <1>1, <2>2, <2>4 DEF Heartbeat, Meshed, taskVars, diskVars
  <2>5. CASE EnsureAuthor \/ Poll \/ DeclareClass \/ Subscribe
    <3>1. /\ UNCHANGED <<now, book, bookFile>> /\ pc # "off" /\ pc' # "off"
          BY <2>5 DEF EnsureAuthor, Poll, DeclareClass, Subscribe, diskVars
    <3>2. DirectoryOn' = DirectoryOn /\ Running' = Running
          BY <2>2 DEF DirectoryOn, Running
    <3> QED BY <2>2, <3>1, <3>2
  <2> QED BY <1>7, <1>8, <2>1, <2>3, <2>4, <2>5 DEF DirectoryNext
<1>10. CASE Probe \/ NoSeedLeft \/ TransportStarts
       BY <1>1, <1>10 DEF Probe, NoSeedLeft, TransportStarts, directoryVars, taskVars, diskVars
<1>11. CASE HourDown
       BY <1>7, <1>11 DEF HourDown
<1>12. CASE UNCHANGED vars
       BY <1>1, <1>12 DEF vars, launchVars, directoryVars, taskVars, diskVars
<1> QED BY <1>2, <1>3, <1>4, <1>5, <1>6, <1>9, <1>10, <1>11, <1>12
        DEF Next, NodeRefuses, GateExits, ShutDown, Crash

(* What is known of a bridge never goes back, in memory or on disk.        *)
THEOREM BookIsMonotone == Spec => BookMovesForward
<1> DEFINE Memory == phase # "down" /\ phase' # "down" =>
                        \A u \in InBook : book'[u] # Unknown =>
                           /\ book'[u].issued >= book[u].issued
                           /\ book'[u].seen = book[u].seen
           Disk == Torn \notin {bookFile, bookFile'} =>
                      \A u \in Bridge : bookFile'[u] # Unknown =>
                         bookFile'[u].issued >= bookFile[u].issued
<1>1. Init => BookTypes
      BY DirectoryAssumption DEF Init, InitDirectory, BookTypes, Book, EmptyBook, Unknown
<1>2. Init => BookInv
      BY DEF Init, InitDirectory, BookInv, Running
<1>3. ASSUME BookInv, BookTypes, LaunchInv, [Next]_vars
      PROVE  Memory /\ Disk
  <2>1. ASSUME UNCHANGED book PROVE Memory
    <3> SUFFICES ASSUME NEW u \in InBook PROVE book[u].issued >= book[u].issued
        BY <2>1
    <3> QED BY <1>3 DEF InBook, BookTypes, Book
  <2>2. ASSUME UNCHANGED bookFile PROVE Disk
    <3> SUFFICES ASSUME bookFile # Torn, NEW u \in Bridge
                 PROVE  bookFile[u].issued >= bookFile[u].issued
        BY <2>2
    <3> QED BY <1>3 DEF BookTypes, Book
  <2>3. CASE Exits
    <3>1. phase' = "down" /\ UNCHANGED bookFile
          BY <2>3 DEF Exits, diskVars
    <3> QED BY <2>2, <3>1
  <2>4. CASE NodeStarts
    <3>1. phase = "starting" /\ UNCHANGED bookFile
          BY <2>4 DEF NodeStarts, diskVars
    <3>2. InBook = {}
          BY <1>3, <3>1 DEF BookInv, InBook, EmptyBook
    <3> QED BY <2>2, <3>1, <3>2
  <2>5. ASSUME NEW u \in Advertisers, NEW t \in Issued, Learn(u, t), Alive
        PROVE  Memory /\ Disk
    <3>1. /\ book' = Merged(u, t) /\ bookFile' \in {book', bookFile, Torn}
          /\ subs # {} /\ t > book[u].issued
          BY <2>5 DEF Learn, Saves
    <3>2. u \in Bridge /\ t \in 1..now
          BY DirectoryAssumption DEF Issued
    <3>3. Running /\ DirectoryOn
          BY <1>3, <2>5, <3>1 DEF Running, Alive, BookInv
    <3>4. Memory
          BY <1>3, <3>1, <3>2, MergeKeeps DEF InBook
    <3>5. ASSUME bookFile' = book' PROVE Disk
      <4> SUFFICES ASSUME bookFile # Torn, NEW v \in Bridge, book'[v] # Unknown
                   PROVE  book'[v].issued >= bookFile[v].issued
          BY <3>5
      <4>1. /\ bookFile[v].issued \in 0..now /\ book[v].issued \in 0..now
            /\ now \in Nat /\ MaxAge \in Nat
            BY <1>3, DirectoryAssumption DEF BookTypes, Book
      <4>2. /\ book'[v].issued >= book[v].issued
            /\ now - book'[v].issued <= MaxAge
            BY <1>3, <3>1, <3>2, MergeKeeps
      <4>3. \/ bookFile[v].issued <= book[v].issued
            \/ now - bookFile[v].issued > MaxAge
            BY <1>3, <3>3 DEF BookInv
      <4>4. book'[v].issued \in Int
            BY <1>3, <3>1, <3>2 DEF Merged, Unknown, BookTypes, Book
      <4> QED BY <4>1, <4>2, <4>3, <4>4
    <3> QED BY <2>2, <3>1, <3>4, <3>5
  <2>6. CASE DirectoryStep
    <3>1. ASSUME NEW c \in Caller, NEW r \in Region, Publish(c, r)
          PROVE  UNCHANGED <<book, bookFile>>
          BY <3>1 DEF Publish, diskVars
    <3>2. CASE Heartbeat \/ EnsureAuthor \/ Poll \/ DeclareClass \/ Subscribe \/ Meshed \/ Hour
          BY <2>1, <2>2, <3>2 DEF Heartbeat, EnsureAuthor, Poll, DeclareClass, Subscribe,
                                  Meshed, Hour, diskVars
    <3> QED BY <2>1, <2>2, <2>5, <2>6, <3>1, <3>2 DEF DirectoryStep, DirectoryNext
  <2>7. ASSUME NEW i \in Installations, Launch(i) PROVE UNCHANGED <<book, bookFile>>
        BY <2>7 DEF Launch, diskVars
  <2>8. CASE Probe \/ NoSeedLeft \/ TransportStarts \/ GateOpens \/ Signal \/ PeerLeft
             \/ HourDown \/ UNCHANGED vars
        BY <2>1, <2>2, <2>8 DEF Probe, NoSeedLeft, TransportStarts, GateOpens, Signal,
           PeerLeft, HourDown, Hour, vars, directoryVars, diskVars
  <2> QED BY <1>3, <2>1, <2>2, <2>3, <2>4, <2>6, <2>7, <2>8
          DEF Next, NodeRefuses, GateExits, ShutDown, Crash
<1>4. ASSUME BookInv, BookTypes, LaunchInv, [Next]_vars
      PROVE  [Memory /\ Disk]_vars
      BY <1>3, <1>4
<1> QED BY <1>1, <1>2, <1>4, BookTypesStep, BookStep, LaunchInvariance, PTL
        DEF Spec, BookMovesForward
=============================================================================
