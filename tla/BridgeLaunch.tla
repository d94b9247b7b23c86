----------------------------- MODULE BridgeLaunch -----------------------------
(***************************************************************************)
(* A bridge from launch to exit, and launched again: what it refuses       *)
(* (Arming), the node it starts, the isolation gate, the outbound uplink   *)
(* to another bridge, the directory publisher (BridgeDirectory) and the    *)
(* shutdown.  Sources: src/server.js 742-889 and 1799-1866, start() and    *)
(* startUplink() of src/bridge_axona_node.js, src/uplink.js,               *)
(* src/uplink_policy.js.                                                   *)
(*                                                                         *)
(* The two files of the state directory are all that a process leaves to   *)
(* the next one.  Environment and kernel are chosen at each launch: they   *)
(* are what an operator may change between two of them.                    *)
(***************************************************************************)
EXTENDS Arming, BridgeDirectory, Sequences

CONSTANTS Installations, \* an environment and a kernel to launch with, in pairs
          Self,        \* BRIDGE_PUBLIC_URL, when there is one
          NoUrl,
          Defaults,    \* DEFAULT_UPSTREAMS
          MaxLaunches  \* bound on the launches

ASSUME LaunchAssumption ==
    /\ Self \notin Bridge /\ NoUrl \notin Bridge \cup {Self}
    /\ Defaults \subseteq Bridge
    /\ IsFiniteSet(Bridge)
    /\ MaxTime > 0 /\ MaxLaunches \in Nat
    /\ \A i \in Installations : /\ i.kernel \in Kernels
                                /\ i.env.arms \subseteq Module
                                /\ {i.env.maxPeers, i.env.meshMax} \subseteq Raw
                                /\ i.env.seeds \in Seq(Bridge \cup {Self})

VARIABLES phase,     \* "down", "starting", "gate", "open", "leaving", "closing"
          env,       \* process.env
          kernel,    \* the installed kernel
          link,      \* startUplink: "off", "probing", "starting", "up", "none"
          seeds,     \* the candidates it has yet to probe
          upstream,  \* what the one that answered is, or NoUrl
          dialed,    \* history: what this process has tried to open
          target,    \* node._maxSynaptome, 0 for the kernel's own
          retire,    \* the mesh's degree cap, 0 for none
          launches

launchVars == <<phase, env, kernel, link, seeds, upstream, dialed, target, retire,
                launches>>
vars == <<launchVars, directoryVars>>

DirectoryOn == env.directory /\ env.publicUrl # "absent"
SelfUrl == IF env.publicUrl = "absent" THEN NoUrl ELSE Self
EnvSeeds == {env.seeds[i] : i \in DOMAIN env.seeds}

Init == /\ InitDirectory
        /\ phase = "down"
        /\ \E i \in Installations : env = i.env /\ kernel = i.kernel
        /\ link = "off"
        /\ seeds = <<>>
        /\ upstream = NoUrl
        /\ dialed = {}
        /\ target = 0
        /\ retire = 0
        /\ launches = 0

-----------------------------------------------------------------------------
(* The start *)

(* What every end of a process comes to: only the disk is left. *)
Exits == /\ phase' = "down"
         /\ link' = "off"
         /\ seeds' = <<>>
         /\ upstream' = NoUrl
         /\ dialed' = {}
         /\ target' = 0
         /\ retire' = 0
         /\ book' = EmptyBook
         /\ offered' = {}
         /\ FreshTask
         /\ UNCHANGED <<env, kernel, launches, now, bootAt, meshed, diskVars, signers>>

(* The constructor of BridgeAxonaNode, which may throw at the environment. *)
Launch(i) ==
    /\ phase = "down" /\ launches < MaxLaunches
    /\ launches' = launches + 1
    /\ env' = i.env /\ kernel' = i.kernel
    /\ phase' = IF Constructs(i.env) THEN "starting" ELSE "down"
    /\ bootAt' = now
    /\ meshed' = FALSE
    /\ UNCHANGED <<link, seeds, upstream, dialed, target, retire, now, taskVars,
                   diskVars, book, offered, signers>>

(* Fault: the book and the defaults are candidates whatever the mode. *)
CandidatesAnyway(b) ==
    LET urls == EnvSeeds \cup Defaults \cup {u \in Bridge : b[u] # Unknown}
    IN  {s \in [1..Cardinality(urls \ {SelfUrl}) -> urls \ {SelfUrl}] :
            \A i, j \in DOMAIN s : s[i] = s[j] => i = j}

(* resolveSeeds, as the candidate lists the ranking may give: in the       *)
(* upstreams-only mode the named seeds in their order, else those, the     *)
(* defaults and the book's, in an order that is the kernel's affair.       *)
Candidates(b) ==
    LET Listed(urls) == {s \in [1..Cardinality(urls) -> urls] :
                            \A i, j \in DOMAIN s : s[i] = s[j] => i = j}
        First(u) == CHOOSE i \in DOMAIN env.seeds :
                       /\ env.seeds[i] = u
                       /\ \A j \in 1..(i - 1) : env.seeds[j] # u
    IN  IF env.only
        THEN {s \in Listed(EnvSeeds \ {SelfUrl}) :
                 \A i, j \in DOMAIN s : i < j => First(s[i]) < First(s[j])}
        ELSE Listed((EnvSeeds \cup Defaults \cup {u \in Bridge : b[u] # Unknown})
                       \ {SelfUrl})

(* startUplink is called, with the book in the default mode. *)
Dials(b) == link' = "probing" /\ seeds' \in Candidates(b)

(* The publisher starts on a wss url; the heartbeat with it. *)
Publishes == IF env.directory /\ env.publicUrl = "wss"
             THEN pc' = "author"
             ELSE pc' = pc

(* start(): the identity, the node with its cap, the peer with the modules *)
(* asked for; then the book, and the gate or the publisher, the background *)
(* uplink and the listening socket, all in one go.                         *)
NodeStarts ==
    /\ phase = "starting"
    /\ RegionApplied(env, kernel) /\ ModulesLanded(env, kernel)
    /\ target' = FillTarget(env)
    /\ book' = IF DirectoryOn THEN Loaded ELSE EmptyBook
    /\ IF env.only
       THEN phase' = "gate" /\ Dials(EmptyBook) /\ UNCHANGED pc
       ELSE /\ phase' = "open"
            /\ Publishes
            /\ IF DirectoryOn THEN Dials(book') ELSE UNCHANGED <<link, seeds>>
    /\ UNCHANGED <<env, kernel, upstream, dialed, retire, launches, now, bootAt,
                   meshed, todo, beat, stopped, toSub, subs, held, author, diskVars,
                   offered, signers>>

(* assertRegionApplied or assertArmedModules throws at the top level. *)
NodeRefuses == /\ phase = "starting"
               /\ ~(RegionApplied(env, kernel) /\ ModulesLanded(env, kernel))
               /\ Exits

-----------------------------------------------------------------------------
(* The uplink *)

Running == phase \in {"gate", "open", "leaving", "closing"}

(* buildUplink after the probes: nothing to join and no mesh of its own, a *)
(* profile of pools refused (caught there), surfaces missing (thrown, and  *)
(* caught by either caller), or a transport built.                         *)
Builds(u) ==
    IF \/ u = NoUrl /\ env.socketBootstrap # "on"
       \/ ~PoolsOk(env)
       \/ ~SurfacesOk(env, kernel)
    THEN link' = "none" /\ UNCHANGED <<upstream, retire>>
    ELSE link' = "starting" /\ upstream' = u /\ retire' = MeshCap(env)

(* A probe answers, or does not within its four seconds. *)
Probe ==
    /\ Running /\ link = "probing" /\ seeds # <<>>
    /\ dialed' = dialed \cup {Head(seeds)}
    /\ \/ seeds' = <<>> /\ Builds(Head(seeds))
       \/ seeds' = Tail(seeds) /\ UNCHANGED <<link, upstream, retire>>
    /\ UNCHANGED <<phase, env, kernel, target, launches, directoryVars>>

NoSeedLeft ==
    /\ Running /\ link = "probing" /\ seeds = <<>>
    /\ Builds(NoUrl)
    /\ UNCHANGED <<phase, env, kernel, seeds, dialed, target, launches, directoryVars>>

(* transport.start() settles; a background uplink that is up publishes     *)
(* once more, on the mesh it has joined.                                   *)
TransportStarts ==
    /\ Running /\ link = "starting"
    /\ \/ /\ link' = "up"
          /\ todo' = IF ~env.only /\ upstream # NoUrl /\ pc # "off"
                     THEN Round("post-uplink") ELSE todo
          /\ UNCHANGED <<upstream, retire>>
       \/ /\ link' = "none" /\ upstream' = NoUrl /\ retire' = 0
          /\ UNCHANGED todo
    /\ UNCHANGED <<phase, env, kernel, seeds, dialed, target, launches, now, bootAt,
                   meshed, pc, beat, stopped, toSub, subs, held, author, diskVars,
                   book, offered, signers>>

-----------------------------------------------------------------------------
(* The isolation gate *)

(* Fault: a mesh of its own is taken for an upstream. *)
JoinedAnything == link = "up"

(* startUplink's answer. *)
Joined == link = "up" /\ upstream # NoUrl

GateOpens ==
    /\ phase = "gate" /\ Joined
    /\ phase' = "open"
    /\ Publishes
    /\ UNCHANGED <<env, kernel, link, seeds, upstream, dialed, target, retire, launches,
                   now, bootAt, meshed, todo, beat, stopped, toSub, subs, held, author,
                   diskVars, book, offered, signers>>

(* process.exit(1) *)
GateExits == phase = "gate" /\ link \in {"up", "none"} /\ ~Joined /\ Exits

-----------------------------------------------------------------------------
(* The end *)

(* SIGTERM, for which there is a handler once the module has run. *)
Signal ==
    /\ phase = "open"
    /\ phase' = "leaving"
    /\ IF pc # "off" THEN StopPublisher ELSE UNCHANGED <<stopped, beat, subs>>
    /\ UNCHANGED <<env, kernel, link, seeds, upstream, dialed, target, retire, launches,
                   now, bootAt, meshed, pc, todo, toSub, held, author, diskVars, book,
                   offered, signers>>

(* Fault: the departure is awaited, with nothing to bound it. *)
LeavesUnbounded == FALSE

(* The race of peer.leave with its timer is over. *)
Leaves == phase = "leaving"

PeerLeft ==
    /\ Leaves
    /\ phase' = "closing"
    /\ UNCHANGED <<env, kernel, link, seeds, upstream, dialed, target, retire, launches,
                   directoryVars>>

(* The server has closed, or five seconds have passed. *)
ShutDown == phase = "closing" /\ Exits

(* Killed, or ended by a signal before there is a handler for it.  The     *)
(* moment within a write is that of a write that fails, and this after it. *)
Crash == phase # "down" /\ Exits

-----------------------------------------------------------------------------
(* The publisher and its surroundings, while the process runs. *)
Alive == phase \in {"open", "leaving", "closing"} /\ UNCHANGED launchVars

DirectoryStep == DirectoryNext /\ Alive

HourDown == phase = "down" /\ launches > 0 /\ Hour /\ UNCHANGED launchVars

Next ==
    \/ \E i \in Installations : Launch(i)
    \/ NodeStarts
    \/ NodeRefuses
    \/ Probe
    \/ NoSeedLeft
    \/ TransportStarts
    \/ GateOpens
    \/ GateExits
    \/ Signal
    \/ PeerLeft
    \/ ShutDown
    \/ Crash
    \/ DirectoryStep
    \/ HourDown

Spec == Init /\ [][Next]_vars

(* Timers bound each probe, the departure and the shutdown; the rest of    *)
(* the publisher's task is awaited, and runs while the process does.  A    *)
(* transport that starts is not among them: nothing here bounds its        *)
(* handshake.                                                              *)
Fairness == /\ WF_vars(Probe \/ NoSeedLeft)
            /\ WF_vars(GateOpens \/ GateExits)
            /\ WF_vars(PeerLeft)
            /\ WF_vars(ShutDown)
            /\ WF_vars(EnsureAuthor /\ Alive)
            /\ WF_vars(Poll /\ Alive)
            /\ WF_vars((\E r \in Region : Publish("established", r)) /\ Alive)

FairSpec == Spec /\ Fairness

-----------------------------------------------------------------------------
(* Properties *)

\* The types of the variables of a bridge and of its files.
TypeOK ==
    /\ phase \in {"down", "starting", "gate", "open", "leaving", "closing"}
    /\ \E i \in Installations : env = i.env /\ kernel = i.kernel
    /\ link \in {"off", "probing", "starting", "up", "none"}
    /\ seeds \in Seq(Bridge \cup {Self})
    /\ upstream \in Bridge \cup {Self, NoUrl}
    /\ dialed \subseteq Bridge \cup {Self}
    /\ {target, retire, minted} \subseteq Nat
    /\ launches \in 0..MaxLaunches
    /\ now \in 1..MaxTime /\ bootAt \in 1..now
    /\ pc \in {"off", "author", "waiting", "publishing", "subscribing", "ended"}
    /\ {meshed, beat, stopped, held} \subseteq BOOLEAN
    /\ todo \in [Caller -> SUBSET Region]
    /\ {toSub, subs, offered} \subseteq SUBSET Region
    /\ author \in 1..minted \cup {NoKey}
    /\ authorFile \in 1..minted \cup {NoKey, Torn}
    /\ signers \subseteq 1..minted
    /\ book \in [Bridge -> [issued : 0..now, seen : 0..now]]
    /\ bookFile = Torn \/ bookFile \in [Bridge -> [issued : 0..now, seen : 0..now]]

\* A bridge that names its upstreams never opens a socket to any other
\* bridge, whatever an earlier launch in the default mode has learnt and
\* saved, and until it has joined one of them it neither listens nor
\* advertises (the isolation gate; uplink_policy.js).
Isolated ==
    env.only =>
        /\ dialed \subseteq EnvSeeds \ {SelfUrl}
        /\ phase \in {"open", "leaving", "closing"} \/ pc # "off" =>
              link = "up" /\ upstream \in EnvSeeds \ {SelfUrl}

\* A filling bridge has one ceiling: what the fill aims at, what the mesh
\* retires above and what a profile of pools says are the same number, the
\* one that is written in the environment (ONE CAP, fill_arming.js).
OneCap ==
    link = "up" /\ env.arms = Module =>
        /\ target = env.meshMax.n /\ retire = target /\ target > 0
        /\ env.pools.form # "absent" => env.pools.M = target

\* A bridge that serves is what its operator asked for: maintenance runs
\* with the guard and the gate only, every module asked for has landed, the
\* region is honoured, and a mesh under the socket-bootstrap flag has the
\* surfaces of the kernel that the flag needs.
FailsClosed ==
    phase \in {"open", "leaving", "closing"} =>
        /\ "maintain" \in env.arms => {"guard", "gate"} \subseteq env.arms
        /\ env.arms \subseteq kernel.modules
        /\ env.region # "none" => kernel.regions
        /\ link = "up" /\ env.socketBootstrap = "on" => kernel.surfaces

\* What serves is what was asked for: the two, which meet in an armed
\* bridge's mesh.
ServesAsAsked == OneCap /\ FailsClosed

\* Over any number of launches, crashes and failed writes a bridge signs its
\* entries with one key: a client can tell that it is the same bridge.
AuthorIsDurable == Cardinality(signers) <= 1

\* What is known of a bridge never goes back, in the process that runs and
\* in the file across restarts and saves that fail: a later entry replaces
\* an earlier one, and the tenure it was first seen with is kept until the
\* entry is too old to be kept at all.
BookMovesForward ==
    [][/\ phase # "down" /\ phase' # "down" =>
             \A u \in InBook : book'[u] # Unknown =>
                /\ book'[u].issued >= book[u].issued
                /\ book'[u].seen = book[u].seen
       /\ Torn \notin {bookFile, bookFile'} =>
             \A u \in Bridge : bookFile'[u] # Unknown =>
                bookFile'[u].issued >= bookFile[u].issued]_vars

\* No entry is published within MinUptime of the launch, whichever of the
\* three callers asks and whatever the uplink has come to (the incident of
\* 2026-07-27: a bridge alone in its mesh is terminal for its own topic).
EstablishedFirst ==
    [][offered' # offered /\ phase' # "down" => now - bootAt >= MinUptime]_vars

\* A launch decides on its uplink however many seeds are silent, and a
\* shutdown that has begun ends.
NothingLingers == /\ link = "probing" ~> link # "probing"
                  /\ phase = "leaving" ~> phase = "down"

\* A bridge that has a key, and stays up and established, advertises itself
\* in the directory's home and in its own region: polling for peers is not
\* given up, and neither are the regions of a round.
Advertised ==
    <>[](phase = "open" /\ Established /\ author # NoKey)
        => <>[]({Home, Own} \subseteq offered)
=============================================================================
