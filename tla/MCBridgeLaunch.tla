---------------------------- MODULE MCBridgeLaunch ----------------------------
(***************************************************************************)
(* A bridge with two others, one a default and one an operator may name,   *)
(* over two launches, in the environments an operator may give it.         *)
(***************************************************************************)
EXTENDS BridgeLaunch, TLC

CONSTANTS prod, test, us, them, system

MCRegionOf == prod :> them @@ test :> us

Digits(n) == [form |-> "digits", n |-> n]
NoPools == [form |-> "absent", M |-> 0]

\* A public bridge in the default mode.
Public == [arms |-> {}, maxPeers |-> Absent, meshMax |-> Absent, pools |-> NoPools,
           socketBootstrap |-> "off", region |-> "none", only |-> FALSE,
           directory |-> TRUE, publicUrl |-> "wss", seeds |-> <<test>>]

\* One that is to join the named bridge only, or itself only.
Named == [Public EXCEPT !.only = TRUE]
Alone == [Public EXCEPT !.only = TRUE, !.seeds = <<Self>>, !.socketBootstrap = "on"]

\* Bridges off the directory, with more or less of the fill and the flag.
Quiet == [Named EXCEPT !.directory = FALSE, !.publicUrl = "absent",
                       !.maxPeers = Digits(3)]
Testnet == [Quiet EXCEPT !.only = FALSE]
Arms == {[Quiet EXCEPT !.arms = a, !.meshMax = m] :
            a \in {{}, {"maintain"}, {"guard"}, Module},
            m \in {Absent, Digits(2), Digits(0), Digits(9), [form |-> "loose", n |-> 2]}}
Pooled == {[Quiet EXCEPT !.arms = Module, !.meshMax = Digits(2), !.pools = p] :
            p \in {[form |-> "malformed", M |-> 0]} \cup [form : {"named"}, M : 2..3]}
Flagged == {[Quiet EXCEPT !.socketBootstrap = f, !.region = r] :
            f \in {"on", "malformed"}, r \in {"none", "bridge", "elsewhere"}}

Full == [modules |-> Module, surfaces |-> TRUE, regions |-> TRUE]
MCInstallations ==
    [env : {Public, Named, Alone, Testnet}, kernel : {Full}]
    \cup [env : Arms, kernel : {Full, [Full EXCEPT !.modules = {"maintain", "guard"}]}]
    \cup [env : Pooled, kernel : {Full}]
    \cup [env : Flagged, kernel : {Full, [Full EXCEPT !.surfaces = FALSE],
                                       [Full EXCEPT !.regions = FALSE]}]
=============================================================================
