-------------------------------- MODULE Arming --------------------------------
(***************************************************************************)
(* What a bridge makes of its environment before it serves                 *)
(* (src/fill_arming.js; poolsFromEnv of src/uplink.js; the resolver and    *)
(* the kernel's surfaces in src/socket_bootstrap.js; assertRegionApplied   *)
(* of src/identity.js).  Pure decisions: the start-up that acts on them is *)
(* BridgeLaunch.                                                           *)
(*                                                                         *)
(* A numeric variable is its form and its number: "digits" are all digits, *)
(* "loose" is what parseInt reads all the same ('12x', '1.5', '-5'),       *)
(* "junk" is what it does not.                                             *)
(***************************************************************************)
EXTENDS Integers

CONSTANTS DefaultCap,  \* BRIDGE_MAX_PEERS when absent
          MaxSafe      \* Number.MAX_SAFE_INTEGER

ASSUME ArmingAssumption == DefaultCap \in Nat /\ MaxSafe \in Nat

Module == {"maintain", "guard", "gate"}
Raw == [form : {"absent", "digits", "loose", "junk"}, n : Int]
Absent == [form |-> "absent", n |-> 0]

Kernels == [modules : SUBSET Module,  \* what the pinned kernel builds
            surfaces : BOOLEAN,       \* what the door mesh needs is there
            regions : BOOLEAN]        \* BRIDGE_REGION is honoured

(* parseInt, with 0 for NaN: both leave the cap off. *)
Parsed(raw) == IF raw.form \in {"digits", "loose"} THEN raw.n ELSE 0

(* legacyMeshCap: an absent mesh cap inherits the door's. *)
WsCap(env) == IF env.maxPeers.form = "absent" THEN DefaultCap
                                              ELSE Parsed(env.maxPeers)
LegacyMeshCap(env) ==
    LET cap == IF env.meshMax.form = "absent" THEN WsCap(env)
                                              ELSE Parsed(env.meshMax)
    IN  IF cap > 0 THEN cap ELSE 0

(* strictCap, with 0 for null. *)
StrictCap(raw) == IF raw.form = "digits" /\ raw.n \in 1..MaxSafe THEN raw.n ELSE 0

Armed(env) == env.arms = Module

(* Fault: maintenance alone is let through (the storm of 2026-06-29). *)
CoherentUnasked(env) == TRUE

(* assertArmingCoherent: no maintenance without the guard and the gate. *)
Coherent(env) == "maintain" \in env.arms => {"guard", "gate"} \subseteq env.arms

(* resolveFillArming and resolveSocketBootstrap in the constructor: what   *)
(* they throw at ends the process.                                         *)
Constructs(env) == /\ Coherent(env)
                   /\ Armed(env) => StrictCap(env.meshMax) # 0
                   /\ env.socketBootstrap # "malformed"

(* `cap', the fill's target: the kernel's own default when not armed. *)
FillTarget(env) == IF Armed(env) THEN StrictCap(env.meshMax) ELSE 0

(* Fault: the retire threshold is read a second time, where it always was. *)
MeshCapTwice(env) == WsCap(env)

(* `meshCap', the mesh's retire threshold; 0 for none. *)
MeshCap(env) == IF Armed(env) THEN StrictCap(env.meshMax) ELSE LegacyMeshCap(env)

(* assertArmedModules and assertRegionApplied. *)
ModulesLanded(env, kernel) == env.arms \subseteq kernel.modules
RegionApplied(env, kernel) ==
    \/ env.region = "none"
    \/ env.region = "bridge" /\ kernel.regions

(* poolsFromEnv: one cap, one source. *)
PoolsOk(env) == \/ env.pools.form = "absent"
                \/ /\ env.pools.form = "named"
                   /\ MeshCap(env) > 0 => env.pools.M = MeshCap(env)

(* assertKernelSurfaces, asked with the flag on only. *)
SurfacesOk(env, kernel) == env.socketBootstrap = "on" => kernel.surfaces
=============================================================================
