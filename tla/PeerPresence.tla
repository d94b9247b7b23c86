---------------------------- MODULE PeerPresence ----------------------------
(***************************************************************************)
(* What the door promises, with the sockets, frames and timers taken away: *)
(* a presence service.  Peers become present and stop being present; a     *)
(* peer that watches knows some of the present ones.  A newcomer's arrival *)
(* is known to every watcher at once, a departure is forgotten by every    *)
(* watcher at once, and no watcher ever knows a peer that is not present.  *)
(* BridgeDoor implements it with queued, ordered frames.                   *)
(***************************************************************************)
CONSTANT Peer

VARIABLES present,   \* the peers at the door
          watching,  \* those of them that hear of arrivals and departures
          knows      \* what each watcher knows

pvars == <<present, watching, knows>>

PInit == /\ present = {}
         /\ watching = {}
         /\ knows = [p \in Peer |-> {}]

(* A peer arrives; if it is announced, every watcher learns of it, and if  *)
(* it watches, it is handed some of the peers present.                     *)
Arrive(p, announced, watches, L) ==
    /\ p \notin present
    /\ L \subseteq present
    /\ present' = present \cup {p}
    /\ watching' = IF watches THEN watching \cup {p} ELSE watching
    /\ knows' = [x \in Peer |->
                    IF x = p THEN (IF watches THEN L ELSE {})
                    ELSE IF announced /\ x \in watching THEN knows[x] \cup {p}
                    ELSE knows[x]]

(* A watcher is handed more of the peers present. *)
Refresh(p, L) ==
    /\ p \in watching
    /\ L \subseteq present \ {p}
    /\ knows' = [knows EXCEPT ![p] = @ \cup L]
    /\ UNCHANGED <<present, watching>>

(* A peer's departure begins: it hears nothing more, and is still present. *)
Fade(p) ==
    /\ p \in watching
    /\ watching' = watching \ {p}
    /\ knows' = [knows EXCEPT ![p] = {}]
    /\ UNCHANGED present

(* A peer leaves; every watcher forgets it. *)
Leave(p) ==
    /\ p \in present
    /\ present' = present \ {p}
    /\ watching' = watching \ {p}
    /\ knows' = [x \in Peer |-> IF x = p THEN {} ELSE knows[x] \ {p}]

PNext == \E p \in Peer :
            \/ \E announced, watches \in BOOLEAN, L \in SUBSET Peer :
                  Arrive(p, announced, watches, L)
            \/ \E L \in SUBSET Peer : Refresh(p, L)
            \/ Fade(p)
            \/ Leave(p)

PSpec == PInit /\ [][PNext]_pvars

(* A watcher knows only peers that are present, never itself, and only     *)
(* present peers watch.                                                    *)
PresenceInv == /\ watching \subseteq present
               /\ present \subseteq Peer
               /\ \A x \in Peer : knows[x] \subseteq present \ {x}
=============================================================================
