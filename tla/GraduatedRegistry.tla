-------------------------- MODULE GraduatedRegistry --------------------------
(***************************************************************************)
(* The registry of graduated identities (src/graduated_registry.js): a Map *)
(* in insertion order.  A graduation removes the identity's old entry and  *)
(* appends a new one, the oldest entry is evicted above the bound, and a   *)
(* sweep from the front removes the entries that have expired.  Every      *)
(* sample sweeps first.  The order of insertion is a rank; the clock does  *)
(* not run backwards.                                                      *)
(***************************************************************************)
EXTENDS Naturals, FiniteSets

CONSTANTS Node,
          LReg,      \* lRegMs
          MReg,      \* mReg
          RSample,   \* rSample
          MaxTime,   \* bound on the clock
          MaxNotes   \* bound on the graduations

ASSUME RegistryAssumption == /\ {LReg, MReg, RSample} \subseteq Nat \ {0}
                             /\ RSample <= MReg
                             /\ IsFiniteSet(Node)
                             /\ {MaxTime, MaxNotes} \subseteq Nat

VARIABLES now,     \* Date.now()
          reg,     \* the identities in _map
          at,      \* the time stored with each, kept as history when it leaves
          rank,    \* the order of insertion, likewise; 0 for never
          notes,   \* how many insertions there were
          answer   \* the last sample

entries == <<reg, at, rank, notes>>
vars == <<now, entries, answer>>

Init == /\ now = 1
        /\ reg = {}
        /\ at = [n \in Node |-> 0]
        /\ rank = [n \in Node |-> 0]
        /\ notes = 0
        /\ answer = {}

(* The entries of S that were inserted first. *)
Oldest(S) == {n \in S : \A m \in S : rank[n] <= rank[m]}

(* Faults: the bound is off by one; the bound is asked before the old      *)
(* entry is removed.                                                       *)
NoteOneMore(n) ==
    /\ notes < MaxNotes
    /\ notes' = notes + 1
    /\ at' = [at EXCEPT ![n] = now]
    /\ rank' = [rank EXCEPT ![n] = notes + 1]
    /\ LET kept == reg \ {n}
       IN  reg' = (IF Cardinality(kept) <= MReg THEN kept
                   ELSE kept \ Oldest(kept)) \cup {n}
    /\ UNCHANGED <<now, answer>>
NoteEvictsFirst(n) ==
    /\ notes < MaxNotes
    /\ notes' = notes + 1
    /\ at' = [at EXCEPT ![n] = now]
    /\ rank' = [rank EXCEPT ![n] = notes + 1]
    /\ LET kept == reg \ {n}
       IN  reg' = (IF Cardinality(reg) < MReg THEN kept
                   ELSE kept \ Oldest(kept)) \cup {n}
    /\ UNCHANGED <<now, answer>>

(* note(): a new registration, and at most one eviction, for the registry  *)
(* was within its bound before.                                            *)
Note(n) ==
    /\ notes < MaxNotes
    /\ notes' = notes + 1
    /\ at' = [at EXCEPT ![n] = now]
    /\ rank' = [rank EXCEPT ![n] = notes + 1]
    /\ LET kept == reg \ {n}
       IN  reg' = (IF Cardinality(kept) < MReg THEN kept
                   ELSE kept \ Oldest(kept)) \cup {n}
    /\ UNCHANGED <<now, answer>>

(* prune(): entries are removed from the front, up to the first live one.  *)
Live(n) == now - at[n] < LReg
(* Fault: one entry at most is swept. *)
SweptOne == {n \in Oldest(reg) : ~Live(n)}

Swept == {n \in reg : \A m \in reg : rank[m] <= rank[n] => ~Live(m)}

(* sample(): the sweep, then at most RSample of the rest, never the        *)
(* newcomer itself (when its identity is known, Node otherwise).           *)
Sample(exclude) ==
    /\ reg' = reg \ Swept
    /\ LET pool == reg' \ exclude
       IN  \E S \in SUBSET pool :
              /\ Cardinality(S) = IF Cardinality(pool) < RSample
                                  THEN Cardinality(pool) ELSE RSample
              /\ answer' = S
    /\ UNCHANGED <<now, at, rank, notes>>

Tick == /\ now < MaxTime
        /\ now' = now + 1
        /\ answer' = {}
        /\ UNCHANGED entries

Next == \/ Tick
        \/ \E n \in Node : Note(n)
        \/ \E exclude \in {{}} \cup {{n} : n \in Node} : Sample(exclude)

Spec == Init /\ [][Next]_vars

-----------------------------------------------------------------------------
(* Properties *)

(* Every variable keeps its type. *)
TypeOK == /\ now \in 1..(MaxTime + 1)
          /\ reg \subseteq Node
          /\ at \in [Node -> Nat]
          /\ rank \in [Node -> Nat]
          /\ notes \in 0..MaxNotes
          /\ answer \subseteq Node

(* The registry keeps its bound, though the eviction precedes no insertion *)
(* of an identity it already holds.                                        *)
Bounded == Cardinality(reg) <= MReg

(* A sample names only identities graduated less than L_reg ago: the sweep *)
(* may stop at the first live entry, for whoever was inserted later was    *)
(* also stamped later, re-graduations included.  (README: "a registered id *)
(* expires after this".)                                                   *)
SampleIsFresh == \A n \in answer : rank[n] # 0 /\ Live(n)

(* The bridge forgets nobody too soon: an identity graduated less than     *)
(* L_reg ago is missing only when MReg others were graduated since.        *)
Since(n) == {m \in Node : rank[m] > rank[n]}
RemembersRecent ==
    \A n \in Node : rank[n] # 0 /\ Live(n) /\ n \notin reg
        => Cardinality(Since(n)) >= MReg
=============================================================================
