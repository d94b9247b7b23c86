---------------------------- MODULE DirectoryFeed ----------------------------
(***************************************************************************)
(* The directory feed (src/directory_feed.js, its wiring in                *)
(* src/bridge_axona_node.js and its source in src/server.js).  The         *)
(* kernel's fill asks for introductions and notes that it has asked when   *)
(* the call returns; the answer, a sample of the identities the door       *)
(* knows, reaches the handlers a turn later, unless the feed is stopped in *)
(* between.                                                                *)
(*                                                                         *)
(* Every request of the kernel has a name here, which the code does not    *)
(* give it: a request is answered when a handler has its sample.           *)
(***************************************************************************)
EXTENDS Naturals, Sequences, FiniteSets

CONSTANTS Node,        \* identities
          Self,        \* the bridge's own
          Handler,     \* the kernel's subscriptions
          Request,     \* bound: the requests made
          SampleSize,  \* R_SAMPLE
          MaxGen       \* bound on the stops

ASSUME DirectoryFeedAssumption ==
    /\ Self \in Node
    /\ IsFiniteSet(Node)
    /\ SampleSize \in Nat \ {0}
    /\ MaxGen \in Nat

VARIABLES hasSource,   \* _source is set
          known,       \* what the source would return
          handlers,    \* _handlers
          generation,  \* _generation
          pending,     \* _pending: timers of one turn, in order
          asked,       \* how each request fares
          pool,        \* history: what the source returned to each, if it did
          heard,       \* history: who got which answer
          cut          \* history: requests unanswered when the feed stopped

history == <<pool, heard, cut>>
vars == <<hasSource, known, handlers, generation, pending, asked, history>>

Init == /\ hasSource = FALSE
        /\ known = {}
        /\ handlers = {}
        /\ generation = 0
        /\ pending = <<>>
        /\ asked = [r \in Request |-> "not"]
        /\ pool = [r \in Request |-> {}]
        /\ heard = {}
        /\ cut = {}

-----------------------------------------------------------------------------
(* One request *)

Drawn(S, P) == /\ S \subseteq P
               /\ Cardinality(S) = IF Cardinality(P) < SampleSize
                                   THEN Cardinality(P) ELSE SampleSize

(* The samples that may be drawn; the bridge itself is never offered. *)
Samples == {S \in SUBSET known : Drawn(S, known \ {Self})}

(* Fault: a failed evaluation counts as an empty list. *)
UnavailableAsEmpty(r) ==
    /\ asked' = [asked EXCEPT ![r] = "sent"]
    /\ pending' = Append(pending, [req |-> r, gen |-> generation,
                                   sample |-> {}, then |-> handlers])
    /\ UNCHANGED <<pool, heard>>

(* No source, or one that throws or returns no list: the kernel is told    *)
(* that there is no supply, not that the supply is empty.                  *)
Unavailable(r) ==
    /\ asked' = [asked EXCEPT ![r] = "unavailable"]
    /\ UNCHANGED <<pending, pool, heard>>

(* Fault: the handlers run before the call returns. *)
ServedAtOnce(r) ==
    /\ asked' = [asked EXCEPT ![r] = "sent"]
    /\ pool' = [pool EXCEPT ![r] = {known}]
    /\ heard' = heard \cup [req : {r}, by : handlers, sample : {{}}]
    /\ UNCHANGED pending

(* The sample is drawn now and delivered later; `then' is history. *)
Served(r) ==
    /\ \E S \in Samples :
           pending' = Append(pending, [req |-> r, gen |-> generation,
                                       sample |-> S, then |-> handlers])
    /\ pool' = [pool EXCEPT ![r] = {known}]
    /\ asked' = [asked EXCEPT ![r] = "sent"]
    /\ UNCHANGED heard

(* request(), and the kernel's note of it in the same turn. *)
Ask(r) ==
    /\ asked[r] = "not"
    /\ \/ Unavailable(r)
       \/ hasSource /\ Served(r)
    /\ UNCHANGED <<hasSource, known, handlers, generation, cut>>

(* Fault: the handlers of the time of the request. *)
CalledAsAsked(d) == d.then

(* The handlers are read at fire time. *)
Called(d) == handlers

(* The timer of the oldest request fires. *)
Deliver ==
    /\ pending # <<>>
    /\ LET d == Head(pending)
           called == IF d.gen = generation THEN Called(d) ELSE {}
       IN  /\ pending' = Tail(pending)
           /\ heard' = heard \cup [req : {d.req}, by : called, sample : {d.sample}]
           /\ asked' = [asked EXCEPT ![d.req] = IF called = {} THEN "unheard"
                                                             ELSE "answered"]
    /\ UNCHANGED <<hasSource, known, handlers, generation, pool, cut>>

-----------------------------------------------------------------------------
(* The rest *)

SetSource ==
    /\ ~hasSource
    /\ hasSource' = TRUE
    /\ UNCHANGED <<known, handlers, generation, pending, asked, history>>

Subscribe(h) ==
    /\ h \notin handlers
    /\ handlers' = handlers \cup {h}
    /\ UNCHANGED <<hasSource, known, generation, pending, asked, history>>

Unsubscribe(h) ==
    /\ h \in handlers
    /\ handlers' = handlers \ {h}
    /\ UNCHANGED <<hasSource, known, generation, pending, asked, history>>

Outstanding == {r \in Request : asked[r] = "sent"}

(* Fault: what is on its way stays on its way. *)
CancelNothing == UNCHANGED <<generation, pending>>

(* A new generation, and no timer left of the old one. *)
Cancel == /\ generation' = generation + 1
          /\ pending' = <<>>

(* stop(); requests may follow it. *)
Stop ==
    /\ generation < MaxGen
    /\ Cancel
    /\ cut' = cut \cup Outstanding
    /\ UNCHANGED <<hasSource, known, handlers, asked, pool, heard>>

(* The door learns of an identity, or forgets one: bound by an admitted    *)
(* connection, or graduated not long ago.                                  *)
Known(n) ==
    /\ known' = IF n \in known THEN known \ {n} ELSE known \cup {n}
    /\ UNCHANGED <<hasSource, handlers, generation, pending, asked, history>>

Next ==
    \/ \E r \in Request : Ask(r)
    \/ Deliver
    \/ SetSource
    \/ \E h \in Handler : Subscribe(h) \/ Unsubscribe(h)
    \/ Stop
    \/ \E n \in Node : Known(n)

Spec == Init /\ [][Next]_vars

(* A timer that is due fires. *)
FairSpec == Spec /\ WF_vars(Deliver)

-----------------------------------------------------------------------------
(* Properties *)

(* Every variable keeps its type; the bridge is in no sample. *)
TypeOK ==
    /\ hasSource \in BOOLEAN
    /\ known \subseteq Node
    /\ handlers \subseteq Handler
    /\ generation \in 0..MaxGen
    /\ pending \in Seq([req : Request, gen : 0..MaxGen,
                        sample : SUBSET (Node \ {Self}), then : SUBSET Handler])
    /\ asked \in [Request -> {"not", "unavailable", "sent", "answered", "unheard"}]
    /\ pool \in [Request -> SUBSET SUBSET Node]
    /\ heard \subseteq [req : Request, by : Handler, sample : SUBSET (Node \ {Self})]
    /\ cut \subseteq Request

(* "Never as a confirmed empty supply": an answer is a full sample of the  *)
(* list that the source returned to that very request.                     *)
HonestAnswer == \A a \in heard :
    \E P \in pool[a.req] : Drawn(a.sample, P \ {Self})

(* "A stop() before the turn cancels the delivery outright", whatever is   *)
(* asked under the next generation.                                        *)
NothingAfterStop == \A r \in cut : \A a \in heard : a.req # r

(* "A handler that unsubscribed in between is not called." *)
UnsubscribedUnheard ==
    [][\A a \in heard' \ heard : a.by \in handlers]_vars

(* "Sendability is never an answer": what the kernel has noted as sent is  *)
(* answered after that, unless the feed stops or nobody listens.           *)
EverySentIsAnswered == \A r \in Request :
    asked[r] = "sent" ~> asked[r] = "answered" \/ r \in cut \/ handlers = {}
=============================================================================
