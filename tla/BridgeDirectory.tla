--------------------------- MODULE BridgeDirectory ---------------------------
(***************************************************************************)
(* The directory publisher (src/bridge_directory.js), the book of other    *)
(* bridges (src/bridge_book_store.js) and the store of the author key      *)
(* (fileAuthorStore of src/server.js).  One process at a time: what a      *)
(* launch does with them is BridgeLaunch, which EXTENDS this module.       *)
(*                                                                         *)
(* A round of publishing awaits the kernel once per region, so that rounds *)
(* of several callers and everything else interleave.  An hour is the      *)
(* clock's unit.                                                           *)
(***************************************************************************)
EXTENDS Integers, FiniteSets

CONSTANTS Bridge,      \* the other bridges' urls
          Advertisers, \* those of them that are in the directory
          Region,
          Home, Never, \* the directory's home, and the system region
          Own,         \* the region of this bridge
          RegionOf,    \* the region an entry's coordinates are in
          Torn,        \* a file that does not parse
          NoKey,
          MinUptime,   \* BRIDGE_DIRECTORY_MIN_UPTIME_MS
          MaxAge,      \* BRIDGE_ENTRY_MAX_AGE_MS
          MaxTime,     \* bound on the clock
          MaxKeys      \* bound on the author keys

ASSUME DirectoryAssumption ==
    /\ Advertisers \subseteq Bridge
    /\ {Home, Own, Never} \subseteq Region
    /\ Never \notin {Home, Own}
    /\ RegionOf \in [Bridge -> Region \ {Never}]
    /\ {MinUptime, MaxAge, MaxTime, MaxKeys} \subseteq Nat
    /\ NoKey \notin 1..MaxKeys
    /\ Torn \notin 1..MaxKeys \cup {NoKey}

VARIABLES now,         \* Date.now()
          bootAt,      \* when the process was launched
          meshed,      \* peer.peers() has at least MIN_PEERS
          pc,          \* where the publisher's own task is
          todo,        \* regions a round of each caller has yet to publish in
          beat,        \* the heartbeat's interval has elapsed
          stopped,     \* `stopped', and the interval cleared
          toSub,       \* regions the task has yet to subscribe in
          subs,        \* live subscriptions
          held,        \* `sub' is set: stop can reach the subscriptions
          author,      \* the author key in use
          authorFile,  \* author.json
          minted,      \* author keys ever minted
          book,        \* _entries: when each was issued and first seen, or 0
          bookFile,    \* bridges.json
          offered,     \* history: regions this process has published in
          signers      \* history: keys ever published with

Caller == {"established", "heartbeat", "post-uplink"}
taskVars == <<pc, todo, beat, stopped, toSub, subs, held, author>>
diskVars == <<authorFile, minted, bookFile>>
directoryVars == <<now, bootAt, meshed, taskVars, diskVars, book, offered, signers>>

Unknown == [issued |-> 0, seen |-> 0]
EmptyBook == [u \in Bridge |-> Unknown]
InBook == {u \in Bridge : book[u] # Unknown}

(* What a process starts from. *)
FreshTask == /\ pc' = "off"
             /\ todo' = [c \in Caller |-> {}]
             /\ beat' = FALSE
             /\ stopped' = FALSE
             /\ toSub' = {}
             /\ subs' = {}
             /\ held' = FALSE
             /\ author' = NoKey

InitDirectory == /\ now = 1
                 /\ bootAt = 1
                 /\ meshed = FALSE
                 /\ pc = "off"
                 /\ todo = [c \in Caller |-> {}]
                 /\ beat = FALSE
                 /\ stopped = FALSE
                 /\ toSub = {}
                 /\ subs = {}
                 /\ held = FALSE
                 /\ author = NoKey
                 /\ authorFile = NoKey
                 /\ minted = 0
                 /\ book = EmptyBook
                 /\ bookFile = EmptyBook
                 /\ offered = {}
                 /\ signers = {}

-----------------------------------------------------------------------------
(* The book *)

(* _load: a file that does not parse is no file yet. *)
Loaded == IF bookFile = Torn THEN EmptyBook ELSE bookFile

(* Fault: an entry that is heard again is new. *)
MergedAnew(u, issued) ==
    LET put == [book EXCEPT ![u] = [issued |-> issued, seen |-> now]]
    IN  [v \in Bridge |-> IF now - put[v].issued > MaxAge THEN Unknown ELSE put[v]]

(* merge(): the latest per url, its tenure kept, and dead bridges dropped. *)
Merged(u, issued) ==
    LET seen == IF u \in InBook THEN book[u].seen ELSE now
        put == [book EXCEPT ![u] = [issued |-> issued, seen |-> seen]]
    IN  [v \in Bridge |-> IF now - put[v].issued > MaxAge THEN Unknown ELSE put[v]]

(* _save: what writeFileSync leaves when it throws is the old file or part *)
(* of the new one.                                                         *)
Saves(b) == bookFile' \in {b, bookFile, Torn}

(* The handler of a subscription; our own entry is skipped before it. *)
Learn(u, issued) ==
    /\ subs # {}
    /\ issued > book[u].issued
    /\ book' = Merged(u, issued)
    /\ Saves(book')
    /\ UNCHANGED <<now, bootAt, meshed, taskVars, authorFile, minted, offered, signers>>

-----------------------------------------------------------------------------
(* A round *)

(* bridgeRegions() *)
Regions == ({Home, Own} \cup {RegionOf[u] : u \in InBook}) \ {Never}

UpLongEnough == now - bootAt >= MinUptime
Established == UpLongEnough /\ meshed

(* Fault: the gate is the launch's only. *)
RoundUngated(c) == [todo EXCEPT ![c] = @ \cup Regions]

(* publish(): deferred, whoever calls, while not established. *)
Round(c) == IF Established THEN [todo EXCEPT ![c] = @ \cup Regions] ELSE todo

(* Which comes next: the home, our own, then the others'. *)
Upcoming(regions) == IF Home \in regions THEN {Home}
                     ELSE IF Own \in regions THEN {Own}
                     ELSE regions

(* One pub of a round.  It may fail, and does without a key. *)
Publish(c, r) ==
    /\ r \in Upcoming(todo[c])
    /\ todo' = [todo EXCEPT ![c] = @ \ {r}]
    /\ offered' = offered \cup {r}
    /\ \/ author # NoKey /\ signers' = signers \cup {author}
       \/ UNCHANGED signers
    /\ UNCHANGED <<now, bootAt, meshed, pc, beat, stopped, toSub, subs, held,
                   author, diskVars, book>>

(* setInterval, until stop clears it. *)
Heartbeat ==
    /\ pc # "off" /\ ~stopped /\ beat
    /\ beat' = FALSE
    /\ todo' = Round("heartbeat")
    /\ UNCHANGED <<now, bootAt, meshed, pc, stopped, toSub, subs, held, author,
                   diskVars, book, offered, signers>>

-----------------------------------------------------------------------------
(* The publisher's own task *)

(* Fault: the store is not asked first. *)
KeyAnew == minted + 1

(* The key of the store, or a new one. *)
Key == IF authorFile \in 1..minted THEN authorFile ELSE minted + 1

(* ensureAuthor(): the key is stored before it is used.  When the store    *)
(* cannot write, the task ends there (its rejection is only logged).       *)
EnsureAuthor ==
    /\ pc = "author"
    /\ Key <= MaxKeys
    /\ \/ /\ pc' = "waiting"
          /\ author' = Key
          /\ authorFile' = Key
          /\ minted' = IF Key > minted THEN Key ELSE minted
       \/ /\ authorFile \notin 1..minted
          /\ pc' = "ended"
          /\ authorFile' \in {authorFile, Torn}
          /\ UNCHANGED <<author, minted>>
    /\ UNCHANGED <<now, bootAt, meshed, todo, beat, stopped, toSub, subs, held,
                   book, bookFile, offered, signers>>

(* Fault: the task does not poll again. *)
PollOnce ==
    /\ pc = "waiting"
    /\ pc' = IF stopped \/ ~Established THEN "ended" ELSE "publishing"
    /\ todo' = IF stopped THEN todo ELSE Round("established")
    /\ UNCHANGED <<now, bootAt, meshed, beat, stopped, toSub, subs, held, author,
                   diskVars, book, offered, signers>>

(* whenEstablished(), which polls until it is so, and publish after it. *)
Poll ==
    /\ pc = "waiting"
    /\ stopped \/ Established
    /\ pc' = IF stopped THEN "ended" ELSE "publishing"
    /\ todo' = IF stopped THEN todo ELSE Round("established")
    /\ UNCHANGED <<now, bootAt, meshed, beat, stopped, toSub, subs, held, author,
                   diskVars, book, offered, signers>>

(* setAuthorClass, whatever comes of it; then the subscriptions, in the    *)
(* regions of this moment.                                                 *)
DeclareClass ==
    /\ pc = "publishing" /\ todo["established"] = {}
    /\ pc' = "subscribing"
    /\ toSub' = Regions
    /\ UNCHANGED <<now, bootAt, meshed, todo, beat, stopped, subs, held, author,
                   diskVars, book, offered, signers>>

(* One subscription after the other; `sub' is set after the last.  One     *)
(* that fails ends the task, and those before it are out of reach.         *)
Subscribe ==
    /\ pc = "subscribing"
    /\ \/ \E r \in Upcoming(toSub) : /\ toSub' = toSub \ {r}
                           /\ subs' = subs \cup {r}
                           /\ held' = (toSub' = {})
                           /\ pc' = IF toSub' = {} THEN "ended" ELSE pc
       \/ pc' = "ended" /\ UNCHANGED <<toSub, subs, held>>
    /\ UNCHANGED <<now, bootAt, meshed, todo, beat, stopped, author, diskVars,
                   book, offered, signers>>

(* stop(): what the task has under way goes on. *)
StopPublisher == /\ stopped' = TRUE
                 /\ beat' = FALSE
                 /\ subs' = IF held THEN {} ELSE subs

-----------------------------------------------------------------------------
(* The surroundings *)

(* Peers come and go. *)
Meshed == /\ meshed' = ~meshed
          /\ UNCHANGED <<now, bootAt, taskVars, diskVars, book, offered, signers>>

Hour == /\ now < MaxTime
        /\ now' = now + 1
        /\ beat' = (pc # "off" /\ ~stopped)
        /\ UNCHANGED <<bootAt, meshed, pc, todo, stopped, toSub, subs, held, author,
                       diskVars, book, offered, signers>>

(* What another bridge may have said, not later than now. *)
Issued == {t \in 1..now : t >= now - MaxAge - 1}

DirectoryNext ==
    \/ \E u \in Advertisers, issued \in Issued : Learn(u, issued)
    \/ \E c \in Caller, r \in Region : Publish(c, r)
    \/ Heartbeat
    \/ EnsureAuthor
    \/ Poll
    \/ DeclareClass
    \/ Subscribe
    \/ Meshed
    \/ Hour
=============================================================================
