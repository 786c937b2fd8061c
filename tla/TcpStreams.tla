----------------------------- MODULE TcpStreams -----------------------------
(***************************************************************************)
(* One TCP listener key ("tcp:2222") of the stream manager                 *)
(* (internal/engine/streams.go): StreamManager.Sync and StopAll, which     *)
(* stop and start its forwarder, the accept loop of startTCP, the          *)
(* connTracker and sourceCap it shares with its handlers, and handleTCP.   *)
(*                                                                         *)
(* Every step is one critical section or one blocking call of the code, so *)
(* a Sync that replaces the listener interleaves with the accept loop and  *)
(* with every connection handler.  Each start of the key's forwarder is a  *)
(* new generation; connections belong to the generation that accepted      *)
(* them.  Keys are independent of each other (Sync treats them one by one  *)
(* and they share no state), so one key is enough.                         *)
(***************************************************************************)
EXTENDS Naturals, FiniteSets

CONSTANTS
  Conn,        \* client connections
  Client,      \* effective client addresses
  Specs,       \* signatures of the listener specifications a stream can have
  Allow,       \* Allow[s]: the clients the source filter of s admits
  Broken,      \* the specs buildStreamSpec marks with a failure
  NoSpec,      \* the stream does not exist, or is disabled
  MaxConns,    \* tcpMaxConns
  MaxPerIP,    \* tcpMaxConnsPerIP
  MaxGen       \* bound: how often a forwarder is started

ASSUME SpecsAssumption ==
  /\ Client # {}
  /\ Allow \in [Specs -> SUBSET Client]
  /\ Broken \subseteq Specs
  /\ NoSpec \notin Specs

ASSUME ConnAssumption == IsFiniteSet(Conn)

ASSUME BoundsAssumption ==
  /\ MaxConns \in Nat
  /\ MaxPerIP \in Nat
  /\ MaxGen \in Nat

VARIABLES
  applied,   \* the spec the last (or the running) Sync was called with
  syncPc,    \* where Sync or StopAll is
  active,    \* the generation m.active holds for the key, 0 for none
  status,    \* m.status for the key: "none", "running" or "failed"
  gens,      \* generations started so far
  sigOf,     \* the spec each generation was started with
  stopped,   \* generations whose connTracker has stopped
  deaf,      \* generations whose accept loop ended on an accept error
  toClose,   \* connections closeAll has taken and not closed yet
  pc,        \* where each connection's accept loop or handler is
  gen,       \* the generation that accepted each connection
  who,       \* the effective client of each connection, once identified
  tracked,   \* the connections in their generation's connTracker
  attached,  \* ... whose backend connection is attached there
  rawOpen,   \* client connections that are not closed
  backOpen,  \* backend connections that are not closed
  slots,     \* slots in use, per generation
  perIP      \* sourceCap.perIP, per generation

syncVars == <<applied, syncPc, active, status, gens, sigOf>>
connVars == <<pc, gen, who>>
openVars == <<rawOpen, backOpen>>
trackVars == <<stopped, toClose, tracked, attached>>
capVars == <<slots, perIP>>
vars == <<syncVars, connVars, openVars, trackVars, capVars, deaf>>

Gen == 1..MaxGen
AnySpec == Specs \cup {NoSpec}

(* The stages of a connection: in the accept loop, in handleTCP, and in    *)
(* the deferred calls that handleTCP and its goroutine run on the way out. *)
Handling == {"identify", "acquire", "route", "dial", "attach", "splice",
             "release", "untrack", "freeSlot"}
Stage == {"none", "accepted", "slot", "done"} \cup Handling

\* A handler counts against its client between acquire and release.
Counted == {"route", "dial", "attach", "splice", "release"}

Init ==
  /\ applied = NoSpec
  /\ syncPc = "idle"
  /\ active = 0
  /\ status = "none"
  /\ gens = 0
  /\ sigOf = [g \in Gen |-> NoSpec]
  /\ stopped = {}
  /\ deaf = {}
  /\ toClose = {}
  /\ pc = [c \in Conn |-> "none"]
  /\ gen = [c \in Conn |-> 0]
  /\ who = [c \in Conn |-> CHOOSE a \in Client : TRUE]
  /\ tracked = {}
  /\ attached = {}
  /\ rawOpen = {}
  /\ backOpen = {}
  /\ slots = [g \in Gen |-> 0]
  /\ perIP = [g \in Gen |-> [a \in Client |-> 0]]

-----------------------------------------------------------------------------
(* The manager.                                                            *)

\* forwarder.stop(): the listener closes and connTracker.closeAll marks the
\* tracker stopped and takes its connections, which are closed afterwards.
\* (A connection tracked between the two locks is taken like any other, so
\* they are one step.)
Stop(g) ==
  /\ stopped' = stopped \cup {g}
  /\ toClose' = {c \in tracked : gen[c] = g}
  /\ tracked' = {c \in tracked : gen[c] # g}
  /\ active' = 0

\* Sync is called with the stored stream: a new spec, the old one again, or
\* none.  Up to the end of the loop over m.active: a forwarder whose spec is
\* gone, has another signature or cannot run is stopped.
MustStop_GoneOnly(s) == active # 0 /\ (s = NoSpec \/ s \in Broken)

MustStop(s) == active # 0 /\ (s = NoSpec \/ sigOf[active] # s \/ s \in Broken)

SyncBegin(s) ==
  /\ syncPc = "idle"
  /\ applied' = s
  /\ syncPc' = "sync"
  /\ IF MustStop(s)
       THEN Stop(active)
       ELSE UNCHANGED <<stopped, toClose, tracked, active>>
  /\ UNCHANGED <<status, gens, sigOf, attached>>
  /\ UNCHANGED <<connVars, openVars, capVars, deaf>>

\* StopAll, at shutdown: every forwarder stops, the statuses stay.
StopAll ==
  /\ syncPc = "idle"
  /\ active # 0
  /\ Stop(active)
  /\ syncPc' = "stopAll"
  /\ UNCHANGED <<applied, status, gens, sigOf, attached>>
  /\ UNCHANGED <<connVars, openVars, capVars, deaf>>

\* closeAll closes one connection it took, and the backend attached to it.
CloseTaken(c) ==
  /\ c \in toClose
  /\ toClose' = toClose \ {c}
  /\ rawOpen' = rawOpen \ {c}
  /\ backOpen' = IF c \in attached THEN backOpen \ {c} ELSE backOpen
  /\ UNCHANGED <<syncVars, connVars, stopped, tracked, attached, capVars, deaf>>

StopAllEnd ==
  /\ syncPc = "stopAll"
  /\ toClose = {}
  /\ syncPc' = "idle"
  /\ UNCHANGED <<applied, active, status, gens, sigOf>>
  /\ UNCHANGED <<connVars, openVars, trackVars, capVars, deaf>>

\* The rest of Sync: the status of a removed key goes, a spec with a failure
\* is recorded, a running listener stays, and otherwise one is started; the
\* port may be taken by another process (listenOK).
SyncEnd(listenOK) ==
  /\ syncPc = "sync"
  /\ toClose = {}
  /\ syncPc' = "idle"
  /\ \/ /\ applied = NoSpec
        /\ status' = "none"
        /\ UNCHANGED <<active, gens, sigOf>>
     \/ /\ applied \in Broken
        /\ status' = "failed"
        /\ UNCHANGED <<active, gens, sigOf>>
     \/ /\ applied \in Specs \ Broken
        /\ active # 0
        /\ status' = "running"
        /\ UNCHANGED <<active, gens, sigOf>>
     \/ /\ applied \in Specs \ Broken
        /\ active = 0
        /\ ~listenOK
        /\ status' = "failed"
        /\ UNCHANGED <<active, gens, sigOf>>
     \/ /\ applied \in Specs \ Broken
        /\ active = 0
        /\ listenOK
        /\ gens < MaxGen
        /\ gens' = gens + 1
        /\ active' = gens'
        /\ sigOf' = [sigOf EXCEPT ![gens'] = applied]
        /\ status' = "running"
  /\ UNCHANGED applied
  /\ UNCHANGED <<connVars, openVars, trackVars, capVars, deaf>>

-----------------------------------------------------------------------------
(* The accept loop of startTCP.  It handles one connection at a time.      *)

LoopBusy(g) == \E c \in Conn : gen[c] = g /\ pc[c] \in {"accepted", "slot"}

\* ln.Accept returns a connection; it fails once the listener is closed.
Accept(c) ==
  /\ pc[c] = "none"
  /\ active # 0
  /\ active \notin deaf
  /\ ~LoopBusy(active)
  /\ gen' = [gen EXCEPT ![c] = active]
  /\ pc' = [pc EXCEPT ![c] = "accepted"]
  /\ rawOpen' = rawOpen \cup {c}
  /\ UNCHANGED <<syncVars, who, backOpen, trackVars, capVars, deaf>>

\* ln.Accept fails on an open listener (no file descriptor left, say): the
\* loop logs it and ends; the forwarder stays in m.active.
AcceptFails ==
  /\ active # 0
  /\ active \notin deaf
  /\ ~LoopBusy(active)
  /\ deaf' = deaf \cup {active}
  /\ UNCHANGED <<syncVars, connVars, openVars, trackVars, capVars>>

\* connTracker.track: refused once the listener has stopped, and then the
\* connection is closed and the loop ends.
Track(c) ==
  /\ pc[c] = "accepted"
  /\ \/ /\ gen[c] \in stopped
        /\ rawOpen' = rawOpen \ {c}
        /\ pc' = [pc EXCEPT ![c] = "done"]
        /\ UNCHANGED tracked
     \/ /\ gen[c] \notin stopped
        /\ tracked' = tracked \cup {c}
        /\ pc' = [pc EXCEPT ![c] = "slot"]
        /\ UNCHANGED rawOpen
  /\ UNCHANGED <<syncVars, gen, who, backOpen, stopped, toClose, attached, capVars, deaf>>

\* A free slot starts the handler; a full listener refuses the connection.
Slot(c) ==
  /\ pc[c] = "slot"
  /\ \/ /\ slots[gen[c]] < MaxConns
        /\ slots' = [slots EXCEPT ![gen[c]] = @ + 1]
        /\ pc' = [pc EXCEPT ![c] = "identify"]
        /\ UNCHANGED <<tracked, rawOpen>>
     \/ /\ slots[gen[c]] >= MaxConns
        /\ tracked' = tracked \ {c}
        /\ rawOpen' = rawOpen \ {c}
        /\ pc' = [pc EXCEPT ![c] = "done"]
        /\ UNCHANGED slots
  /\ UNCHANGED <<syncVars, gen, who, backOpen, stopped, toClose, attached, perIP, deaf>>

-----------------------------------------------------------------------------
(* handleTCP.                                                              *)

GoTo(c, stage) == pc' = [pc EXCEPT ![c] = stage]

\* The effective client is the socket peer, or the address a trusted peer's
\* PROXY header states (a trusted peer without a valid header is dropped);
\* the source filter of the generation's spec decides about that address.
Identify(c, a, headerOK) ==
  /\ pc[c] = "identify"
  /\ IF headerOK /\ a \in Allow[sigOf[gen[c]]]
       THEN who' = [who EXCEPT ![c] = a] /\ GoTo(c, "acquire")
       ELSE UNCHANGED who /\ GoTo(c, "untrack")
  /\ UNCHANGED <<syncVars, gen, openVars, trackVars, capVars, deaf>>

\* sourceCap.acquire: one client may not hold the whole listener.
Acquire_OffByOne(c) ==
  /\ pc[c] = "acquire"
  /\ IF perIP[gen[c]][who[c]] <= MaxPerIP
       THEN /\ perIP' = [perIP EXCEPT ![gen[c]][who[c]] = @ + 1]
            /\ GoTo(c, "route")
       ELSE /\ UNCHANGED perIP
            /\ GoTo(c, "untrack")
  /\ UNCHANGED <<syncVars, gen, who, openVars, trackVars, slots, deaf>>

Acquire_ReleaseRefused(c) ==
  /\ pc[c] = "acquire"
  /\ IF perIP[gen[c]][who[c]] < MaxPerIP
       THEN /\ perIP' = [perIP EXCEPT ![gen[c]][who[c]] = @ + 1]
            /\ GoTo(c, "route")
       ELSE /\ UNCHANGED perIP
            /\ GoTo(c, "release")
  /\ UNCHANGED <<syncVars, gen, who, openVars, trackVars, slots, deaf>>

Acquire(c) ==
  /\ pc[c] = "acquire"
  /\ IF perIP[gen[c]][who[c]] < MaxPerIP
       THEN /\ perIP' = [perIP EXCEPT ![gen[c]][who[c]] = @ + 1]
            /\ GoTo(c, "route")
       ELSE /\ UNCHANGED perIP
            /\ GoTo(c, "untrack")
  /\ UNCHANGED <<syncVars, gen, who, openVars, trackVars, slots, deaf>>

\* SNI peek or TLS handshake, both with a deadline; a plain stream has
\* neither and always goes on.
Route(c, ok) ==
  /\ pc[c] = "route"
  /\ GoTo(c, IF ok THEN "dial" ELSE "release")
  /\ UNCHANGED <<syncVars, gen, who, openVars, trackVars, capVars, deaf>>

Dial_KeepsCount(c, ok) ==
  /\ pc[c] = "dial"
  /\ backOpen' = IF ok THEN backOpen \cup {c} ELSE backOpen
  /\ GoTo(c, IF ok THEN "attach" ELSE "untrack")
  /\ UNCHANGED <<syncVars, gen, who, rawOpen, trackVars, capVars, deaf>>

Dial(c, ok) ==
  /\ pc[c] = "dial"
  /\ backOpen' = IF ok THEN backOpen \cup {c} ELSE backOpen
  /\ GoTo(c, IF ok THEN "attach" ELSE "release")
  /\ UNCHANGED <<syncVars, gen, who, rawOpen, trackVars, capVars, deaf>>

\* connTracker.attach ties the backend to the connection; it fails when
\* closeAll has taken the connection in the meantime.  Writing the PROXY
\* header to the backend may fail too (headerSent).
Attach_Unchecked(c, headerSent) ==
  /\ pc[c] = "attach"
  /\ attached' = attached \cup {c}
  /\ GoTo(c, IF headerSent THEN "splice" ELSE "release")
  /\ UNCHANGED <<syncVars, gen, who, openVars, stopped, toClose, tracked, capVars, deaf>>

Attach(c, headerSent) ==
  /\ pc[c] = "attach"
  /\ attached' = IF c \in tracked THEN attached \cup {c} ELSE attached
  /\ GoTo(c, IF c \in tracked /\ headerSent THEN "splice" ELSE "release")
  /\ UNCHANGED <<syncVars, gen, who, openVars, stopped, toClose, tracked, capVars, deaf>>

\* The two copies end: a side was closed under them, ...
SpliceCut(c) ==
  /\ pc[c] = "splice"
  /\ c \notin rawOpen \/ c \notin backOpen
  /\ GoTo(c, "release")
  /\ UNCHANGED <<syncVars, gen, who, openVars, trackVars, capVars, deaf>>

\* ... or a peer ended the connection, or it was idle (module IdlePair).
SpliceOver(c) ==
  /\ pc[c] = "splice"
  /\ c \in rawOpen /\ c \in backOpen
  /\ GoTo(c, "release")
  /\ UNCHANGED <<syncVars, gen, who, openVars, trackVars, capVars, deaf>>

\* The deferred calls, last one first: backend.Close and perSource.release,
\* raw.Close and open.untrack, and the slot.  (A Close needs no lock and
\* nothing is sent once the copies are over, so it joins the next call.)
Release(c) ==
  /\ pc[c] = "release"
  /\ backOpen' = backOpen \ {c}
  /\ perIP' = [perIP EXCEPT ![gen[c]][who[c]] = @ - 1]
  /\ GoTo(c, "untrack")
  /\ UNCHANGED <<syncVars, gen, who, rawOpen, trackVars, slots, deaf>>

Untrack(c) ==
  /\ pc[c] = "untrack"
  /\ rawOpen' = rawOpen \ {c}
  /\ tracked' = tracked \ {c}
  /\ GoTo(c, "freeSlot")
  /\ UNCHANGED <<syncVars, gen, who, backOpen, stopped, toClose, attached, capVars, deaf>>

FreeSlot(c) ==
  /\ pc[c] = "freeSlot"
  /\ slots' = [slots EXCEPT ![gen[c]] = @ - 1]
  /\ GoTo(c, "done")
  /\ UNCHANGED <<syncVars, gen, who, openVars, trackVars, perIP, deaf>>

-----------------------------------------------------------------------------

Manager ==
  \/ \E s \in AnySpec : SyncBegin(s)
  \/ StopAll
  \/ StopAllEnd
  \/ \E ok \in BOOLEAN : SyncEnd(ok)
  \/ \E c \in Conn : CloseTaken(c)

\* What a connection's own goroutines do once it has been accepted.
Progress(c) ==
  \/ Track(c)
  \/ Slot(c)
  \/ \E a \in Client, ok \in BOOLEAN : Identify(c, a, ok)
  \/ Acquire(c)
  \/ \E ok \in BOOLEAN : Route(c, ok) \/ Dial(c, ok) \/ Attach(c, ok)
  \/ SpliceCut(c)
  \/ Release(c)
  \/ Untrack(c)
  \/ FreeSlot(c)

Next ==
  \/ Manager
  \/ AcceptFails
  \/ \E c \in Conn : Accept(c) \/ Progress(c) \/ SpliceOver(c)

Spec == Init /\ [][Next]_vars

(* Sync and the handlers are goroutines the Go scheduler runs; every call  *)
(* they block in has a deadline or is ended by a Close.  Nothing makes     *)
(* clients connect or end, or an administrator save.                       *)
Fairness ==
  /\ WF_vars(\E c \in Conn : CloseTaken(c))
  /\ WF_vars(StopAllEnd)
  /\ WF_vars(\E ok \in BOOLEAN : SyncEnd(ok))
  /\ \A c \in Conn : WF_vars(Progress(c))

FairSpec == Spec /\ Fairness

-----------------------------------------------------------------------------
(* Properties.                                                             *)

(* Every variable has its type; the slots of a listener and the counts of  *)
(* sourceCap are never given back twice.                                   *)
TypeOK ==
  /\ applied \in AnySpec
  /\ syncPc \in {"idle", "sync", "stopAll"}
  /\ active \in 0..MaxGen
  /\ status \in {"none", "running", "failed"}
  /\ gens \in 0..MaxGen
  /\ sigOf \in [Gen -> AnySpec]
  /\ stopped \subseteq Gen
  /\ deaf \subseteq Gen
  /\ toClose \subseteq Conn
  /\ pc \in [Conn -> Stage]
  /\ gen \in [Conn -> 0..MaxGen]
  /\ who \in [Conn -> Client]
  /\ tracked \subseteq Conn
  /\ attached \subseteq Conn
  /\ rawOpen \subseteq Conn
  /\ backOpen \subseteq Conn
  /\ slots \in [Gen -> Nat]
  /\ perIP \in [Gen -> [Client -> Nat]]

\* A connection that can carry bytes between a client and a backend.
Carrying(c) == pc[c] = "splice" /\ c \in rawOpen /\ c \in backOpen

(* Once a Sync has returned, every connection that still carries bytes     *)
(* belongs to the listener that runs now, and its client is one the filter *)
(* of the specification that Sync applied admits: nothing admitted under   *)
(* an older configuration outlives it, whichever stage it was in           *)
(* (connTracker's comment; startTCP, attach and closeAll).                 *)
SourceRestriction ==
  syncPc = "idle" =>
    \A c \in Conn : Carrying(c) =>
      /\ active # 0
      /\ gen[c] = active
      /\ applied \in Specs \ Broken
      /\ who[c] \in Allow[applied]

(* A connection of a stopped listener that is past attach and that         *)
(* closeAll does not hold any more has both its sides closed: attach       *)
(* refuses the backend of a connection that closeAll took while it was     *)
(* being dialled, and track one that was accepted too late.                *)
StoppedConnectionsEnd ==
  \A c \in Conn :
    gen[c] \in stopped /\ c \notin toClose /\ pc[c] = "splice"
      => c \notin rawOpen /\ c \notin backOpen

HandlersOf(g) == {c \in Conn : gen[c] = g /\ pc[c] \in Handling}
CountedFor(g, a) ==
  {c \in Conn : gen[c] = g /\ pc[c] \in Counted /\ who[c] = a}

(* A listener never runs more handlers than tcpMaxConns, and never serves  *)
(* one effective client on more than tcpMaxConnsPerIP connections          *)
(* (the slots channel and sourceCap).                                      *)
ListenerLimits ==
  \A g \in Gen :
    /\ Cardinality(HandlersOf(g)) <= MaxConns
    /\ \A a \in Client : Cardinality(CountedFor(g, a)) <= MaxPerIP

(* The slots in use are exactly the running handlers and sourceCap.perIP   *)
(* exactly their clients: no early return of handleTCP leaks a slot or a   *)
(* count, so a listener never ends up refusing everyone.                   *)
CountersExact ==
  \A g \in Gen :
    /\ slots[g] = Cardinality(HandlersOf(g))
    /\ \A a \in Client : perIP[g][a] = Cardinality(CountedFor(g, a))

(* Every connection of a listener that stops comes to its end, its slot    *)
(* and its count given back, whatever its handler was waiting for.         *)
StoppedDrains ==
  \A c \in Conn : gen[c] \in stopped ~> pc[c] = "done"

(* "StreamStatus reports whether one listener of a stream is actually      *)
(* running" (its comment): a key that is reported running has an accept    *)
(* loop.                                                                   *)
RunningMeansAccepting ==
  syncPc = "idle" /\ active # 0 /\ status = "running" => active \notin deaf

=============================================================================
