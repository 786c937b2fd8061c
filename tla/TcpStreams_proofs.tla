-------------------------- MODULE TcpStreams_proofs --------------------------
(***************************************************************************)
(* Proofs that the invariants of TcpStreams hold for every number of       *)
(* connections, clients, specifications, limits and restarts.              *)
(*                                                                         *)
(* The argument has two layers.  Shape relates the generations to the      *)
(* connections: a connection that could carry bytes is in the tracker of a *)
(* live listener, or closeAll holds it, or it is closed.  On top of it,    *)
(* CountersExact is inductive, which bounds the counters from below (so    *)
(* that they have their type) and from above (so that the limits hold).    *)
(***************************************************************************)
EXTENDS TcpStreams, FiniteSetTheorems, TLAPS

\* TypeOK with counters that might be negative.
WeakTypeOK ==
  /\ applied \in AnySpec
  /\ syncPc \in {"idle", "sync", "stopAll"}
  /\ active \in 0..MaxGen
  /\ status \in {"none", "running", "failed"}
  /\ gens \in 0..MaxGen
  /\ sigOf \in [Gen -> AnySpec]
  /\ stopped \subseteq Gen
  /\ deaf \subseteq Gen
  /\ toClose \subseteq Conn
  /\ pc \in [Conn -> Stage]
  /\ gen \in [Conn -> 0..MaxGen]
  /\ who \in [Conn -> Client]
  /\ tracked \subseteq Conn
  /\ attached \subseteq Conn
  /\ rawOpen \subseteq Conn
  /\ backOpen \subseteq Conn
  /\ slots \in [Gen -> Int]
  /\ perIP \in [Gen -> [Client -> Int]]

\* The stages after the source filter admitted the client.
Admitted == {"acquire", "route", "dial", "attach", "splice"}

\* Every started generation is the active one or has stopped, and the active
\* one runs the spec Sync applied.
Generations ==
  /\ \A g \in Gen : g <= gens => (g = active \/ g \in stopped)
  /\ \A g \in Gen : g <= gens => sigOf[g] \in Specs \ Broken
  /\ \A g \in stopped : g <= gens
  /\ active # 0 => /\ active <= gens
                   /\ active \notin stopped
                   /\ sigOf[active] = applied
  /\ syncPc = "stopAll" => active = 0
  /\ syncPc = "idle" => toClose = {}

\* Where a connection stands with its listener's tracker.
Connections ==
  \A c \in Conn :
    /\ pc[c] # "none" => gen[c] \in Gen /\ gen[c] <= gens
    /\ pc[c] = "none" => gen[c] = 0
    /\ c \in tracked => pc[c] # "none" /\ gen[c] \notin stopped
    /\ pc[c] \in Admitted => who[c] \in Allow[sigOf[gen[c]]]
    /\ pc[c] = "splice" => \/ c \in tracked /\ c \in attached
                           \/ c \in toClose /\ c \in attached
                           \/ c \notin rawOpen /\ c \notin backOpen

Shape == WeakTypeOK /\ Generations /\ Connections

(* A manager that has not synced yet satisfies Shape.                      *)
LEMMA InitShape == Init => Shape
  BY SpecsAssumption, BoundsAssumption
  DEF Init, Shape, WeakTypeOK, Generations, Connections, AnySpec, Gen, Stage, Handling, Admitted

(* No step of Sync, StopAll, the accept loop or a handler breaks Shape.     *)
LEMMA NextShape == Shape /\ [Next]_vars => Shape'
<1> SUFFICES ASSUME Shape, [Next]_vars PROVE Shape'
  OBVIOUS
<1> USE SpecsAssumption, BoundsAssumption DEF Shape, AnySpec, Gen, Stage, Handling, GoTo,
      syncVars, connVars, openVars, trackVars, capVars
<1>1. ASSUME NEW s \in AnySpec, SyncBegin(s) PROVE Shape'
  <2>1. CASE MustStop(s)
    <3>0. active \in Gen /\ Stop(active)
      BY <1>1, <2>1 DEF SyncBegin, MustStop, WeakTypeOK
    <3>1. WeakTypeOK'
      BY <1>1, <3>0 DEF SyncBegin, Stop, WeakTypeOK
    <3>2. Generations'
      BY <1>1, <2>1 DEF SyncBegin, Stop, MustStop, WeakTypeOK, Generations
    <3>3. Connections'
      BY <1>1, <2>1 DEF SyncBegin, Stop, MustStop, WeakTypeOK, Generations, Connections, Admitted
    <3> QED BY <3>1, <3>2, <3>3
  <2>2. CASE ~MustStop(s)
    <3>0. active # 0 => sigOf[active] = s
      BY <2>2 DEF MustStop
    <3>1. /\ applied' = s
          /\ syncPc' = "sync"
          /\ UNCHANGED <<active, status, gens, sigOf>>
          /\ UNCHANGED <<connVars, openVars, trackVars, capVars, deaf>>
      BY <1>1, <2>2 DEF SyncBegin
    <3>2. WeakTypeOK'
      BY <3>1 DEF WeakTypeOK
    <3>3. Generations'
      BY <3>0, <3>1 DEF WeakTypeOK, Generations
    <3>4. Connections'
      BY <3>1 DEF Connections
    <3> QED BY <3>2, <3>3, <3>4
  <2> QED BY <2>1, <2>2
<1>2. ASSUME StopAll PROVE Shape'
  <2>1. WeakTypeOK'
    BY <1>2 DEF StopAll, Stop, WeakTypeOK
  <2>2. Generations'
    BY <1>2 DEF StopAll, Stop, WeakTypeOK, Generations
  <2>3. Connections'
    BY <1>2 DEF StopAll, Stop, WeakTypeOK, Generations, Connections, Admitted
  <2> QED BY <2>1, <2>2, <2>3
<1>3. ASSUME StopAllEnd PROVE Shape'
  <2>1. WeakTypeOK'
    BY <1>3 DEF StopAllEnd, WeakTypeOK
  <2>2. Generations'
    BY <1>3 DEF StopAllEnd, WeakTypeOK, Generations
  <2>3. Connections'
    BY <1>3 DEF StopAllEnd, WeakTypeOK, Generations, Connections, Admitted
  <2> QED BY <2>1, <2>2, <2>3
<1>4. ASSUME NEW ok \in BOOLEAN, SyncEnd(ok) PROVE Shape'
  <2>1. CASE UNCHANGED <<active, gens, sigOf>>
    <3>1. WeakTypeOK'
      BY <1>4, <2>1 DEF SyncEnd, WeakTypeOK
    <3>2. Generations'
      BY <1>4, <2>1 DEF SyncEnd, WeakTypeOK, Generations
    <3>3. Connections'
      BY <1>4, <2>1 DEF SyncEnd, WeakTypeOK, Generations, Connections, Admitted
    <3> QED BY <3>1, <3>2, <3>3
  <2>2. CASE applied \in Specs \ Broken /\ active = 0 /\ gens < MaxGen /\ gens' = gens + 1
              /\ active' = gens' /\ sigOf' = [sigOf EXCEPT ![gens'] = applied]
              /\ status' = "running"
    <3>1. WeakTypeOK'
      BY <1>4, <2>2 DEF SyncEnd, WeakTypeOK
    <3>2. Generations'
      BY <1>4, <2>2 DEF SyncEnd, WeakTypeOK, Generations
    <3>3. Connections'
      <4>1. UNCHANGED <<connVars, openVars, trackVars>>
        BY <1>4 DEF SyncEnd
      <4>2. ASSUME NEW g \in Gen, g <= gens PROVE sigOf'[g] = sigOf[g] /\ g <= gens'
        BY <2>2, <4>2 DEF WeakTypeOK
      <4>3. ASSUME NEW d \in Conn, pc[d] \in Admitted PROVE sigOf'[gen[d]] = sigOf[gen[d]]
        BY <4>2, <4>3 DEF Connections, Admitted
      <4> QED BY <4>1, <4>2, <4>3 DEF Connections
    <3> QED BY <3>1, <3>2, <3>3
  <2> QED BY <1>4, <2>1, <2>2 DEF SyncEnd
<1>5. ASSUME NEW c \in Conn, CloseTaken(c) PROVE Shape'
  <2>1. WeakTypeOK'
    BY <1>5 DEF CloseTaken, WeakTypeOK
  <2>2. Generations'
    BY <1>5 DEF CloseTaken, WeakTypeOK, Generations
  <2>3. Connections'
    BY <1>5 DEF CloseTaken, WeakTypeOK, Generations, Connections, Admitted
  <2> QED BY <2>1, <2>2, <2>3
<1>6. ASSUME AcceptFails PROVE Shape'
  <2>1. WeakTypeOK'
    BY <1>6 DEF AcceptFails, WeakTypeOK
  <2>2. Generations'
    BY <1>6 DEF AcceptFails, WeakTypeOK, Generations
  <2>3. Connections'
    BY <1>6 DEF AcceptFails, WeakTypeOK, Generations, Connections, Admitted
  <2> QED BY <2>1, <2>2, <2>3
<1>7. ASSUME NEW c \in Conn, Accept(c) PROVE Shape'
  <2>1. WeakTypeOK'
    BY <1>7 DEF Accept, WeakTypeOK
  <2>2. Generations'
    BY <1>7 DEF Accept, WeakTypeOK, Generations
  <2>3. Connections'
    <3>1. /\ pc[c] = "none" /\ pc' = [pc EXCEPT ![c] = "accepted"]
          /\ gen' = [gen EXCEPT ![c] = active]
          /\ rawOpen' = rawOpen \cup {c}
          /\ UNCHANGED <<syncVars, who, backOpen, trackVars>>
      BY <1>7 DEF Accept
    <3>2. pc'[c] = "accepted" /\ gen'[c] = active
      BY <3>1 DEF WeakTypeOK
    <3>3. \A d \in Conn : d # c => pc'[d] = pc[d] /\ gen'[d] = gen[d]
      BY <3>1 DEF WeakTypeOK
    <3>4. active \in Gen /\ active <= gens
      BY <1>7 DEF Accept, WeakTypeOK, Generations
    <3> QED BY <3>1, <3>2, <3>3, <3>4 DEF Connections, Admitted
  <2> QED BY <2>1, <2>2, <2>3
<1>8. ASSUME NEW c \in Conn, Track(c) PROVE Shape'
  <2>1. CASE gen[c] \in stopped
    <3>1. WeakTypeOK'
      BY <1>8, <2>1 DEF Track, WeakTypeOK
    <3>2. Generations'
      BY <1>8, <2>1 DEF Track, WeakTypeOK, Generations
    <3>3. Connections'
      <4>1. /\ pc[c] = "accepted" /\ pc' = [pc EXCEPT ![c] = "done"]
            /\ rawOpen' = rawOpen \ {c}
            /\ UNCHANGED <<syncVars, gen, who, backOpen, trackVars>>
        BY <1>8, <2>1 DEF Track
      <4>2. pc'[c] = "done" /\ \A d \in Conn : d # c => pc'[d] = pc[d]
        BY <4>1 DEF WeakTypeOK
      <4> QED BY <4>1, <4>2 DEF Connections, Admitted
    <3> QED BY <3>1, <3>2, <3>3
  <2>2. CASE gen[c] \notin stopped
    <3>1. WeakTypeOK'
      BY <1>8, <2>2 DEF Track, WeakTypeOK
    <3>2. Generations'
      BY <1>8, <2>2 DEF Track, WeakTypeOK, Generations
    <3>3. Connections'
      <4>1. /\ pc[c] = "accepted" /\ pc' = [pc EXCEPT ![c] = "slot"]
            /\ tracked' = tracked \cup {c}
            /\ UNCHANGED <<syncVars, gen, who, openVars, stopped, toClose, attached>>
        BY <1>8, <2>2 DEF Track
      <4>2. pc'[c] = "slot" /\ \A d \in Conn : d # c => pc'[d] = pc[d]
        BY <4>1 DEF WeakTypeOK
      <4> QED BY <2>2, <4>1, <4>2 DEF Connections, Admitted
    <3> QED BY <3>1, <3>2, <3>3
  <2> QED BY <1>8, <2>1, <2>2 DEF Track
<1>9. ASSUME NEW c \in Conn, Slot(c) PROVE Shape'
  <2>1. gen[c] \in Gen /\ pc[c] = "slot"
    BY <1>9 DEF Slot, Connections
  <2>2. /\ UNCHANGED <<syncVars, gen, who, backOpen, stopped, toClose, attached>>
        /\ UNCHANGED <<perIP, deaf>>
    BY <1>9 DEF Slot
  <2>3. CASE /\ slots' = [slots EXCEPT ![gen[c]] = @ + 1]
             /\ pc' = [pc EXCEPT ![c] = "identify"]
             /\ UNCHANGED <<tracked, rawOpen>>
    <3>1. WeakTypeOK'
      <4>1. slots' \in [Gen -> Int]
        BY <2>1, <2>3 DEF WeakTypeOK
      <4>2. pc' \in [Conn -> Stage]
        BY <2>3 DEF WeakTypeOK
      <4> QED BY <2>2, <2>3, <4>1, <4>2 DEF WeakTypeOK
    <3>2. Generations'
      BY <2>2, <2>3 DEF Generations
    <3>3. Connections'
      BY <2>1, <2>2, <2>3 DEF WeakTypeOK, Connections, Admitted
    <3> QED BY <3>1, <3>2, <3>3
  <2>4. CASE /\ tracked' = tracked \ {c}
             /\ rawOpen' = rawOpen \ {c}
             /\ pc' = [pc EXCEPT ![c] = "done"]
             /\ UNCHANGED slots
    <3>1. WeakTypeOK'
      BY <2>1, <2>2, <2>4 DEF WeakTypeOK
    <3>2. Generations'
      BY <2>2, <2>4 DEF Generations
    <3>3. Connections'
      BY <2>1, <2>2, <2>4 DEF WeakTypeOK, Connections, Admitted
    <3> QED BY <3>1, <3>2, <3>3
  <2> QED BY <1>9, <2>3, <2>4 DEF Slot
<1>10. ASSUME NEW c \in Conn, NEW a \in Client, NEW ok \in BOOLEAN, Identify(c, a, ok) PROVE Shape'
  <2>1. gen[c] \in Gen
    BY <1>10 DEF Identify, Connections
  <2>2. CASE ok /\ a \in Allow[sigOf[gen[c]]]
    <3>1. WeakTypeOK'
      <4>1. /\ pc' = [pc EXCEPT ![c] = "acquire"]
            /\ who' = [who EXCEPT ![c] = a]
            /\ UNCHANGED <<syncVars, gen, openVars, trackVars, capVars, deaf>>
        BY <1>10, <2>2 DEF Identify
      <4>2. pc' \in [Conn -> Stage]
        BY <4>1 DEF WeakTypeOK
      <4>3. who' \in [Conn -> Client]
        BY <4>1 DEF WeakTypeOK
      <4> QED BY <4>1, <4>2, <4>3 DEF WeakTypeOK
    <3>2. Generations'
      BY <1>10, <2>2, <2>1 DEF Identify, WeakTypeOK, Generations
    <3>3. Connections'
      <4>1. /\ pc[c] = "identify"
            /\ pc' = [pc EXCEPT ![c] = "acquire"]
            /\ who' = [who EXCEPT ![c] = a]
            /\ UNCHANGED <<syncVars, gen, openVars, trackVars>>
        BY <1>10, <2>2 DEF Identify
      <4>2. ASSUME NEW d \in Conn, d # c PROVE pc'[d] = pc[d] /\ who'[d] = who[d]
        BY <4>1, <4>2 DEF WeakTypeOK
      <4>3. pc'[c] = "acquire" /\ who'[c] \in Allow[sigOf[gen[c]]]
        BY <4>1, <2>2 DEF WeakTypeOK
      <4> QED BY <2>1, <4>1, <4>2, <4>3 DEF Connections, Admitted
    <3> QED BY <3>1, <3>2, <3>3
  <2>3. CASE ~(ok /\ a \in Allow[sigOf[gen[c]]])
    <3>1. WeakTypeOK'
      BY <1>10, <2>3, <2>1 DEF Identify, WeakTypeOK
    <3>2. Generations'
      BY <1>10, <2>3, <2>1 DEF Identify, WeakTypeOK, Generations
    <3>3. Connections'
      <4>1. /\ pc[c] = "identify" /\ pc' = [pc EXCEPT ![c] = "untrack"]
            /\ UNCHANGED <<syncVars, gen, who, openVars, trackVars>>
        BY <1>10, <2>3 DEF Identify
      <4>2. pc'[c] = "untrack" /\ \A d \in Conn : d # c => pc'[d] = pc[d]
        BY <4>1 DEF WeakTypeOK
      <4> QED BY <4>1, <4>2 DEF Connections, Admitted
    <3> QED BY <3>1, <3>2, <3>3
  <2> QED BY <1>10, <2>2, <2>3 DEF Identify
<1>11. ASSUME NEW c \in Conn, Acquire(c) PROVE Shape'
  <2>0. gen[c] \in Gen
    BY <1>11 DEF Acquire, Connections
  <2>1. WeakTypeOK'
    <3>1. \/ perIP' = [perIP EXCEPT ![gen[c]][who[c]] = @ + 1]
          \/ perIP' = perIP
      BY <1>11 DEF Acquire
    <3>2. perIP' \in [Gen -> [Client -> Int]]
      <4>1. CASE perIP' = [perIP EXCEPT ![gen[c]][who[c]] = @ + 1]
        BY <2>0, <4>1 DEF WeakTypeOK
      <4>2. CASE perIP' = perIP
        BY <4>2 DEF WeakTypeOK
      <4> QED BY <3>1, <4>1, <4>2
    <3>3. pc' \in [Conn -> Stage]
      BY <1>11 DEF Acquire, WeakTypeOK
    <3> QED BY <1>11, <3>2, <3>3 DEF Acquire, WeakTypeOK
  <2>2. Generations'
    BY <1>11 DEF Acquire, WeakTypeOK, Generations
  <2>3. Connections'
    <3>1. /\ pc[c] = "acquire"
          /\ \E stage \in {"route", "untrack"} : pc' = [pc EXCEPT ![c] = stage]
          /\ UNCHANGED <<syncVars, gen, who, openVars, trackVars>>
      BY <1>11 DEF Acquire
    <3>2. pc'[c] \in {"route", "untrack"} /\ \A d \in Conn : d # c => pc'[d] = pc[d]
      BY <3>1 DEF WeakTypeOK
    <3> QED BY <3>1, <3>2 DEF Connections, Admitted
  <2> QED BY <2>1, <2>2, <2>3
<1>12. ASSUME NEW c \in Conn, NEW ok \in BOOLEAN, Route(c, ok) PROVE Shape'
  <2>1. WeakTypeOK'
    BY <1>12 DEF Route, WeakTypeOK
  <2>2. Generations'
    BY <1>12 DEF Route, WeakTypeOK, Generations
  <2>3. Connections'
    BY <1>12 DEF Route, WeakTypeOK, Generations, Connections, Admitted
  <2> QED BY <2>1, <2>2, <2>3
<1>13. ASSUME NEW c \in Conn, NEW ok \in BOOLEAN, Dial(c, ok) PROVE Shape'
  <2>1. WeakTypeOK'
    BY <1>13 DEF Dial, WeakTypeOK
  <2>2. Generations'
    BY <1>13 DEF Dial, WeakTypeOK, Generations
  <2>3. Connections'
    BY <1>13 DEF Dial, WeakTypeOK, Generations, Connections, Admitted
  <2> QED BY <2>1, <2>2, <2>3
<1>14. ASSUME NEW c \in Conn, NEW ok \in BOOLEAN, Attach(c, ok) PROVE Shape'
  <2>1. WeakTypeOK'
    BY <1>14 DEF Attach, WeakTypeOK
  <2>2. Generations'
    BY <1>14 DEF Attach, WeakTypeOK, Generations
  <2>3. Connections'
    BY <1>14 DEF Attach, WeakTypeOK, Generations, Connections, Admitted
  <2> QED BY <2>1, <2>2, <2>3
<1>15. ASSUME NEW c \in Conn, SpliceCut(c) PROVE Shape'
  <2>1. WeakTypeOK'
    BY <1>15 DEF SpliceCut, WeakTypeOK
  <2>2. Generations'
    BY <1>15 DEF SpliceCut, WeakTypeOK, Generations
  <2>3. Connections'
    BY <1>15 DEF SpliceCut, WeakTypeOK, Generations, Connections, Admitted
  <2> QED BY <2>1, <2>2, <2>3
<1>16. ASSUME NEW c \in Conn, SpliceOver(c) PROVE Shape'
  <2>1. WeakTypeOK'
    BY <1>16 DEF SpliceOver, WeakTypeOK
  <2>2. Generations'
    BY <1>16 DEF SpliceOver, WeakTypeOK, Generations
  <2>3. Connections'
    BY <1>16 DEF SpliceOver, WeakTypeOK, Generations, Connections, Admitted
  <2> QED BY <2>1, <2>2, <2>3
<1>17. ASSUME NEW c \in Conn, Release(c) PROVE Shape'
  <2>0. gen[c] \in Gen
    BY <1>17 DEF Release, Connections
  <2>1. WeakTypeOK'
    <3>1. perIP' \in [Gen -> [Client -> Int]]
      BY <1>17, <2>0 DEF Release, WeakTypeOK
    <3>2. pc' \in [Conn -> Stage]
      BY <1>17 DEF Release, WeakTypeOK
    <3> QED BY <1>17, <3>1, <3>2 DEF Release, WeakTypeOK
  <2>2. Generations'
    BY <1>17 DEF Release, WeakTypeOK, Generations
  <2>3. Connections'
    BY <1>17 DEF Release, WeakTypeOK, Generations, Connections, Admitted
  <2> QED BY <2>1, <2>2, <2>3
<1>18. ASSUME NEW c \in Conn, Untrack(c) PROVE Shape'
  <2>1. WeakTypeOK'
    BY <1>18 DEF Untrack, WeakTypeOK
  <2>2. Generations'
    BY <1>18 DEF Untrack, WeakTypeOK, Generations
  <2>3. Connections'
    BY <1>18 DEF Untrack, WeakTypeOK, Generations, Connections, Admitted
  <2> QED BY <2>1, <2>2, <2>3
<1>19. ASSUME NEW c \in Conn, FreeSlot(c) PROVE Shape'
  <2>0. gen[c] \in Gen
    BY <1>19 DEF FreeSlot, Connections
  <2>1. WeakTypeOK'
    <3>1. slots' \in [Gen -> Int]
      BY <1>19, <2>0 DEF FreeSlot, WeakTypeOK
    <3>2. pc' \in [Conn -> Stage]
      BY <1>19 DEF FreeSlot, WeakTypeOK
    <3> QED BY <1>19, <3>1, <3>2 DEF FreeSlot, WeakTypeOK
  <2>2. Generations'
    BY <1>19 DEF FreeSlot, WeakTypeOK, Generations
  <2>3. Connections'
    BY <1>19 DEF FreeSlot, WeakTypeOK, Generations, Connections, Admitted
  <2> QED BY <2>1, <2>2, <2>3
<1>20. CASE UNCHANGED vars
  BY <1>20 DEF vars, WeakTypeOK, Generations, Connections, Admitted
<1> QED
  BY <1>1, <1>2, <1>3, <1>4, <1>5, <1>6, <1>7, <1>8, <1>9, <1>10, <1>11, <1>12, <1>13, <1>14, <1>15, <1>16, <1>17, <1>18, <1>19, <1>20 DEF Next, Manager, Progress

-----------------------------------------------------------------------------
(* The counters.                                                           *)

SlotsExact ==
  \A g \in Gen : slots[g] = Cardinality(HandlersOf(g)) /\ slots[g] <= MaxConns

ClientsExact ==
  \A g \in Gen, a \in Client :
    perIP[g][a] = Cardinality(CountedFor(g, a)) /\ perIP[g][a] <= MaxPerIP

\* A step that neither starts nor ends a handler.
KeepsHandlers ==
  /\ slots' = slots
  /\ \A c \in Conn : /\ pc'[c] \in Handling <=> pc[c] \in Handling
                     /\ pc[c] \in Handling => gen'[c] = gen[c]

\* A step that neither counts a client nor gives a count back.
KeepsClients ==
  /\ perIP' = perIP
  /\ \A c \in Conn : /\ pc'[c] \in Counted <=> pc[c] \in Counted
                     /\ pc[c] \in Counted => gen'[c] = gen[c] /\ who'[c] = who[c]

(* A step that starts and ends no handler keeps the slot counts exact.     *)
LEMMA KeepSlots == SlotsExact /\ KeepsHandlers => SlotsExact'
<1> SUFFICES ASSUME SlotsExact, KeepsHandlers PROVE SlotsExact'
  OBVIOUS
<1>1. \A g \in Gen : HandlersOf(g)' = HandlersOf(g)
  BY DEF KeepsHandlers, HandlersOf
<1> QED BY <1>1 DEF SlotsExact, KeepsHandlers

(* A step that passes neither acquire nor release keeps sourceCap exact.   *)
LEMMA KeepCounts == ClientsExact /\ KeepsClients => ClientsExact'
<1> SUFFICES ASSUME ClientsExact, KeepsClients PROVE ClientsExact'
  OBVIOUS
<1>1. \A g \in Gen, a \in Client : CountedFor(g, a)' = CountedFor(g, a)
  BY DEF KeepsClients, CountedFor
<1> QED BY <1>1 DEF ClientsExact, KeepsClients

(* The sets that the counters count are finite, as Conn is.                *)
LEMMA CountedFinite ==
  ASSUME NEW g, NEW a
  PROVE  IsFiniteSet(HandlersOf(g)) /\ IsFiniteSet(CountedFor(g, a))
  BY ConnAssumption, FS_Subset DEF HandlersOf, CountedFor

(* All counters are zero, and no connection is being handled, at first.    *)
LEMMA InitCounters == Init => SlotsExact /\ ClientsExact
<1> SUFFICES ASSUME Init PROVE SlotsExact /\ ClientsExact
  OBVIOUS
<1>1. \A g \in Gen : HandlersOf(g) = {}
  BY DEF Init, HandlersOf, Handling
<1>2. \A g \in Gen, a \in Client : CountedFor(g, a) = {}
  BY DEF Init, CountedFor, Counted
<1>3. Cardinality({}) = 0
  BY FS_EmptySet
<1>4. /\ \A g \in Gen : slots[g] = 0
      /\ \A g \in Gen, a \in Client : perIP[g][a] = 0
  BY DEF Init
<1>5. 0 <= MaxConns /\ 0 <= MaxPerIP
  BY BoundsAssumption
<1>6. SlotsExact
  BY <1>1, <1>3, <1>4, <1>5 DEF SlotsExact
<1>7. ClientsExact
  BY <1>2, <1>3, <1>4, <1>5 DEF ClientsExact
<1> QED BY <1>6, <1>7

(* Taking a slot, or refusing a connection on a full listener, counts the  *)
(* handler that starts.                                                    *)
LEMMA SlotExact ==
  ASSUME Shape, SlotsExact, NEW c \in Conn, Slot(c) PROVE SlotsExact'
<1>1. gen[c] \in Gen /\ pc[c] = "slot" /\ gen' = gen
  BY DEF Slot, Shape, Connections
<1>2. CASE slots[gen[c]] < MaxConns
  <2>1. /\ slots' = [slots EXCEPT ![gen[c]] = @ + 1]
        /\ pc' = [pc EXCEPT ![c] = "identify"]
    BY <1>1, <1>2, BoundsAssumption DEF Slot, Shape, WeakTypeOK
  <2> SUFFICES ASSUME NEW g \in Gen
               PROVE  slots'[g] = Cardinality(HandlersOf(g)') /\ slots'[g] <= MaxConns
    BY DEF SlotsExact
  <2>2. CASE g = gen[c]
    <3>1. HandlersOf(g)' = HandlersOf(g) \cup {c} /\ c \notin HandlersOf(g)
      BY <1>1, <2>1, <2>2 DEF HandlersOf, Handling, Shape, WeakTypeOK
    <3>2. Cardinality(HandlersOf(g)') = Cardinality(HandlersOf(g)) + 1
      BY <3>1, CountedFinite, FS_AddElement
    <3>3. slots'[g] = slots[g] + 1
      BY <2>1, <2>2 DEF Shape, WeakTypeOK
    <3> QED BY <1>2, <2>2, <3>2, <3>3, BoundsAssumption DEF SlotsExact, Shape, WeakTypeOK
  <2>3. CASE g # gen[c]
    <3>1. HandlersOf(g)' = HandlersOf(g)
      BY <1>1, <2>1, <2>3 DEF HandlersOf, Handling, Shape, WeakTypeOK
    <3> QED BY <2>1, <2>3, <3>1 DEF SlotsExact, Shape, WeakTypeOK
  <2> QED BY <2>2, <2>3
<1>3. CASE ~(slots[gen[c]] < MaxConns)
  <2>1. slots' = slots /\ pc' = [pc EXCEPT ![c] = "done"]
    BY <1>3 DEF Slot
  <2>2. KeepsHandlers
    BY <1>1, <2>1 DEF KeepsHandlers, Handling, Shape, WeakTypeOK
  <2> QED BY <2>2, KeepSlots
<1> QED BY <1>2, <1>3

(* Giving a slot back counts the handler that ends.                        *)
LEMMA FreeSlotExact ==
  ASSUME Shape, SlotsExact, NEW c \in Conn, FreeSlot(c) PROVE SlotsExact'
<1>1. /\ gen[c] \in Gen /\ pc[c] = "freeSlot" /\ gen' = gen
      /\ slots' = [slots EXCEPT ![gen[c]] = @ - 1]
      /\ pc' = [pc EXCEPT ![c] = "done"]
  BY DEF FreeSlot, GoTo, Shape, Connections
<1> SUFFICES ASSUME NEW g \in Gen
             PROVE  slots'[g] = Cardinality(HandlersOf(g)') /\ slots'[g] <= MaxConns
  BY DEF SlotsExact
<1>2. CASE g = gen[c]
  <2>1. HandlersOf(g)' = HandlersOf(g) \ {c} /\ c \in HandlersOf(g)
    BY <1>1, <1>2 DEF HandlersOf, Handling, Shape, WeakTypeOK
  <2>2. Cardinality(HandlersOf(g)') = Cardinality(HandlersOf(g)) - 1
    BY <2>1, CountedFinite, FS_RemoveElement
  <2>3. slots'[g] = slots[g] - 1
    BY <1>1, <1>2 DEF Shape, WeakTypeOK
  <2> QED BY <1>2, <2>2, <2>3, BoundsAssumption DEF SlotsExact, Shape, WeakTypeOK
<1>3. CASE g # gen[c]
  <2>1. HandlersOf(g)' = HandlersOf(g)
    BY <1>1, <1>3 DEF HandlersOf, Handling, Shape, WeakTypeOK
  <2> QED BY <1>1, <1>3, <2>1 DEF SlotsExact, Shape, WeakTypeOK
<1> QED BY <1>2, <1>3

(* sourceCap.acquire counts the client it lets in, up to the limit.        *)
LEMMA AcquireExact ==
  ASSUME Shape, ClientsExact, NEW c \in Conn, Acquire(c) PROVE ClientsExact'
<1>1. gen[c] \in Gen /\ pc[c] = "acquire" /\ gen' = gen /\ who' = who
  BY DEF Acquire, Shape, Connections
<1>2. CASE perIP[gen[c]][who[c]] < MaxPerIP
  <2>1. /\ perIP' = [perIP EXCEPT ![gen[c]][who[c]] = @ + 1]
        /\ pc' = [pc EXCEPT ![c] = "route"]
    BY <1>2 DEF Acquire, GoTo
  <2> SUFFICES ASSUME NEW g \in Gen, NEW a \in Client
               PROVE  /\ perIP'[g][a] = Cardinality(CountedFor(g, a)')
                      /\ perIP'[g][a] <= MaxPerIP
    BY DEF ClientsExact
  <2>2. CASE g = gen[c] /\ a = who[c]
    <3>1. CountedFor(g, a)' = CountedFor(g, a) \cup {c} /\ c \notin CountedFor(g, a)
      BY <1>1, <2>1, <2>2 DEF CountedFor, Counted, Shape, WeakTypeOK
    <3>2. Cardinality(CountedFor(g, a)') = Cardinality(CountedFor(g, a)) + 1
      BY <3>1, CountedFinite, FS_AddElement
    <3>3. perIP'[g][a] = perIP[g][a] + 1
      BY <2>1, <2>2 DEF Shape, WeakTypeOK
    <3> QED BY <1>2, <2>2, <3>2, <3>3, BoundsAssumption DEF ClientsExact, Shape, WeakTypeOK
  <2>3. CASE ~(g = gen[c] /\ a = who[c])
    <3>1. CountedFor(g, a)' = CountedFor(g, a)
      BY <1>1, <2>1, <2>3 DEF CountedFor, Counted, Shape, WeakTypeOK
    <3>2. perIP'[g][a] = perIP[g][a]
      BY <1>1, <2>1, <2>3 DEF Shape, WeakTypeOK
    <3> QED BY <3>1, <3>2 DEF ClientsExact
  <2> QED BY <2>2, <2>3
<1>3. CASE ~(perIP[gen[c]][who[c]] < MaxPerIP)
  <2>1. perIP' = perIP /\ pc' = [pc EXCEPT ![c] = "untrack"]
    BY <1>3 DEF Acquire, GoTo
  <2>2. KeepsClients
    BY <1>1, <2>1 DEF KeepsClients, Counted, Shape, WeakTypeOK
  <2> QED BY <2>2, KeepCounts
<1> QED BY <1>2, <1>3

(* sourceCap.release takes back the count of the client that leaves.       *)
LEMMA ReleaseExact ==
  ASSUME Shape, ClientsExact, NEW c \in Conn, Release(c) PROVE ClientsExact'
<1>1. /\ gen[c] \in Gen /\ pc[c] = "release" /\ gen' = gen /\ who' = who
      /\ perIP' = [perIP EXCEPT ![gen[c]][who[c]] = @ - 1]
      /\ pc' = [pc EXCEPT ![c] = "untrack"]
  BY DEF Release, GoTo, Shape, Connections
<1> SUFFICES ASSUME NEW g \in Gen, NEW a \in Client
             PROVE  /\ perIP'[g][a] = Cardinality(CountedFor(g, a)')
                    /\ perIP'[g][a] <= MaxPerIP
  BY DEF ClientsExact
<1>2. CASE g = gen[c] /\ a = who[c]
  <2>1. CountedFor(g, a)' = CountedFor(g, a) \ {c} /\ c \in CountedFor(g, a)
    BY <1>1, <1>2 DEF CountedFor, Counted, Shape, WeakTypeOK
  <2>2. Cardinality(CountedFor(g, a)') = Cardinality(CountedFor(g, a)) - 1
    BY <2>1, CountedFinite, FS_RemoveElement
  <2>3. perIP'[g][a] = perIP[g][a] - 1
    BY <1>1, <1>2 DEF Shape, WeakTypeOK
  <2> QED BY <1>2, <2>2, <2>3, BoundsAssumption DEF ClientsExact, Shape, WeakTypeOK
<1>3. CASE ~(g = gen[c] /\ a = who[c])
  <2>1. CountedFor(g, a)' = CountedFor(g, a)
    BY <1>1, <1>3 DEF CountedFor, Counted, Shape, WeakTypeOK
  <2>2. perIP'[g][a] = perIP[g][a]
    BY <1>1, <1>3 DEF Shape, WeakTypeOK
  <2> QED BY <2>1, <2>2 DEF ClientsExact
<1> QED BY <1>2, <1>3

(* Every step keeps both kinds of counters exact and within their limits.  *)
LEMMA NextCounters ==
  Shape /\ SlotsExact /\ ClientsExact /\ [Next]_vars => SlotsExact' /\ ClientsExact'
<1> SUFFICES ASSUME Shape, SlotsExact, ClientsExact, [Next]_vars
             PROVE  SlotsExact' /\ ClientsExact'
  OBVIOUS
<1> USE DEF Shape, WeakTypeOK, GoTo, Handling, Counted,
      syncVars, connVars, openVars, trackVars, capVars
<1>1. ASSUME NEW s \in AnySpec, SyncBegin(s) PROVE SlotsExact' /\ ClientsExact'
  <2>1. KeepsHandlers /\ KeepsClients
    BY <1>1 DEF SyncBegin, KeepsHandlers, KeepsClients
  <2> QED BY <2>1, KeepSlots, KeepCounts
<1>2. ASSUME StopAll PROVE SlotsExact' /\ ClientsExact'
  <2>1. KeepsHandlers /\ KeepsClients
    BY <1>2 DEF StopAll, KeepsHandlers, KeepsClients
  <2> QED BY <2>1, KeepSlots, KeepCounts
<1>3. ASSUME StopAllEnd PROVE SlotsExact' /\ ClientsExact'
  <2>1. KeepsHandlers /\ KeepsClients
    BY <1>3 DEF StopAllEnd, KeepsHandlers, KeepsClients
  <2> QED BY <2>1, KeepSlots, KeepCounts
<1>4. ASSUME NEW ok \in BOOLEAN, SyncEnd(ok) PROVE SlotsExact' /\ ClientsExact'
  <2>1. KeepsHandlers /\ KeepsClients
    BY <1>4 DEF SyncEnd, KeepsHandlers, KeepsClients
  <2> QED BY <2>1, KeepSlots, KeepCounts
<1>5. ASSUME NEW c \in Conn, CloseTaken(c) PROVE SlotsExact' /\ ClientsExact'
  <2>1. KeepsHandlers /\ KeepsClients
    BY <1>5 DEF CloseTaken, KeepsHandlers, KeepsClients
  <2> QED BY <2>1, KeepSlots, KeepCounts
<1>6. ASSUME AcceptFails PROVE SlotsExact' /\ ClientsExact'
  <2>1. KeepsHandlers /\ KeepsClients
    BY <1>6 DEF AcceptFails, KeepsHandlers, KeepsClients
  <2> QED BY <2>1, KeepSlots, KeepCounts
<1>7. ASSUME NEW c \in Conn, Accept(c) PROVE SlotsExact' /\ ClientsExact'
  <2>1. KeepsHandlers /\ KeepsClients
    BY <1>7 DEF Accept, KeepsHandlers, KeepsClients
  <2> QED BY <2>1, KeepSlots, KeepCounts
<1>8. ASSUME NEW c \in Conn, Track(c) PROVE SlotsExact' /\ ClientsExact'
  <2>1. KeepsHandlers /\ KeepsClients
    BY <1>8 DEF Track, KeepsHandlers, KeepsClients
  <2> QED BY <2>1, KeepSlots, KeepCounts
<1>9. ASSUME NEW c \in Conn, Slot(c) PROVE SlotsExact' /\ ClientsExact'
  <2>1. SlotsExact'
    BY <1>9, SlotExact
  <2>2. KeepsClients
    BY <1>9 DEF Slot, KeepsClients
  <2> QED BY <2>1, <2>2, KeepCounts
<1>10. ASSUME NEW c \in Conn, NEW a \in Client, NEW ok \in BOOLEAN, Identify(c, a, ok) PROVE SlotsExact' /\ ClientsExact'
  <2>1. KeepsHandlers /\ KeepsClients
    BY <1>10 DEF Identify, KeepsHandlers, KeepsClients
  <2> QED BY <2>1, KeepSlots, KeepCounts
<1>11. ASSUME NEW c \in Conn, Acquire(c) PROVE SlotsExact' /\ ClientsExact'
  <2>1. ClientsExact'
    BY <1>11, AcquireExact
  <2>2. KeepsHandlers
    BY <1>11 DEF Acquire, KeepsHandlers
  <2> QED BY <2>1, <2>2, KeepSlots
<1>12. ASSUME NEW c \in Conn, NEW ok \in BOOLEAN, Route(c, ok) PROVE SlotsExact' /\ ClientsExact'
  <2>1. KeepsHandlers /\ KeepsClients
    BY <1>12 DEF Route, KeepsHandlers, KeepsClients
  <2> QED BY <2>1, KeepSlots, KeepCounts
<1>13. ASSUME NEW c \in Conn, NEW ok \in BOOLEAN, Dial(c, ok) PROVE SlotsExact' /\ ClientsExact'
  <2>1. KeepsHandlers /\ KeepsClients
    BY <1>13 DEF Dial, KeepsHandlers, KeepsClients
  <2> QED BY <2>1, KeepSlots, KeepCounts
<1>14. ASSUME NEW c \in Conn, NEW ok \in BOOLEAN, Attach(c, ok) PROVE SlotsExact' /\ ClientsExact'
  <2>1. KeepsHandlers /\ KeepsClients
    BY <1>14 DEF Attach, KeepsHandlers, KeepsClients
  <2> QED BY <2>1, KeepSlots, KeepCounts
<1>15. ASSUME NEW c \in Conn, SpliceCut(c) PROVE SlotsExact' /\ ClientsExact'
  <2>1. KeepsHandlers /\ KeepsClients
    BY <1>15 DEF SpliceCut, KeepsHandlers, KeepsClients
  <2> QED BY <2>1, KeepSlots, KeepCounts
<1>16. ASSUME NEW c \in Conn, SpliceOver(c) PROVE SlotsExact' /\ ClientsExact'
  <2>1. KeepsHandlers /\ KeepsClients
    BY <1>16 DEF SpliceOver, KeepsHandlers, KeepsClients
  <2> QED BY <2>1, KeepSlots, KeepCounts
<1>17. ASSUME NEW c \in Conn, Release(c) PROVE SlotsExact' /\ ClientsExact'
  <2>1. ClientsExact'
    BY <1>17, ReleaseExact
  <2>2. KeepsHandlers
    BY <1>17 DEF Release, KeepsHandlers
  <2> QED BY <2>1, <2>2, KeepSlots
<1>18. ASSUME NEW c \in Conn, Untrack(c) PROVE SlotsExact' /\ ClientsExact'
  <2>1. KeepsHandlers /\ KeepsClients
    BY <1>18 DEF Untrack, KeepsHandlers, KeepsClients
  <2> QED BY <2>1, KeepSlots, KeepCounts
<1>19. ASSUME NEW c \in Conn, FreeSlot(c) PROVE SlotsExact' /\ ClientsExact'
  <2>1. SlotsExact'
    BY <1>19, FreeSlotExact
  <2>2. KeepsClients
    BY <1>19 DEF FreeSlot, KeepsClients
  <2> QED BY <2>1, <2>2, KeepCounts
<1>20. CASE UNCHANGED vars
  <2>1. KeepsHandlers /\ KeepsClients
    BY <1>20 DEF vars, KeepsHandlers, KeepsClients
  <2> QED BY <2>1, KeepSlots, KeepCounts
<1> QED
  BY <1>1, <1>2, <1>3, <1>4, <1>5, <1>6, <1>7, <1>8, <1>9, <1>10, <1>11, <1>12, <1>13, <1>14, <1>15, <1>16, <1>17, <1>18, <1>19, <1>20 DEF Next, Manager, Progress

-----------------------------------------------------------------------------
(* The theorems.                                                           *)

(* The inductive invariant: the shape of the listener and exact counters.  *)
LEMMA Invariance == Spec => [](Shape /\ SlotsExact /\ ClientsExact)
<1>1. Init => Shape /\ SlotsExact /\ ClientsExact
  BY InitShape, InitCounters
<1>2. Shape /\ SlotsExact /\ ClientsExact /\ [Next]_vars
        => (Shape /\ SlotsExact /\ ClientsExact)'
  BY NextShape, NextCounters
<1> QED BY <1>1, <1>2, PTL DEF Spec

(* The counters of a listener are exactly its handlers and their clients:  *)
(* no path through handleTCP leaks a slot or a sourceCap count.            *)
THEOREM CountersExactHolds == Spec => []CountersExact
<1>1. SlotsExact /\ ClientsExact => CountersExact
  BY DEF SlotsExact, ClientsExact, CountersExact
<1> QED BY <1>1, Invariance, PTL

(* Every variable of the manager has its type; the counters are never      *)
(* negative.                                                               *)
THEOREM TypeCorrect == Spec => []TypeOK
<1>1. Shape /\ SlotsExact /\ ClientsExact => TypeOK
  <2> SUFFICES ASSUME Shape, SlotsExact, ClientsExact PROVE TypeOK
    OBVIOUS
  <2>1. ASSUME NEW g \in Gen PROVE slots[g] \in Nat
    BY CountedFinite, FS_CardinalityType DEF SlotsExact
  <2>2. ASSUME NEW g \in Gen, NEW a \in Client PROVE perIP[g][a] \in Nat
    BY CountedFinite, FS_CardinalityType DEF ClientsExact
  <2>3. slots \in [Gen -> Nat]
    BY <2>1 DEF Shape, WeakTypeOK
  <2>4. perIP \in [Gen -> [Client -> Nat]]
    BY <2>2 DEF Shape, WeakTypeOK
  <2> QED BY <2>3, <2>4 DEF Shape, WeakTypeOK, TypeOK
<1> QED BY <1>1, Invariance, PTL

(* A listener stays within tcpMaxConns handlers and serves each client on  *)
(* at most tcpMaxConnsPerIP connections.                                   *)
THEOREM LimitsHold == Spec => []ListenerLimits
<1>1. SlotsExact /\ ClientsExact => ListenerLimits
  BY DEF SlotsExact, ClientsExact, ListenerLimits
<1> QED BY <1>1, Invariance, PTL

(* After a Sync only connections that its filter admits carry bytes.       *)
THEOREM SourceRestrictionHolds == Spec => []SourceRestriction
<1>1. Shape => SourceRestriction
  <2> SUFFICES ASSUME Shape, syncPc = "idle", NEW c \in Conn, Carrying(c)
               PROVE  /\ active # 0
                      /\ gen[c] = active
                      /\ applied \in Specs \ Broken
                      /\ who[c] \in Allow[applied]
    BY DEF SourceRestriction
  <2>1. c \in tracked
    BY DEF Shape, Generations, Connections, Carrying
  <2>2. gen[c] \in Gen /\ gen[c] <= gens /\ gen[c] \notin stopped
    BY <2>1 DEF Shape, Connections
  <2>3. gen[c] = active
    BY <2>2 DEF Shape, Generations
  <2>4. who[c] \in Allow[sigOf[gen[c]]]
    BY DEF Shape, Connections, Carrying, Admitted
  <2> QED BY <2>2, <2>3, <2>4 DEF Shape, Generations, Gen
<1> QED BY <1>1, Invariance, PTL

(* A connection of a stopped listener that is past attach has both its     *)
(* sides closed once closeAll is through with it.                          *)
THEOREM StoppedConnectionsEndHolds == Spec => []StoppedConnectionsEnd
<1>1. Shape => StoppedConnectionsEnd
  BY DEF Shape, Connections, StoppedConnectionsEnd
<1> QED BY <1>1, Invariance, PTL
=============================================================================
