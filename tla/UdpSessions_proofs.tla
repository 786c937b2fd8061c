------------------------- MODULE UdpSessions_proofs -------------------------
(***************************************************************************)
(* Proofs that the invariants of UdpSessions hold for any set of clients,  *)
(* addresses and upstream sockets, and for any limits.                     *)
(*                                                                         *)
(* Wired says how the table, the readers and the sockets belong together;  *)
(* it is inductive by itself.  Counted, on top of it, is CountsExact with  *)
(* a table that is finite; it keeps the counts from falling below zero,    *)
(* which completes the type invariant.                                     *)
(***************************************************************************)
EXTENDS UdpSessions, Integers, FiniteSetTheorems, TLAPS

\* TypeOK with counts that might be negative.
WeakTypeOK ==
  /\ listener \in {"open", "closed", "stopped"}
  /\ loop \in {"read", "got", "send", "ended"}
  /\ packet \in Key
  /\ sending \in Up \cup {NoUp}
  /\ sessions \in [Key -> Up \cup {NoUp}]
  /\ perIP \in [Addr -> Int]
  /\ quiet \subseteq Key
  /\ keyOf \in [Up -> Key]
  /\ reader \in [Up -> {"none", "read", "failed", "ended"}]
  /\ upOpen \subseteq Up

\* The first two parts of NoLostSocket, and that a socket is not open before
\* it has a reader.
Wired ==
  /\ \A k \in Live : keyOf[sessions[k]] = k /\ reader[sessions[k]] \in {"read", "failed"}
  /\ \A u \in upOpen : sessions[keyOf[u]] = u \/ reader[u] = "failed"
  /\ \A u \in upOpen : reader[u] # "none"
  /\ quiet \subseteq Live

\* After stop the table is empty until the read loop, which gets no further
\* packet, has dealt with the one it holds.
OneLeft ==
  listener = "stopped" => /\ loop = "got" => Live = {}
                          /\ \A k, l \in Live : k = l

Counted == IsFiniteSet(Live) /\ CountsExact

IInv == WeakTypeOK /\ Wired /\ OneLeft /\ Counted

-----------------------------------------------------------------------------
(* What Forget does to the table.                                          *)
LEMMA ForgetTable ==
    ASSUME WeakTypeOK, NEW ks \in SUBSET Live, Forget(ks)
    PROVE  /\ sessions' \in [Key -> Up \cup {NoUp}]
           /\ Live' = Live \ ks
           /\ \A k \in Live' : sessions'[k] = sessions[k]
           /\ \A k \in ks : sessions'[k] = NoUp
           /\ \A k \in Key : k \notin ks => sessions'[k] = sessions[k]
           /\ quiet' = quiet \ ks
  BY ConstantsAssumption DEF WeakTypeOK, Forget, Live

(* Forget takes from every count what leaves the table.                    *)
LEMMA ForgetCounts ==
    ASSUME WeakTypeOK, Counted, NEW ks \in SUBSET Live, Forget(ks)
    PROVE  perIP' \in [Addr -> Int] /\ Counted'
<1>1. Live' = Live \ ks /\ IsFiniteSet(Live) /\ IsFiniteSet(ks)
  BY ForgetTable, FS_Subset DEF Counted
<1>2. /\ IsFiniteSet(Live') /\ Cardinality(Live') \in Nat /\ Cardinality(Live) \in Nat
      /\ Cardinality(Live') <= Cardinality(Live)
  BY <1>1, FS_Subset, FS_CardinalityType
<1>3. ASSUME NEW a \in Addr
      PROVE  perIP'[a] = Cardinality({k \in Live' : AddrOf[k] = a}) /\ perIP'[a] \in Int
                /\ perIP'[a] <= MaxPerIP
  <2> DEFINE S == {k \in Live : AddrOf[k] = a}
             T == {k \in ks : AddrOf[k] = a}
  <2>1. IsFiniteSet(S) /\ IsFiniteSet(T) /\ S \cap T = T /\ {k \in Live' : AddrOf[k] = a} = S \ T
    BY <1>1, FS_Subset
  <2>2. Cardinality(S \ T) = Cardinality(S) - Cardinality(T)
    BY <2>1, FS_Difference, ZenonT(60)
  <2>3. Cardinality(S) \in Nat /\ Cardinality(T) \in Nat
    BY <2>1, FS_CardinalityType
  <2>4. perIP'[a] = perIP[a] - Cardinality(T) /\ perIP[a] = Cardinality(S) /\ perIP[a] <= MaxPerIP
    BY DEF Forget, Counted, CountsExact, WeakTypeOK
  <2> QED
    BY <2>1, <2>2, <2>3, <2>4, ConstantsAssumption
<1>4. perIP' = [a \in Addr |-> perIP'[a]]
  BY DEF Forget
<1>5. perIP' \in [Addr -> Int]
  BY <1>3, <1>4
<1>6. Cardinality(Live') <= MaxSessions
  BY <1>2, ConstantsAssumption DEF Counted, CountsExact
<1> QED
  BY <1>2, <1>3, <1>5, <1>6 DEF Counted, CountsExact

-----------------------------------------------------------------------------
LEMMA InitIInv == Init => IInv
<1> SUFFICES ASSUME Init PROVE IInv
  OBVIOUS
<1>1. WeakTypeOK
  BY ConstantsAssumption DEF Init, WeakTypeOK
<1>2. Live = {} /\ \A a \in Addr : {k \in Live : AddrOf[k] = a} = {}
  BY DEF Init, Live
<1>3. Counted
  BY <1>2, FS_EmptySet, ConstantsAssumption DEF Counted, CountsExact, Init
<1> QED
  BY <1>1, <1>2, <1>3 DEF IInv, Wired, OneLeft, Init

(* No step of the read loop, a reader, the sweeper or stop breaks IInv.    *)
LEMMA StepIInv == IInv /\ [Next]_vars => IInv'
<1> SUFFICES ASSUME IInv, [Next]_vars PROVE IInv'
  OBVIOUS
<1> USE ConstantsAssumption
<1> DEFINE Same == UNCHANGED <<sessions, perIP>>
<1>same. ASSUME Same PROVE Live' = Live /\ (Counted => Counted')
  BY <1>same DEF Live, Counted, CountsExact
<1>1. ASSUME NEW k \in Key, Receive(k) PROVE IInv'
  BY <1>1, <1>same DEF IInv, Receive, WeakTypeOK, Wired, OneLeft, tableVars
<1>2. ASSUME NEW k \in Key, GoQuiet(k) PROVE IInv'
  BY <1>2, <1>same DEF IInv, GoQuiet, WeakTypeOK, Wired, OneLeft, loopVars
<1>3. ASSUME ReceiveFails PROVE IInv'
  BY <1>3, <1>same DEF IInv, ReceiveFails, WeakTypeOK, Wired, OneLeft, tableVars
<1>4. ASSUME NEW ok \in BOOLEAN, Drop(ok) PROVE IInv'
  BY <1>4, <1>same DEF IInv, Drop, WeakTypeOK, Wired, OneLeft, tableVars
<1>5. ASSUME Continue PROVE IInv'
  BY <1>5, <1>same DEF IInv, Continue, WeakTypeOK, Wired, OneLeft, Live
<1>6. ASSUME Send PROVE IInv'
  BY <1>6, <1>same DEF IInv, Send, WeakTypeOK, Wired, OneLeft, tableVars
<1>7. ASSUME CloseListener PROVE IInv'
  BY <1>7, <1>same DEF IInv, CloseListener, WeakTypeOK, Wired, OneLeft, tableVars, loopVars
<1>8. ASSUME NEW u \in Up, UpstreamFails(u) PROVE IInv'
  <2>1. Same /\ Live' = Live /\ Counted'
    BY <1>8, <1>same DEF UpstreamFails, tableVars, IInv
  <2>2. WeakTypeOK' /\ OneLeft'
    BY <1>8, <2>1 DEF IInv, UpstreamFails, WeakTypeOK, OneLeft, tableVars, loopVars
  <2>3. Wired'
    BY <1>8, <2>1 DEF IInv, UpstreamFails, WeakTypeOK, Wired, Live, tableVars
  <2> QED
    BY <2>1, <2>2, <2>3 DEF IInv
<1>9. ASSUME NEW u \in Up, Open(u) PROVE IInv'
  <2>1. WeakTypeOK'
    BY <1>9 DEF IInv, Open, WeakTypeOK
  <2>2. /\ Live' = Live \cup {packet} /\ packet \notin Live /\ packet \in Key
        /\ sessions'[packet] = u /\ \A k \in Key \ {packet} : sessions'[k] = sessions[k]
    BY <1>9 DEF IInv, Open, WeakTypeOK, Live
  <2>3. Wired'
    <3>1. ASSUME NEW k \in Live'
          PROVE  keyOf'[sessions'[k]] = k /\ reader'[sessions'[k]] \in {"read", "failed"}
      <4>1. CASE k = packet
        BY <1>9, <2>2, <4>1 DEF IInv, Open, WeakTypeOK
      <4>2. CASE k # packet
        <5>1. k \in Live /\ sessions'[k] = sessions[k] /\ sessions[k] \in Up /\ sessions[k] # u
          BY <1>9, <2>2, <4>2 DEF IInv, Open, WeakTypeOK, Wired, Live
        <5> QED
          BY <1>9, <5>1 DEF IInv, Open, WeakTypeOK, Wired
      <4> QED
        BY <4>1, <4>2
    <3>2. ASSUME NEW v \in upOpen'
          PROVE  (sessions'[keyOf'[v]] = v \/ reader'[v] = "failed") /\ reader'[v] # "none"
      <4>1. CASE v = u
        BY <1>9, <2>2, <4>1 DEF IInv, Open, WeakTypeOK
      <4>2. CASE v # u
        <5>1. /\ v \in upOpen /\ v \in Up /\ keyOf'[v] = keyOf[v] /\ reader'[v] = reader[v]
              /\ keyOf[v] \in Key
          BY <1>9, <4>2 DEF IInv, Open, WeakTypeOK
        <5>2. sessions[keyOf[v]] = v => keyOf[v] # packet
          BY <2>2, <5>1 DEF Live
        <5> QED
          BY <2>2, <5>1, <5>2 DEF IInv, Wired
      <4> QED
        BY <4>1, <4>2
    <3>3. quiet' \subseteq Live'
      BY <1>9, <2>2 DEF IInv, Open, Wired
    <3> QED
      BY <3>1, <3>2, <3>3 DEF Wired
  <2>4. OneLeft'
    BY <1>9, <2>2 DEF IInv, Open, OneLeft
  <2>5. Counted'
    <3>1. /\ IsFiniteSet(Live) /\ Cardinality(Live) \in Nat
          /\ IsFiniteSet(Live') /\ Cardinality(Live') = Cardinality(Live) + 1
      BY <2>2, FS_AddElement, FS_CardinalityType DEF IInv, Counted
    <3>2. Cardinality(Live') <= MaxSessions
      BY <1>9, <3>1 DEF Open
    <3>3. ASSUME NEW a \in Addr
          PROVE  /\ perIP'[a] = Cardinality({k \in Live' : AddrOf[k] = a})
                 /\ perIP'[a] <= MaxPerIP
      <4> DEFINE S == {k \in Live : AddrOf[k] = a}
      <4>1. IsFiniteSet(S) /\ Cardinality(S) \in Nat /\ packet \notin S
        BY <2>2, <3>1, FS_Subset, FS_CardinalityType
      <4>2. perIP[a] = Cardinality(S) /\ perIP[a] <= MaxPerIP
        BY DEF IInv, Counted, CountsExact
      <4>3. CASE a = AddrOf[packet]
        <5>1. {k \in Live' : AddrOf[k] = a} = S \cup {packet}
          BY <2>2, <4>3
        <5>2. Cardinality(S \cup {packet}) = Cardinality(S) + 1
          BY <4>1, FS_AddElement
        <5>3. perIP'[a] = perIP[a] + 1 /\ perIP[a] < MaxPerIP
          BY <1>9, <4>3 DEF Open, IInv, WeakTypeOK
        <5>4. perIP'[a] = Cardinality({k \in Live' : AddrOf[k] = a})
          BY <4>2, <5>1, <5>2, <5>3
        <5>5. perIP'[a] <= MaxPerIP
          BY <4>1, <4>2, <5>3
        <5> QED
          BY <5>4, <5>5
      <4>4. CASE a # AddrOf[packet]
        <5>1. {k \in Live' : AddrOf[k] = a} = S
          BY <2>2, <4>4
        <5>2. perIP'[a] = perIP[a]
          BY <1>9, <4>4 DEF Open, IInv, WeakTypeOK
        <5> QED
          BY <4>2, <5>1, <5>2
      <4> QED
        BY <4>3, <4>4
    <3> QED
      BY <3>1, <3>2, <3>3 DEF Counted, CountsExact
  <2> QED
    BY <2>1, <2>3, <2>4, <2>5 DEF IInv
<1>10. ASSUME NEW u \in Up, ReaderEnds(u) PROVE IInv'
  <2>0. keyOf[u] \in Key /\ reader[u] = "failed"
    BY <1>10 DEF ReaderEnds, IInv, WeakTypeOK
  <2>1. CASE sessions[keyOf[u]] = u
    <3>1. {keyOf[u]} \in SUBSET Live /\ Forget({keyOf[u]})
      BY <1>10, <2>0, <2>1 DEF ReaderEnds, Live
    <3>2. /\ Live' = Live \ {keyOf[u]} /\ sessions' \in [Key -> Up \cup {NoUp}]
          /\ quiet' = quiet \ {keyOf[u]}
          /\ \A k \in Key : k # keyOf[u] => sessions'[k] = sessions[k]
          /\ perIP' \in [Addr -> Int] /\ Counted'
      BY <3>1, ForgetTable, ForgetCounts DEF IInv
    <3>3. WeakTypeOK'
      BY <1>10, <3>2 DEF IInv, ReaderEnds, WeakTypeOK, loopVars
    <3>4. OneLeft'
      BY <1>10, <3>2 DEF IInv, ReaderEnds, OneLeft, loopVars
    <3>5. ASSUME NEW k \in Live'
          PROVE  keyOf'[sessions'[k]] = k /\ reader'[sessions'[k]] \in {"read", "failed"}
      <4>1. k \in Live /\ k \in Key /\ k # keyOf[u] /\ sessions'[k] = sessions[k] /\ sessions[k] \in Up
        BY <3>2 DEF Live, IInv, WeakTypeOK
      <4>2. keyOf[sessions[k]] = k /\ sessions[k] # u
        BY <4>1 DEF IInv, Wired
      <4> QED
        BY <1>10, <4>1, <4>2 DEF IInv, ReaderEnds, WeakTypeOK, Wired
    <3>6. ASSUME NEW v \in upOpen'
          PROVE  (sessions'[keyOf'[v]] = v \/ reader'[v] = "failed") /\ reader'[v] # "none"
      <4>1. v \in upOpen /\ v \in Up /\ v # u /\ reader'[v] = reader[v] /\ keyOf'[v] = keyOf[v]
            /\ keyOf[v] \in Key
        BY <1>10 DEF IInv, ReaderEnds, WeakTypeOK
      <4>2. sessions[keyOf[v]] = v => keyOf[v] # keyOf[u]
        BY <2>1, <4>1
      <4> QED
        BY <3>2, <4>1, <4>2 DEF IInv, Wired
    <3>7. quiet' \subseteq Live'
      BY <3>2 DEF IInv, Wired
    <3> QED
      BY <3>2, <3>3, <3>4, <3>5, <3>6, <3>7 DEF IInv, Wired
  <2>2. CASE sessions[keyOf[u]] # u
    <3>1. Same /\ Live' = Live /\ Counted' /\ quiet' = quiet
      BY <1>10, <2>2, <1>same DEF ReaderEnds, tableVars, IInv
    <3>2. WeakTypeOK' /\ OneLeft'
      BY <1>10, <3>1 DEF IInv, ReaderEnds, WeakTypeOK, OneLeft, loopVars
    <3>3. \A k \in Live : sessions[k] \in Up /\ sessions[k] # u
      BY <2>2 DEF IInv, Wired, Live, WeakTypeOK
    <3>4. Wired'
      BY <1>10, <3>1, <3>3 DEF IInv, ReaderEnds, WeakTypeOK, Wired
    <3> QED
      BY <3>1, <3>2, <3>4 DEF IInv
  <2> QED
    BY <2>1, <2>2
<1>drop. ASSUME NEW ks \in SUBSET Live, Forget(ks), upOpen' = upOpen \ {sessions[k] : k \in ks},
                UNCHANGED <<loopVars, keyOf, reader>>,
                listener' = listener \/ (listener' = "stopped" /\ ks = Live)
         PROVE  IInv'
  <2>1. /\ Live' = Live \ ks /\ sessions' \in [Key -> Up \cup {NoUp}]
        /\ quiet' = quiet \ ks
        /\ \A k \in Key : k \notin ks => sessions'[k] = sessions[k]
        /\ perIP' \in [Addr -> Int] /\ Counted'
    BY <1>drop, ForgetTable, ForgetCounts DEF IInv
  <2>2. WeakTypeOK'
    BY <1>drop, <2>1 DEF IInv, WeakTypeOK, loopVars
  <2>3. OneLeft'
    BY <1>drop, <2>1 DEF IInv, OneLeft, loopVars
  <2>4. ASSUME NEW k \in Live'
        PROVE  keyOf'[sessions'[k]] = k /\ reader'[sessions'[k]] \in {"read", "failed"}
    BY <1>drop, <2>1 DEF IInv, Wired, Live
  <2>5. ASSUME NEW v \in upOpen'
        PROVE  (sessions'[keyOf'[v]] = v \/ reader'[v] = "failed") /\ reader'[v] # "none"
    <3>1. v \in upOpen /\ v \in Up /\ keyOf[v] \in Key /\ keyOf'[v] = keyOf[v] /\ reader'[v] = reader[v]
      BY <1>drop DEF IInv, WeakTypeOK
    <3>2. sessions[keyOf[v]] = v => keyOf[v] \notin ks
      BY <1>drop, <3>1
    <3> QED
      BY <2>1, <3>1, <3>2 DEF IInv, Wired
  <2>6. quiet' \subseteq Live'
    BY <2>1 DEF IInv, Wired
  <2> QED
    BY <2>1, <2>2, <2>3, <2>4, <2>5, <2>6 DEF IInv, Wired
<1>11. ASSUME Sweep PROVE IInv'
  BY <1>11, <1>drop DEF Sweep, IInv, Wired
<1>12. ASSUME EndSessions PROVE IInv'
  BY <1>12, <1>drop DEF EndSessions
<1>13. ASSUME UNCHANGED vars PROVE IInv'
  BY <1>13, <1>same DEF vars, IInv, WeakTypeOK, Wired, OneLeft, loopVars, tableVars
<1> QED
  BY <1>1, <1>2, <1>3, <1>4, <1>5, <1>6, <1>7, <1>8, <1>9, <1>10, <1>11, <1>12, <1>13 DEF Next

LEMMA Invariance == Spec => []IInv
BY InitIInv, StepIInv, PTL DEF Spec

-----------------------------------------------------------------------------
(* The type invariant: in particular no count per address falls below      *)
(* zero, whoever of the sweeper, a reader and stop ends a session.         *)
THEOREM TypeCorrect == Spec => []TypeOK
<1>1. IInv => TypeOK
  <2> SUFFICES ASSUME IInv PROVE TypeOK
    OBVIOUS
  <2>1. ASSUME NEW a \in Addr PROVE perIP[a] \in Nat
    BY FS_Subset, FS_CardinalityType DEF IInv, Counted, CountsExact
  <2> QED
    BY <2>1 DEF IInv, WeakTypeOK, TypeOK
<1> QED
  BY <1>1, Invariance, PTL

(* The counts per address are exact, and both limits of a UDP listener     *)
(* hold, for any number of clients and sessions.                           *)
THEOREM CountsExactHolds == Spec => []CountsExact
<1>1. IInv => CountsExact
  BY DEF IInv, Counted
<1> QED
  BY <1>1, Invariance, PTL

(* No upstream socket is lost: each one that is open is in the table or    *)
(* about to be closed by its reader, and a stopped listener has at most    *)
(* one session left.                                                       *)
THEOREM NoLostSocketHolds == Spec => []NoLostSocket
<1>1. IInv => NoLostSocket
  <2> SUFFICES ASSUME IInv PROVE NoLostSocket
    OBVIOUS
  <2>1. ASSUME listener = "stopped" PROVE Cardinality(Live) <= 1
    <3>1. CASE Live = {}
      BY <3>1, FS_EmptySet
    <3>2. CASE Live # {}
      <4>1. PICK k \in Live : TRUE
        BY <3>2
      <4>2. Live = {k}
        BY <2>1, <4>1 DEF IInv, OneLeft
      <4> QED
        BY <4>2, FS_Singleton
    <3> QED
      BY <3>1, <3>2
  <2> QED
    BY <2>1 DEF IInv, Wired, NoLostSocket
<1> QED
  BY <1>1, Invariance, PTL
=============================================================================
