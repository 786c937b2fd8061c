---------------------------- MODULE Engine_proofs ----------------------------
(***************************************************************************)
(* Proofs that the properties of Routing hold for any names, any           *)
(* configurations of any number of hosts, and any requests.                *)
(*                                                                         *)
(* The inductive invariant bounds the callers of Reload (Tries), says      *)
(* which configuration the running Reload has read, built and swapped in   *)
(* unless somebody waits to reload again (Fresh), that what is being       *)
(* swapped in was built for the hosts that were read (BuiltFor), and that  *)
(* every public request whose host lost a public name is noted as late,    *)
(* but for the registered ones while the Reload that ends them has not yet *)
(* done so (Late).                                                         *)
(*                                                                         *)
(* The second part proves the properties of BanManager, for any threshold, *)
(* window and number of addresses: see there.                              *)
(***************************************************************************)
EXTENDS Routing, BanManager, Integers, FiniteSetTheorems, SequenceTheorems,
        WellFoundedInduction, TLAPS

DbStates == {f \in [DbHost -> Config \cup {Absent}] : \A h \in DbHost : f[h] \in DbConfig[h] \cup {Absent}}
DkStates == {f \in [DkHost -> Config \cup {Absent}] : \A h \in DkHost : f[h] \in DkConfig[h] \cup {Absent}}
Tables == [AnyName -> Config \cup {Absent}]

\* TypeOK, with the functions that are there and natural counts.
Types ==
  /\ db \in DbStates
  /\ hosts \in DbStates
  /\ docker \in DkStates
  /\ changes \in 0..MaxChanges
  /\ callers \in [first : Nat, last : Nat]
  /\ reload \in {"idle", "build", "swap", "end"}
  /\ asLast \in BOOLEAN
  /\ stale \in BOOLEAN
  /\ built \in Tables
  /\ table \in Tables
  /\ at \in [Req -> {"new", "routed", "open", "cut", "done"}]
  /\ route \in [Req -> Config \cup {Absent}]
  /\ viaVPN \in [Req -> BOOLEAN]
  /\ open \subseteq Req
  /\ late \subseteq Req

\* A try that fails makes room for the next one of its caller.
Building == IF reload = "build" /\ ~asLast THEN 1 ELSE 0
Tries ==
  /\ callers.first <= changes
  /\ callers.first + callers.last + Building <= changes + 1

Nobody == callers.first + callers.last = 0

Fresh ==
  Nobody =>
    /\ reload # "idle" => hosts = db
    /\ reload = "swap" => built = Place(hosts, docker)
    /\ reload = "end" => table = Place(hosts, docker)
    /\ reload = "idle" /\ ~stale => table = Place(db, docker)

BuiltFor ==
  /\ reload = "swap" => \E dk \in DkStates : built = Place(hosts, dk)
  /\ reload = "end" => \E dk \in DkStates : table = Place(hosts, dk)

Late ==
  /\ open = {r \in Req : at[r] = "open" /\ ~viaVPN[r]}
  /\ \A r \in Req : at[r] = "routed" /\ ~viaVPN[r] /\ LeftPublicSide(table, r) => r \in late
  /\ reload # "end" => \A r \in open : LeftPublicSide(table, r) => r \in late

IInv == Types /\ Tries /\ Fresh /\ BuiltFor /\ Late

-----------------------------------------------------------------------------
(* The table.                                                              *)

(* A set of natural numbers has a least element.                           *)
LEMMA Least == ASSUME NEW T \in SUBSET Nat, T # {} PROVE \E x \in T : \A y \in T : x <= y
<1>1. IsWellFoundedOn(OpToRel(<, Nat), Nat)
  BY NatLessThanWellFounded
<1>2. PICK x \in T : \A y \in T : ~(<<y, x>> \in OpToRel(<, Nat))
  BY <1>1, WFMin
<1>3. \A y \in T : ~(y < x)
  BY <1>2 DEF OpToRel
<1> QED
  BY <1>3

(* What place puts in the table: a stored host that serves the name, else  *)
(* a Docker host that serves it and only if no stored host configures the  *)
(* name, else nothing.                                                     *)
LEMMA PlaceIs ==
    ASSUME NEW stored \in DbStates, NEW dk \in DkStates, NEW d \in AnyName
    PROVE  \/ \E h \in DbHost : ServedBy(stored, h, d) /\ Place(stored, dk)[d] = stored[h]
           \/ /\ ~\E h \in DbHost : ServedBy(stored, h, d)
              /\ ~Configured(stored, d)
              /\ \E h \in DkHost : ServedBy(dk, h, d) /\ Place(stored, dk)[d] = dk[h]
           \/ /\ ~\E h \in DbHost : ServedBy(stored, h, d)
              /\ Place(stored, dk)[d] = Absent
<1>1. CASE \E h \in DbHost : ServedBy(stored, h, d)
  <2> DEFINE c == CHOOSE h \in DbHost : ServedBy(stored, h, d)
  <2>1. c \in DbHost /\ ServedBy(stored, c, d)
    BY <1>1, Zenon
  <2>2. Place(stored, dk)[d] = stored[c]
    BY <1>1 DEF Place
  <2> QED
    BY <2>1, <2>2, Zenon
<1>2. CASE ~(\E h \in DbHost : ServedBy(stored, h, d)) /\ ~Configured(stored, d) /\ \E h \in DkHost : ServedBy(dk, h, d)
  <2> DEFINE S == {h \in DkHost : ServedBy(dk, h, d)}
             P(h) == ServedBy(dk, h, d) /\ \A g \in DkHost : ServedBy(dk, g, d) => h <= g
             c == CHOOSE h \in DkHost : P(h)
  <2>1. PICK x \in S : \A y \in S : x <= y
    <3>1. S \in SUBSET Nat /\ S # {}
      BY <1>2, RoutingAssumption DEF DkHost
    <3> HIDE DEF S
    <3> QED
      BY <3>1, Least
  <2>2. \E h \in DkHost : P(h)
    BY <2>1
  <2>3. c \in DkHost /\ P(c)
    <3> HIDE DEF P
    <3> QED
      BY <2>2, Zenon
  <2>4. Place(stored, dk)[d] = dk[c]
    BY <1>2 DEF Place
  <2> QED
    BY <1>2, <2>3, <2>4, Zenon
<1>3. CASE ~(\E h \in DbHost : ServedBy(stored, h, d))
           /\ ~(~Configured(stored, d) /\ \E h \in DkHost : ServedBy(dk, h, d))
  BY <1>3 DEF Place
<1> QED
  BY <1>1, <1>2, <1>3, Zenon

(* So every route is a configuration of some host.                         *)
LEMMA PlaceType == ASSUME NEW stored \in DbStates, NEW dk \in DkStates PROVE Place(stored, dk) \in Tables
<1>1. ASSUME NEW d \in AnyName PROVE Place(stored, dk)[d] \in Config \cup {Absent}
  <2>1. ASSUME NEW h \in DbHost PROVE stored[h] \in Config \cup {Absent}
    BY DEF DbStates
  <2>2. ASSUME NEW h \in DkHost PROVE dk[h] \in Config \cup {Absent}
    BY DEF DkStates
  <2> QED
    BY <2>1, <2>2, PlaceIs
<1>2. Place(stored, dk) = [d \in AnyName |-> Place(stored, dk)[d]]
  BY DEF Place
<1> QED
  BY <1>1, <1>2 DEF Tables

(* The names of a host that is in the table and public are public names.   *)
LEMMA PublicIs ==
    ASSUME NEW t, NEW d \in AnyName, t[d] # Absent, ~t[d].vpnOnly
    PROVE  t[d].names \subseteq PublicNames(t)
  BY DEF PublicNames

(* A route that lookup finds is in the table.                              *)
LEMMA LookupIs ==
    ASSUME NEW n \in Name, NEW t
    PROVE  \E d \in AnyName : Lookup(t, n) = t[d]
  BY RoutingAssumption DEF Lookup, AnyName

-----------------------------------------------------------------------------
(* The steps.                                                              *)

(* A caller more or less.                                                  *)
LEMMA CallersMove ==
    ASSUME callers \in [first : Nat, last : Nat]
    PROVE  /\ [callers EXCEPT !.first = @ + 1] = [first |-> callers.first + 1, last |-> callers.last]
           /\ [callers EXCEPT !.first = @ - 1] = [first |-> callers.first - 1, last |-> callers.last]
           /\ [callers EXCEPT !.last = @ + 1] = [first |-> callers.first, last |-> callers.last + 1]
           /\ [callers EXCEPT !.last = @ - 1] = [first |-> callers.first, last |-> callers.last - 1]
           /\ callers.first \in Nat /\ callers.last \in Nat
  OBVIOUS

(* A host is saved, deleted, or changed by its labels.                     *)
LEMMA SaveHostStep ==
    ASSUME IInv, NEW h \in DbHost, NEW c \in DbConfig[h] \cup {Absent}, SaveHost(h, c)
    PROVE  IInv'
<1>1. /\ callers' = [first |-> callers.first + 1, last |-> callers.last]
      /\ callers.first \in Nat /\ callers.last \in Nat
      /\ changes' = changes + 1 /\ changes \in Nat /\ changes < MaxChanges /\ MaxChanges \in Nat
      /\ UNCHANGED <<docker, reload, hosts, asLast, stale, built, table, at, route, viaVPN, open, late>>
  BY CallersMove, RoutingAssumption DEF IInv, Types, SaveHost, reloadVars, reqVars
<1>2. db' \in DbStates
  <2>1. c \in Config \cup {Absent}
    BY DEF Config
  <2> QED
    BY <2>1 DEF IInv, Types, SaveHost, DbStates
<1>3. Types'
  BY <1>1, <1>2 DEF IInv, Types
<1>4. Tries' /\ ~Nobody'
  BY <1>1 DEF IInv, Tries, Building, Nobody
<1>5. BuiltFor' /\ Late'
  BY <1>1 DEF IInv, BuiltFor, Late, LeftPublicSide, PublicNames
<1> QED
  BY <1>3, <1>4, <1>5 DEF IInv, Fresh

LEMMA SetDockerStep ==
    ASSUME IInv, NEW h \in DkHost, NEW c \in DkConfig[h] \cup {Absent}, SetDockerRoutes(h, c)
    PROVE  IInv'
<1>1. /\ callers' = [first |-> callers.first, last |-> callers.last + 1]
      /\ callers.first \in Nat /\ callers.last \in Nat
      /\ changes' = changes + 1 /\ changes \in Nat /\ changes < MaxChanges /\ MaxChanges \in Nat
      /\ UNCHANGED <<db, reload, hosts, asLast, stale, built, table, at, route, viaVPN, open, late>>
  BY CallersMove, RoutingAssumption DEF IInv, Types, SetDockerRoutes, reloadVars, reqVars
<1>2. docker' \in DkStates
  <2>1. c \in Config \cup {Absent}
    BY DEF Config
  <2> QED
    BY <2>1 DEF IInv, Types, SetDockerRoutes, DkStates
<1>3. Types'
  BY <1>1, <1>2 DEF IInv, Types
<1>4. Tries' /\ ~Nobody'
  BY <1>1 DEF IInv, Tries, Building, Nobody
<1>5. BuiltFor' /\ Late'
  BY <1>1 DEF IInv, BuiltFor, Late, LeftPublicSide, PublicNames
<1> QED
  BY <1>3, <1>4, <1>5 DEF IInv, Fresh

(* A Reload begins, or fails on a query.                                   *)
LEMMA ReloadStartStep ==
    ASSUME IInv, NEW last \in BOOLEAN, ReloadStart(last)
    PROVE  IInv'
<1>1. /\ reload = "idle" /\ reload' = "build" /\ hosts' = db /\ asLast' = last
      /\ UNCHANGED <<db, docker, changes, stale, built, table, at, route, viaVPN, open, late>>
  BY DEF ReloadStart, reqVars
<1>2. callers.first \in Nat /\ callers.last \in Nat /\ changes \in Nat
  BY CallersMove, RoutingAssumption DEF IInv, Types
<1>3. \/ last /\ callers.last > 0 /\ callers' = [first |-> callers.first, last |-> callers.last - 1]
      \/ ~last /\ callers.first > 0 /\ callers' = [first |-> callers.first - 1, last |-> callers.last]
  BY CallersMove DEF IInv, Types, ReloadStart
<1>4. Types'
  <2>1. callers' \in [first : Nat, last : Nat]
    BY <1>2, <1>3
  <2> QED
    BY <1>1, <2>1 DEF IInv, Types
<1>5. Tries'
  BY <1>1, <1>2, <1>3 DEF IInv, Tries, Building
<1>6. Fresh' /\ BuiltFor'
  BY <1>1 DEF Fresh, BuiltFor
<1>7. Late'
  BY <1>1 DEF IInv, Late, LeftPublicSide, PublicNames
<1> QED
  BY <1>4, <1>5, <1>6, <1>7 DEF IInv

LEMMA ReloadFailsStep == ASSUME IInv, ReloadFails PROVE IInv'
<1>1. /\ reload = "build" /\ reload' = "idle" /\ stale' = (stale \/ asLast)
      /\ UNCHANGED <<db, docker, changes, hosts, asLast, built, table, at, route, viaVPN, open, late>>
  BY DEF ReloadFails, reqVars
<1>2. callers.first \in Nat /\ callers.last \in Nat /\ changes \in Nat /\ asLast \in BOOLEAN /\ stale \in BOOLEAN
  BY CallersMove, RoutingAssumption DEF IInv, Types
<1>3. \/ asLast /\ callers' = callers
      \/ ~asLast /\ callers' = [first |-> callers.first, last |-> callers.last + 1]
  BY CallersMove DEF IInv, Types, ReloadFails
<1>4. Types'
  <2>1. callers' \in [first : Nat, last : Nat] /\ stale' \in BOOLEAN
    BY <1>1, <1>2, <1>3 DEF IInv, Types
  <2> QED
    BY <1>1, <2>1 DEF IInv, Types
<1>5. Tries'
  BY <1>1, <1>2, <1>3 DEF IInv, Tries, Building
<1>6. Fresh' /\ BuiltFor'
  <2>1. CASE asLast
    BY <1>1, <2>1 DEF Fresh, BuiltFor
  <2>2. CASE ~asLast
    BY <1>1, <1>2, <1>3, <2>2 DEF Fresh, BuiltFor, Nobody
  <2> QED
    BY <2>1, <2>2
<1>7. Late'
  BY <1>1 DEF IInv, Late, LeftPublicSide, PublicNames
<1> QED
  BY <1>4, <1>5, <1>6, <1>7 DEF IInv

(* The table is built ...                                                  *)
LEMMA ReloadBuildStep == ASSUME IInv, ReloadBuild PROVE IInv'
<1>1. /\ reload = "build" /\ reload' = "swap" /\ built' = Place(hosts, docker)
      /\ UNCHANGED <<db, docker, changes, callers, hosts, asLast, stale, table, at, route, viaVPN, open, late>>
  BY DEF ReloadBuild, configVars, reqVars
<1>2. hosts \in DbStates /\ docker \in DkStates
  BY DEF IInv, Types
<1>3. Types'
  BY <1>1, <1>2, PlaceType DEF IInv, Types
<1>4. Tries'
  <2>1. callers.first \in Nat /\ callers.last \in Nat /\ changes \in Nat
    BY CallersMove, RoutingAssumption DEF IInv, Types
  <2> QED
    BY <1>1, <2>1 DEF IInv, Tries, Building
<1>5. Fresh'
  <2>1. Place(hosts, docker)' = Place(hosts, docker)
    BY <1>1 DEF Place, ServedBy, Configured
  <2> QED
    BY <1>1, <2>1 DEF IInv, Fresh, Nobody
<1>6. BuiltFor'
  <2>1. \A dk : Place(hosts', dk) = Place(hosts, dk)
    BY <1>1
  <2> QED
    BY <1>1, <1>2, <2>1 DEF BuiltFor
<1>7. Late'
  BY <1>1 DEF IInv, Late, LeftPublicSide, PublicNames
<1> QED
  BY <1>3, <1>4, <1>5, <1>6, <1>7 DEF IInv

(* ... and swapped in: what was looked up in the old one is late.          *)
LEMMA ReloadSwapStep == ASSUME IInv, ReloadSwap PROVE IInv'
<1>1. /\ reload = "swap" /\ reload' = "end" /\ table' = built /\ late' = late \cup {r \in Req : at[r] = "routed"}
      /\ UNCHANGED <<db, docker, changes, callers, hosts, asLast, stale, built, at, route, viaVPN, open>>
  BY DEF ReloadSwap, configVars
<1>2. Types' /\ Tries'
  BY <1>1 DEF IInv, Types, Tries, Building
<1>3. Fresh'
  <2>1. Place(hosts, docker)' = Place(hosts, docker)
    BY <1>1 DEF Place, ServedBy, Configured
  <2> QED
    BY <1>1, <2>1 DEF IInv, Fresh, Nobody
<1>4. BuiltFor'
  <2>1. PICK dk \in DkStates : built = Place(hosts, dk)
    BY <1>1 DEF IInv, BuiltFor
  <2> QED
    BY <1>1, <2>1 DEF BuiltFor
<1>5. Late'
  BY <1>1 DEF IInv, Late
<1> QED
  BY <1>2, <1>3, <1>4, <1>5 DEF IInv

(* endNoLongerPublic has seen every registered request.                    *)
LEMMA ReloadEndStep == ASSUME IInv, ReloadEnd PROVE IInv'
<1> DEFINE ended == {r \in open : LeftPublicSide(table, r)}
<1>1. /\ reload = "end" /\ reload' = "idle" /\ stale' = FALSE
      /\ at' = [r \in Req |-> IF r \in ended THEN "cut" ELSE at[r]]
      /\ open' = open \ ended /\ late' = late \ open
      /\ UNCHANGED <<db, docker, changes, callers, hosts, asLast, built, table, route, viaVPN>>
  BY DEF ReloadEnd, configVars
<1>2. \A r \in Req : LeftPublicSide(table, r)' <=> LeftPublicSide(table, r)
  BY <1>1 DEF LeftPublicSide, PublicNames
<1>3. Types' /\ Tries'
  <2> HIDE DEF ended
  <2>1. at' \in [Req -> {"new", "routed", "open", "cut", "done"}]
    BY <1>1 DEF IInv, Types
  <2>2. Types'
    BY <1>1, <2>1 DEF IInv, Types
  <2> QED
    BY <1>1, <2>2 DEF IInv, Tries, Building
<1>4. Fresh' /\ BuiltFor'
  <2>1. Place(db, docker)' = Place(db, docker)
    BY <1>1 DEF Place, ServedBy, Configured
  <2>2. Fresh'
    BY <1>1, <2>1 DEF IInv, Fresh, Nobody
  <2>3. BuiltFor'
    BY <1>1 DEF BuiltFor
  <2> QED
    BY <2>2, <2>3
<1>5. Late'
  <2>1. open' = {r \in Req : at'[r] = "open" /\ ~viaVPN'[r]}
    BY <1>1 DEF IInv, Late, Types
  <2>2. \A r \in Req : at'[r] = "routed" /\ ~viaVPN'[r] /\ LeftPublicSide(table, r) => r \in late'
    BY <1>1 DEF IInv, Late, Types
  <2>3. \A r \in open' : LeftPublicSide(table, r) => r \in late'
    BY <1>1
  <2> QED
    BY <1>2, <2>1, <2>2, <2>3 DEF IInv, Types, Late
<1> QED
  BY <1>3, <1>4, <1>5 DEF IInv

(* Requests leave the configuration and the table alone.                   *)
LEMMA RequestFrame ==
    ASSUME IInv, UNCHANGED <<configVars, reloadVars>>
    PROVE  /\ Tries' /\ Fresh' /\ BuiltFor'
           /\ PublicNames(table)' = PublicNames(table)
           /\ UNCHANGED <<table, reload>>
<1>1. UNCHANGED <<db, docker, changes, callers, reload, hosts, asLast, stale, built, table>>
  BY DEF configVars, reloadVars
<1>2. Tries'
  BY <1>1 DEF IInv, Tries, Building
<1>3. Place(hosts, docker)' = Place(hosts, docker) /\ Place(db, docker)' = Place(db, docker)
  BY <1>1 DEF Place, ServedBy, Configured
<1>4. Fresh'
  BY <1>1, <1>3 DEF IInv, Fresh, Nobody
<1>5. BuiltFor'
  <2>1. \A dk : Place(hosts', dk) = Place(hosts, dk)
    BY <1>1
  <2> QED
    BY <1>1, <2>1 DEF IInv, BuiltFor
<1> QED
  BY <1>1, <1>2, <1>4, <1>5 DEF PublicNames

(* A request from outside that gets a route gets one that is public under  *)
(* all of its names.                                                       *)
LEMMA ServeStep ==
    ASSUME IInv, NEW r \in Req, NEW n \in Name, Serve(r, n)
    PROVE  IInv'
<1> DEFINE rt == Lookup(table, n)
<1>1. /\ at[r] = "new" /\ UNCHANGED <<viaVPN, open, late>> /\ UNCHANGED <<configVars, reloadVars>>
  BY DEF Serve
<1>2. PICK d \in AnyName : rt = table[d]
  BY LookupIs
<1>3. rt \in Config \cup {Absent}
  BY <1>2 DEF IInv, Types, Tables
<1>4. \/ at' = [at EXCEPT ![r] = "done"] /\ route' = route
      \/ /\ at' = [at EXCEPT ![r] = "routed"] /\ route' = [route EXCEPT ![r] = rt]
         /\ ~(rt = Absent \/ (rt.vpnOnly /\ ~viaVPN[r]))
  BY DEF Serve
<1>5. Types'
  <2> HIDE DEF rt
  <2>1. at' \in [Req -> {"new", "routed", "open", "cut", "done"}] /\ route' \in [Req -> Config \cup {Absent}]
    BY <1>3, <1>4 DEF IInv, Types
  <2> QED
    BY <1>1, <2>1 DEF IInv, Types, configVars, reloadVars
<1>6. Late'
  <2>1. \A q \in Req : q # r => at'[q] = at[q] /\ route'[q] = route[q]
    BY <1>4 DEF IInv, Types
  <2>2. at'[r] \in {"done", "routed"}
    BY <1>4 DEF IInv, Types
  <2>3. at'[r] = "routed" /\ ~viaVPN[r] => route'[r].names \subseteq PublicNames(table)
    <3> SUFFICES ASSUME at'[r] = "routed", ~viaVPN[r] PROVE route'[r].names \subseteq PublicNames(table)
      OBVIOUS
    <3>1. route'[r] = rt /\ rt # Absent /\ ~rt.vpnOnly
      BY <1>4 DEF IInv, Types
    <3> QED
      BY <1>2, <3>1, PublicIs
  <2>4. open = {q \in Req : at'[q] = "open" /\ ~viaVPN[q]}
    BY <1>1, <2>1, <2>2 DEF IInv, Late
  <2>5. \A q \in Req : at'[q] = "routed" /\ ~viaVPN[q] /\ ~(route'[q].names \subseteq PublicNames(table)) => q \in late
    BY <2>1, <2>3 DEF IInv, Late, LeftPublicSide
  <2>6. reload # "end" => \A q \in open : ~(route'[q].names \subseteq PublicNames(table)) => q \in late
    BY <2>1, <2>2, <2>4 DEF IInv, Late, LeftPublicSide
  <2> QED
    BY <1>1, <2>4, <2>5, <2>6, RequestFrame DEF Late, LeftPublicSide
<1> QED
  BY <1>1, <1>5, <1>6, RequestFrame DEF IInv

(* It is registered; or it is over.                                        *)
LEMMA TrackStep == ASSUME IInv, NEW r \in Req, Track(r) \/ Over(r) PROVE IInv'
<1>1. UNCHANGED <<route, viaVPN, late>> /\ UNCHANGED <<configVars, reloadVars>>
  BY DEF Track, Over
<1>2. \A q \in Req : q # r => at'[q] = at[q]
  BY DEF Track, Over, IInv, Types
<1>3. \/ at[r] = "routed" /\ at'[r] = "open" /\ open' = (IF viaVPN[r] THEN open ELSE open \cup {r})
      \/ at'[r] = "done" /\ open' = open \ {r}
  BY DEF Track, Over, IInv, Types
<1>4. Types'
  <2>1. at' \in [Req -> {"new", "routed", "open", "cut", "done"}] /\ open' \subseteq Req
    BY DEF Track, Over, IInv, Types
  <2> QED
    BY <1>1, <2>1 DEF IInv, Types, configVars, reloadVars
<1>5. Late'
  <2>1. open' = {q \in Req : at'[q] = "open" /\ ~viaVPN[q]}
    BY <1>2, <1>3 DEF IInv, Late
  <2>2. \A q \in Req : at'[q] = "routed" /\ ~viaVPN[q] /\ LeftPublicSide(table, q) => q \in late
    BY <1>2, <1>3 DEF IInv, Late
  <2>3. reload # "end" => \A q \in open' : LeftPublicSide(table, q) => q \in late
    BY <1>2, <1>3, <2>1 DEF IInv, Late
  <2> QED
    BY <1>1, <2>1, <2>2, <2>3, RequestFrame DEF Late, LeftPublicSide
<1> QED
  BY <1>1, <1>4, <1>5, RequestFrame DEF IInv

-----------------------------------------------------------------------------
(* The theorems.                                                           *)

(* The invariant holds when quicgate starts.                               *)
LEMMA InitIInv == Init => IInv
<1> SUFFICES ASSUME Init PROVE IInv
  OBVIOUS
<1>1. NoHosts(DbConfig) \in DbStates /\ NoHosts(DkConfig) \in DkStates
  BY DEF NoHosts, DbStates, DkStates, DbHost, DkHost
<1>2. /\ [d \in AnyName |-> Absent] \in Tables
      /\ [r \in Req |-> "new"] \in [Req -> {"new", "routed", "open", "cut", "done"}]
      /\ [r \in Req |-> Absent] \in [Req -> Config \cup {Absent}]
  BY DEF Tables
<1>3. Types
  <2>1. callers \in [first : Nat, last : Nat] /\ changes \in 0..MaxChanges
    BY RoutingAssumption DEF Init
  <2> QED
    BY <1>1, <1>2, <2>1 DEF Init, Types
<1>4. Tries /\ ~Nobody
  BY DEF Init, Tries, Building, Nobody
<1>5. BuiltFor /\ Late
  BY DEF Init, BuiltFor, Late
<1> QED
  BY <1>3, <1>4, <1>5 DEF IInv, Fresh

(* Every step keeps it.                                                    *)
LEMMA NextIInv == IInv /\ [Next]_vars => IInv'
<1>1. ASSUME IInv, Next PROVE IInv'
  BY <1>1, SaveHostStep, SetDockerStep, ReloadStartStep, ReloadFailsStep, ReloadBuildStep, ReloadSwapStep,
     ReloadEndStep, ServeStep, TrackStep DEF Next
<1>2. ASSUME IInv, UNCHANGED vars PROVE IInv'
  <2>1. UNCHANGED <<configVars, reloadVars>> /\ UNCHANGED <<at, route, viaVPN, open, late>>
    BY <1>2 DEF vars, reqVars
  <2>2. Types'
    BY <1>2, <2>1 DEF IInv, Types, configVars, reloadVars
  <2>3. Late'
    BY <1>2, <2>1, RequestFrame DEF IInv, Late, LeftPublicSide
  <2> QED
    BY <1>2, <2>1, <2>2, <2>3, RequestFrame DEF IInv
<1> QED
  BY <1>1, <1>2

(* The inductive invariant.                                                *)
LEMMA Invariance == Spec => []IInv
  BY InitIInv, NextIInv, PTL DEF Spec

(* Every variable has its type, and a caller of Reload is served once per  *)
(* try: for any number of changes.                                         *)
THEOREM TypeCorrect == Spec => []TypeOK
<1>1. IInv => TypeOK
  <2> SUFFICES ASSUME IInv PROVE TypeOK
    OBVIOUS
  <2>1. callers \in [first : 0..MaxChanges, last : 0..(MaxChanges + 1)]
    <3>1. /\ callers.first \in Nat /\ callers.last \in Nat /\ changes \in Nat /\ MaxChanges \in Nat
          /\ changes <= MaxChanges /\ Building \in Nat
      BY CallersMove, RoutingAssumption DEF IInv, Types, Building
    <3>2. callers.first <= changes /\ callers.first + callers.last + Building <= changes + 1
      BY DEF IInv, Tries
    <3>3. callers.first \in 0..MaxChanges /\ callers.last \in 0..(MaxChanges + 1)
      BY <3>1, <3>2
    <3> QED
      BY <3>3 DEF IInv, Types
  <2>2. \A h \in DbHost : db[h] \in DbConfig[h] \cup {Absent} /\ hosts[h] \in DbConfig[h] \cup {Absent}
    BY DEF IInv, Types, DbStates
  <2>3. \A h \in DkHost : docker[h] \in DkConfig[h] \cup {Absent}
    BY DEF IInv, Types, DkStates
  <2> QED
    BY <2>1, <2>2, <2>3 DEF IInv, Types, TypeOK, Tables
<1> QED
  BY <1>1, Invariance, PTL

(* Once no Reload runs or waits and the last one did not fail, the table   *)
(* is the one of the stored and the Docker configuration.                  *)
THEOREM TableFollowsConfigHolds == Spec => []TableFollowsConfig
<1>1. IInv => TableFollowsConfig
  BY DEF IInv, Fresh, Nobody, TableFollowsConfig
<1> QED
  BY <1>1, Invariance, PTL

(* No container gets a route for a name that a stored host configures, nor *)
(* a request for it through its own wildcard while that host is enabled or *)
(* has the wildcard.                                                       *)
THEOREM ManualHostWinsHolds == Spec => []ManualHostWins
<1>1. IInv => ManualHostWins
  <2> SUFFICES ASSUME IInv, reload = "end", NEW n \in Name, NEW h \in DbHost, hosts[h] # Absent
               PROVE  /\ {n, WildOf[n]} \cap hosts[h].names # {} => FromDb(table[n])
                      /\ (n \in hosts[h].names /\ hosts[h].enabled) \/ WildOf[n] \in hosts[h].names
                           => FromDb(Lookup(table, n))
    BY DEF ManualHostWins
  <2>1. PICK dk \in DkStates : table = Place(hosts, dk)
    BY DEF IInv, BuiltFor
  <2>2. n \in AnyName /\ WildOf[n] \in AnyName /\ hosts \in DbStates
    BY RoutingAssumption DEF AnyName, IInv, Types
  <2>3. ASSUME NEW d \in AnyName, Configured(hosts, d) PROVE FromDb(table[d])
    BY <2>1, <2>2, <2>3, PlaceIs DEF FromDb
  <2>4. {n, WildOf[n]} \cap hosts[h].names # {} => FromDb(table[n])
    BY <2>2, <2>3 DEF Configured
  <2>5. WildOf[n] \in hosts[h].names => FromDb(Lookup(table, n))
    BY <2>2, <2>3 DEF Configured, Lookup
  <2>6. n \in hosts[h].names /\ hosts[h].enabled => FromDb(Lookup(table, n))
    <3> SUFFICES ASSUME n \in hosts[h].names, hosts[h].enabled PROVE FromDb(Lookup(table, n))
      OBVIOUS
    <3>1. ServedBy(hosts, h, n)
      BY DEF ServedBy
    <3>2. PICK g \in DbHost : ServedBy(hosts, g, n) /\ table[n] = hosts[g]
      BY <2>1, <2>2, <3>1, PlaceIs
    <3>3. Lookup(table, n) = hosts[g]
      BY <3>2 DEF Lookup, ServedBy
    <3> QED
      BY <3>3 DEF FromDb
  <2> QED
    BY <2>4, <2>5, <2>6
<1> QED
  BY <1>1, Invariance, PTL

(* A Reload cancels exactly the registered requests of the hosts that lost *)
(* a public name, and leaves only a request that registered late.          *)
THEOREM CutsExactlyHolds == Spec => CutsExactly
<1> DEFINE Cuts == /\ OnlyLateRequestsStay'
                   /\ \A r \in Req : (at[r] # "cut" /\ at'[r] = "cut") => ~viaVPN[r] /\ LeftPublicSide(table, r)
<1>1. IInv /\ IInv' /\ [Next]_vars => [Cuts]_vars
  <2> SUFFICES ASSUME IInv, IInv', Next PROVE Cuts
    OBVIOUS
  <2>1. OnlyLateRequestsStay'
    BY DEF IInv, Late, OnlyLateRequestsStay
  <2>2. ASSUME NEW r \in Req, at[r] # "cut", at'[r] = "cut" PROVE ~viaVPN[r] /\ LeftPublicSide(table, r)
    <3>1. CASE ReloadEnd
      BY <2>2, <3>1 DEF ReloadEnd, IInv, Late
    <3>2. CASE ~ReloadEnd
      <4>1. \/ UNCHANGED at
            \/ \E q \in Req, v \in {"done", "routed", "open"} : at' = [at EXCEPT ![q] = v]
        BY <3>2 DEF Next, SaveHost, SetDockerRoutes, ReloadStart, ReloadFails, ReloadBuild, ReloadSwap, Track, Over,
           Serve, reqVars
      <4> QED
        BY <2>2, <4>1 DEF IInv, Types
    <3> QED
      BY <3>1, <3>2
  <2> QED
    BY <2>1, <2>2
<1> QED
  BY <1>1, Invariance, PTL DEF Spec, CutsExactly

-----------------------------------------------------------------------------
(***************************************************************************)
(* The automatic bans.                                                     *)
(*                                                                         *)
(* What the trails say is compared with all refusals there were.  Both are *)
(* sequences, and what After keeps of them is a recursive function, so     *)
(* their laws are proved by induction: a set of numbers, or of sequences,  *)
(* that is closed under adding one, is everything.                         *)
(***************************************************************************)
(* A set of numbers that has 0, and with a number the next, has them all:  *)
(* the least number that is missing would have a predecessor in it.        *)
LEMMA NatInd ==
  ASSUME NEW S, 0 \in S, \A n \in Nat : n \in S => n + 1 \in S
  PROVE  Nat \subseteq S
<1> SUFFICES ASSUME Nat \ S # {} PROVE FALSE
  OBVIOUS
<1>1. PICK x \in Nat \ S : \A y \in Nat \ S : x <= y
  BY Least
<1>2. x # 0 /\ x - 1 \in Nat /\ ~(x <= x - 1)
  OBVIOUS
<1>3. x - 1 \in S
  BY <1>1, <1>2
<1>4. (x - 1) + 1 \in S
  BY <1>2, <1>3
<1> QED BY <1>4

(* How After goes over a trail s with cutoff c: f[i] is what is kept of    *)
(* the first i times.                                                      *)
Step(f, s, c, i) == IF s[i] > c THEN Append(f[i-1], s[i]) ELSE f[i-1]
Collects(f, s, c, n) ==
  /\ f \in [0..n -> Seq(Int)]
  /\ f[0] = << >>
  /\ \A i \in 1..n : f[i] = Step(f, s, c, i)

(* The loop of recordFailure over a trail comes to an end.                 *)
LEMMA CollectsExists ==
  ASSUME NEW s \in Seq(Int), NEW c \in Int
  PROVE  \E f : Collects(f, s, c, Len(s))
<1> DEFINE S == {n \in Nat : n <= Len(s) => \E f : Collects(f, s, c, n)}
<1>0. Len(s) \in Nat
  OBVIOUS
<1>1. 0 \in S
  <2>1. << >> \in Seq(Int)
    OBVIOUS
  <2>2. Collects([i \in 0..0 |-> << >>], s, c, 0)
    BY <2>1 DEF Collects
  <2> QED BY <2>2
<1>2. ASSUME NEW n \in Nat, n \in S PROVE n + 1 \in S
  <2> SUFFICES ASSUME n + 1 <= Len(s) PROVE \E f : Collects(f, s, c, n + 1)
    OBVIOUS
  <2>1. PICK f : Collects(f, s, c, n)
    BY <1>0, <1>2
  <2> DEFINE x == s[n+1]
             last == IF x > c THEN Append(f[n], x) ELSE f[n]
             g == [i \in 0..n+1 |-> IF i = n + 1 THEN last ELSE f[i]]
  <2>2. x \in Int
    BY <1>0, ElementOfSeq
  <2>3. f[n] \in Seq(Int) /\ \A i \in 0..n : f[i] \in Seq(Int)
    BY <2>1 DEF Collects
  <2>4. last \in Seq(Int)
    BY <2>2, <2>3, AppendProperties
  <2>5. g \in [0..n+1 -> Seq(Int)]
    BY <2>3, <2>4
  <2>6. \A i \in 0..n : g[i] = f[i]
    OBVIOUS
  <2>7. g[n+1] = last
    OBVIOUS
  <2> HIDE DEF g
  <2>8. ASSUME NEW i \in 1..n+1 PROVE g[i] = Step(g, s, c, i)
    <3>1. CASE i = n + 1
      <4>1. g[i-1] = f[n]
        BY <2>6, <3>1
      <4> QED BY <4>1, <3>1, <2>7 DEF Step
    <3>2. CASE i # n + 1
      <4>1. i \in 1..n /\ i - 1 \in 0..n
        BY <3>2
      <4>2. f[i] = Step(f, s, c, i)
        BY <4>1, <2>1 DEF Collects
      <4> QED BY <4>1, <4>2, <2>6 DEF Step
    <3> QED BY <3>1, <3>2
  <2>9. g[0] = << >>
    BY <2>6, <2>1 DEF Collects
  <2> QED BY <2>5, <2>8, <2>9 DEF Collects
<1> HIDE DEF S
<1>3. Nat \subseteq S
  BY <1>1, <1>2, NatInd, ZenonT(60)
<1> QED BY <1>0, <1>3 DEF S

(* Two collections of the same times agree.                                *)
LEMMA CollectsUnique ==
  ASSUME NEW s \in Seq(Int), NEW u \in Seq(Int), NEW c \in Int, NEW n \in Nat, NEW m \in Nat,
         NEW f, NEW g, Collects(f, s, c, n), Collects(g, u, c, m),
         n <= m, \A i \in 1..n : s[i] = u[i]
  PROVE  f[n] = g[n]
<1> DEFINE S == {k \in Nat : k <= n => f[k] = g[k]}
<1>1. 0 \in S
  BY DEF Collects
<1>2. ASSUME NEW k \in Nat, k \in S PROVE k + 1 \in S
  <2> SUFFICES ASSUME k + 1 <= n PROVE f[k+1] = g[k+1]
    OBVIOUS
  <2>1. f[k] = g[k] /\ k + 1 \in 1..n /\ k + 1 \in 1..m /\ (k + 1) - 1 = k
    BY <1>2
  <2>2. f[k+1] = Step(f, s, c, k+1) /\ g[k+1] = Step(g, u, c, k+1) /\ s[k+1] = u[k+1]
    BY <2>1 DEF Collects
  <2> QED BY <2>1, <2>2 DEF Step
<1> HIDE DEF S
<1>3. Nat \subseteq S
  BY <1>1, <1>2, NatInd, ZenonT(60)
<1> QED BY <1>3 DEF S

(* After is what such a collection has at the end.                         *)
LEMMA AfterCollects ==
  ASSUME NEW s \in Seq(Int), NEW c \in Int
  PROVE  \E f : Collects(f, s, c, Len(s)) /\ After(s, c) = f[Len(s)]
<1> DEFINE F(f) == [i \in 0..Len(s) |-> IF i = 0 THEN << >>
                       ELSE IF s[i] > c THEN Append(f[i-1], s[i]) ELSE f[i-1]]
           k == CHOOSE f : f = F(f)
<1>0. Len(s) \in Nat
  OBVIOUS
<1>1. PICK f : Collects(f, s, c, Len(s))
  BY CollectsExists
<1>2. f = F(f)
  <2>1. f = [i \in 0..Len(s) |-> f[i]]
    BY <1>1 DEF Collects
  <2>2. \A i \in 0..Len(s) : f[i] = IF i = 0 THEN << >>
                       ELSE IF s[i] > c THEN Append(f[i-1], s[i]) ELSE f[i-1]
    <3> TAKE i \in 0..Len(s)
    <3>1. CASE i = 0
      BY <3>1, <1>1 DEF Collects
    <3>2. CASE i # 0
      <4>1. i \in 1..Len(s)
        BY <1>0, <3>2
      <4> QED BY <3>2, <4>1, <1>1 DEF Collects, Step
    <3> QED BY <3>1, <3>2
  <2> QED BY <2>1, <2>2
<1>3. k = F(k)
  BY <1>2
<1>4. After(s, c) = k[Len(s)]
  BY DEF After
<1> HIDE DEF k
<1>5. k[0] = << >> /\ \A i \in 1..Len(s) : k[i] = Step(k, s, c, i)
  <2>1. ASSUME NEW i \in 0..Len(s)
        PROVE  k[i] = IF i = 0 THEN << >>
                      ELSE IF s[i] > c THEN Append(k[i-1], s[i]) ELSE k[i-1]
    <3> DEFINE h == F(k)
    <3>1. h[i] = IF i = 0 THEN << >>
                 ELSE IF s[i] > c THEN Append(k[i-1], s[i]) ELSE k[i-1]
      OBVIOUS
    <3> HIDE DEF h
    <3>2. k = h
      BY <1>3 DEF h
    <3>3. k[i] = h[i]
      BY <3>2
    <3> QED BY <3>1, <3>3
  <2>2. 0 \in 0..Len(s) /\ \A i \in 1..Len(s) : i \in 0..Len(s) /\ i # 0
    BY <1>0
  <2> QED BY <2>1, <2>2 DEF Step
<1>6. ASSUME NEW i \in 0..Len(s) PROVE k[i] = f[i]
  <2> DEFINE S == {n \in Nat : n <= Len(s) => k[n] = f[n]}
  <2>1. 0 \in S
    BY <1>1, <1>5 DEF Collects
  <2>2. ASSUME NEW n \in Nat, n \in S PROVE n + 1 \in S
    <3> SUFFICES ASSUME n + 1 <= Len(s) PROVE k[n+1] = f[n+1]
      OBVIOUS
    <3>1. k[n] = f[n] /\ n + 1 \in 1..Len(s) /\ (n + 1) - 1 = n
      BY <1>0, <2>2
    <3>2. f[n+1] = Step(f, s, c, n+1) /\ k[n+1] = Step(k, s, c, n+1)
      BY <3>1, <1>1, <1>5 DEF Collects
    <3> QED BY <3>1, <3>2 DEF Step
  <2> HIDE DEF S
  <2>3. Nat \subseteq S
    BY <2>1, <2>2, NatInd, ZenonT(60)
  <2>4. i \in Nat /\ i <= Len(s)
    BY <1>0
  <2> QED BY <2>3, <2>4 DEF S
<1>7. k[Len(s)] = f[Len(s)]
  BY <1>0, <1>6
<1> QED BY <1>1, <1>4, <1>7
(* Of no times nothing is kept; a time added at the end is kept if it is   *)
(* after the cutoff, behind what was kept of the others.                   *)
LEMMA AfterEmpty ==
  ASSUME NEW c \in Int PROVE After(<< >>, c) = << >>
<1>1. << >> \in Seq(Int) /\ Len(<< >>) = 0
  OBVIOUS
<1>2. PICK f : Collects(f, << >>, c, Len(<< >>)) /\ After(<< >>, c) = f[Len(<< >>)]
  BY <1>1, AfterCollects
<1> QED BY <1>1, <1>2 DEF Collects

LEMMA AfterAppend ==
  ASSUME NEW s \in Seq(Int), NEW t \in Int, NEW c \in Int
  PROVE  /\ After(s, c) \in Seq(Int)
         /\ After(Append(s, t), c) = IF t > c THEN Append(After(s, c), t) ELSE After(s, c)
<1> DEFINE u == Append(s, t)
           n == Len(s)
<1>0. n \in Nat /\ u \in Seq(Int) /\ Len(u) = n + 1 /\ u[n+1] = t /\ \A i \in 1..n : s[i] = u[i]
  BY AppendProperties
<1>1. PICK f : Collects(f, s, c, n) /\ After(s, c) = f[n]
  BY AfterCollects
<1> HIDE DEF u
<1>2. PICK g : Collects(g, u, c, n + 1) /\ After(u, c) = g[n+1]
  BY <1>0, AfterCollects
<1> HIDE DEF n
<1>3. n + 1 \in Nat /\ n <= n + 1 /\ n \in 0..n /\ n + 1 \in 1..n+1 /\ (n + 1) - 1 = n
  BY <1>0
<1>4. f[n] = g[n]
  BY <1>0, <1>1, <1>2, <1>3, CollectsUnique
<1>5. g[n+1] = IF t > c THEN Append(g[n], t) ELSE g[n]
  BY <1>0, <1>2, <1>3 DEF Collects, Step
<1>6. f[n] \in Seq(Int)
  BY <1>1, <1>3 DEF Collects
<1> QED BY <1>1, <1>2, <1>4, <1>5, <1>6 DEF u

(* A set of sequences that has the empty one, and with each one every      *)
(* extension of it by an element, has them all.                            *)
LEMMA SeqInd ==
  ASSUME NEW T, NEW P \in SUBSET Seq(T), << >> \in P, \A s \in P, t \in T : Append(s, t) \in P
  PROVE  Seq(T) \subseteq P
<1> DEFINE S == {n \in Nat : \A s \in Seq(T) : Len(s) = n => s \in P}
<1>1. 0 \in S
  BY EmptySeq
<1>2. ASSUME NEW n \in Nat, n \in S PROVE n + 1 \in S
  <2> SUFFICES ASSUME NEW s \in Seq(T), Len(s) = n + 1 PROVE s \in P
    OBVIOUS
  <2>1. s # << >>
    BY EmptySeq
  <2>2. PICK r \in Seq(T), t \in T : s = Append(r, t)
    BY <2>1, SequenceEmptyOrAppend
  <2>3. Len(r) = n
    <3>1. Len(r) \in Nat /\ Len(s) = Len(r) + 1
      BY <2>2, AppendProperties, LenProperties
    <3> QED BY <3>1
  <2>4. r \in P
    BY <2>3, <1>2
  <2> QED BY <2>2, <2>4
<1> HIDE DEF S
<1>3. Nat \subseteq S
  BY <1>1, <1>2, NatInd
<1>4. \A s \in Seq(T) : Len(s) \in Nat
  BY LenProperties
<1> QED BY <1>3, <1>4 DEF S

(* What is kept is of the same kind as the trail, and no longer.           *)
LEMMA AfterType ==
  ASSUME NEW T \in SUBSET Int, NEW s \in Seq(T), NEW c \in Int
  PROVE  After(s, c) \in Seq(T) /\ Len(After(s, c)) <= Len(s)
<1> DEFINE Q(u) == After(u, c) \in Seq(T) /\ Len(After(u, c)) <= Len(u)
           P == {u \in Seq(T) : Q(u)}
<1>1. << >> \in P
  <2> DEFINE e == << >>
  <2>1. e \in Seq(T) /\ Len(e) = 0
    OBVIOUS
  <2>2. After(e, c) = e
    BY AfterEmpty
  <2> HIDE DEF e
  <2>3. Q(e)
    BY <2>1, <2>2
  <2> QED BY <2>1, <2>3 DEF e
<1>2. ASSUME NEW u \in P, NEW t \in T PROVE Append(u, t) \in P
  <2>1. u \in Seq(T) /\ u \in Seq(Int) /\ t \in Int /\ Q(u)
    BY SeqMonotonic
  <2> DEFINE a == After(u, c)
             b == After(Append(u, t), c)
  <2>2. b = IF t > c THEN Append(a, t) ELSE a
    BY <2>1, AfterAppend
  <2>3. a \in Seq(T) /\ Len(a) <= Len(u) /\ Len(a) \in Nat /\ Len(u) \in Nat
    BY <2>1, LenProperties
  <2> HIDE DEF a, b
  <2>4. Append(u, t) \in Seq(T) /\ Len(Append(u, t)) = Len(u) + 1
    BY <2>1, AppendProperties
  <2>5. Append(a, t) \in Seq(T) /\ Len(Append(a, t)) = Len(a) + 1
    BY <2>3, AppendProperties
  <2>6. b \in Seq(T) /\ Len(b) <= Len(Append(u, t))
    BY <2>2, <2>3, <2>4, <2>5
  <2> QED BY <2>4, <2>6 DEF b
<1> HIDE DEF P
<1>3. Seq(T) \subseteq P
  <2>1. P \in SUBSET Seq(T)
    BY DEF P
  <2> QED BY <1>1, <1>2, <2>1, SeqInd, Zenon
<1> QED BY <1>3 DEF P

(* Of what is kept after a, what is kept after c.                          *)
LEMMA AfterAfter ==
  ASSUME NEW s \in Seq(Int), NEW a \in Int, NEW c \in Int
  PROVE  /\ a <= c => After(After(s, a), c) = After(s, c)
         /\ CountAfter(After(s, a), c) <= CountAfter(s, c)
<1> DEFINE Q(u) == /\ a <= c => After(After(u, a), c) = After(u, c)
                   /\ Len(After(After(u, a), c)) <= Len(After(u, c))
           P == {u \in Seq(Int) : Q(u)}
<1>1. << >> \in P
  BY AfterEmpty
<1>2. ASSUME NEW u \in P, NEW t \in Int PROVE Append(u, t) \in P
  <2>1. u \in Seq(Int) /\ Q(u) /\ Append(u, t) \in Seq(Int)
    BY AppendProperties
  <2> DEFINE ua == After(u, a)
             uc == After(u, c)
             uac == After(ua, c)
  <2>2. ua \in Seq(Int) /\ uc \in Seq(Int)
    BY <2>1, AfterAppend
  <2> HIDE DEF ua, uc
  <2>3. uac \in Seq(Int) /\ After(Append(ua, t), c) = IF t > c THEN Append(uac, t) ELSE uac
    BY <2>2, AfterAppend
  <2>4. After(Append(u, t), c) = IF t > c THEN Append(uc, t) ELSE uc
    BY <2>1, AfterAppend DEF uc
  <2>5. After(Append(u, t), a) = IF t > a THEN Append(ua, t) ELSE ua
    BY <2>1, AfterAppend DEF ua
  <2>6. /\ a <= c => uac = uc
        /\ Len(uac) <= Len(uc)
    BY <2>1 DEF ua, uc
  <2> HIDE DEF uac
  <2>7. /\ Len(uac) \in Nat /\ Len(uc) \in Nat
        /\ Len(Append(uac, t)) = Len(uac) + 1 /\ Len(Append(uc, t)) = Len(uc) + 1
    BY <2>2, <2>3, AppendProperties, LenProperties
  <2> DEFINE v == After(After(Append(u, t), a), c)
             w == After(Append(u, t), c)
  <2>8. v = IF t > a THEN (IF t > c THEN Append(uac, t) ELSE uac) ELSE uac
    BY <2>3, <2>5 DEF uac
  <2> HIDE DEF v, w
  <2>9. w = IF t > c THEN Append(uc, t) ELSE uc
    BY <2>4 DEF w
  <2>10. /\ a <= c => v = w
         /\ Len(v) <= Len(w)
    <3>1. CASE t > a
      BY <3>1, <2>6, <2>7, <2>8, <2>9
    <3>2. CASE ~(t > a)
      <4>1. v = uac
        BY <3>2, <2>8
      <4>2. a <= c => ~(t > c)
        BY <3>2
      <4> QED BY <4>1, <4>2, <2>6, <2>7, <2>9
    <3> QED BY <3>1, <3>2
  <2> QED BY <2>1, <2>10 DEF v, w
<1> HIDE DEF P
<1>3. Seq(Int) \subseteq P
  <2>1. P \in SUBSET Seq(Int)
    BY DEF P
  <2> QED BY <1>1, <1>2, <2>1, SeqInd, Zenon
<1> QED BY <1>3 DEF P, CountAfter

(* When no time is after the cutoff nothing is kept.                       *)
LEMMA AfterNone ==
  ASSUME NEW s \in Seq(Int), NEW c \in Int, \A i \in DOMAIN s : s[i] <= c
  PROVE  After(s, c) = << >>
<1> DEFINE Q(u) == (\A i \in 1..Len(u) : u[i] <= c) => After(u, c) = << >>
           P == {u \in Seq(Int) : Q(u)}
<1>1. << >> \in P
  BY AfterEmpty
<1>2. ASSUME NEW u \in P, NEW t \in Int PROVE Append(u, t) \in P
  <2> DEFINE n == Len(u)
             w == Append(u, t)
  <2>0. u \in Seq(Int) /\ n \in Nat
    BY LenProperties
  <2>1. /\ u \in Seq(Int) /\ n \in Nat /\ w \in Seq(Int) /\ Len(w) = n + 1 /\ w[n+1] = t
        /\ \A i \in 1..n : w[i] = u[i]
    BY <2>0, AppendProperties
  <2>2. After(w, c) = IF t > c THEN Append(After(u, c), t) ELSE After(u, c)
    BY <2>1, AfterAppend
  <2> SUFFICES ASSUME \A i \in 1..Len(w) : w[i] <= c PROVE After(w, c) = << >>
    BY <2>1
  <2> HIDE DEF w
  <2> HIDE DEF n
  <2>a. n + 1 \in 1..Len(w) /\ \A i \in 1..n : i \in 1..Len(w)
    BY <2>1
  <2>3. t <= c /\ \A i \in 1..n : u[i] <= c
    BY <2>1, <2>a
  <2>4. After(u, c) = << >>
    BY <2>3 DEF n
  <2> QED BY <2>2, <2>3, <2>4
<1> HIDE DEF P
<1>3. Seq(Int) \subseteq P
  <2>1. P \in SUBSET Seq(Int)
    BY DEF P
  <2> QED BY <1>1, <1>2, <2>1, SeqInd, Zenon
<1>4. DOMAIN s = 1..Len(s)
  BY LenProperties
<1> QED BY <1>3, <1>4 DEF P
-----------------------------------------------------------------------------
(***************************************************************************)
(* Kinds.                                                                  *)
(***************************************************************************)
Bans == [Ip -> Nat]

\* The requests and their clock: none has noted a time that is yet to come.
Requests ==
  /\ now \in Nat
  /\ exempt \subseteq Ip
  /\ stage \in [Request -> {"idle", "noted"}]
  /\ client \in [Request -> Ip]
  /\ noted \in [Request -> Nat]
  /\ \A r \in Request : noted[r] <= now
  /\ lift \subseteq Ip

Trailing ==
  /\ trail \in [Ip -> Seq(Nat)]
  /\ hist \in [Ip -> Seq(Nat)]
  /\ unearned \in BOOLEAN

Saving ==
  /\ banned \in Bans /\ snapshot \in Bans /\ file \in Bans
  /\ proc \in {"up", "closing", "final", "closed", "down"}
  /\ due \in BOOLEAN
  /\ saver \in {"wait", "save", "write", "ended"}
  /\ saveFailed \in BOOLEAN

Kinds == Requests /\ Trailing /\ Saving

USE DEF banVars, clockVars, requestVars, tableVars, saveVars

(* What the tables of bans are made of.                                    *)
LEMMA NoBansIs == NoBans \in Bans /\ \A ip \in Ip : NoBans[ip] = 0
BY DEF NoBans, Bans, NotBanned

LEMMA InForceIs ==
  ASSUME NEW f \in Bans, now \in Nat
  PROVE  /\ InForce(f) \in Bans
         /\ \A ip \in Ip : InForce(f)[ip] = IF f[ip] > now THEN f[ip] ELSE 0
BY DEF InForce, Bans, NotBanned

(* An idle request stands for some address.                                *)
LEMMA IdleClient == NoClient \in Ip
BY BanAssumption DEF NoClient

(* What a refusal leaves behind has its kind.                              *)
LEMMA RecordTypes ==
  ASSUME Kinds, NEW r \in Request, Record(r)
  PROVE  Kinds'
<1> DEFINE ip == client[r]
           t == noted[r]
           times == Append(After(trail[ip], t - Window), t)
           seen == Append(hist[ip], t)
<1>1. ip \in Ip /\ t \in Nat /\ t - Window \in Int /\ t <= now /\ t + BanFor \in Nat
  BY BanAssumption DEF Kinds, Requests
<1>2. trail[ip] \in Seq(Nat) /\ hist[ip] \in Seq(Nat)
  BY <1>1 DEF Kinds, Trailing
<1>3. After(trail[ip], t - Window) \in Seq(Nat)
  <2>1. Nat \in SUBSET Int
    OBVIOUS
  <2> QED BY <1>1, <1>2, <2>1, AfterType, ZenonT(60)
<1>4. times \in Seq(Nat) /\ seen \in Seq(Nat)
  <2>1. \A s \in Seq(Nat) : Append(s, t) \in Seq(Nat)
    BY <1>1, AppendProperties
  <2> QED BY <1>2, <1>3, <2>1
<1>5. Trailing'
  <2>1. PICK out \in Victims(Trails, ip) :
          /\ trail' = [Without(trail, out, << >>) EXCEPT ![ip] = IF Full(times) THEN << >> ELSE times]
          /\ hist' = [Without(hist, out, << >>) EXCEPT ![ip] = IF Full(times) THEN << >> ELSE seen]
    BY DEF Record, Kept
  <2> HIDE DEF times, seen
  <2>2. << >> \in Seq(Nat)
    OBVIOUS
  <2>3. Without(trail, out, << >>) \in [Ip -> Seq(Nat)] /\ Without(hist, out, << >>) \in [Ip -> Seq(Nat)]
    BY <2>2 DEF Kinds, Trailing, Without
  <2>4. trail' \in [Ip -> Seq(Nat)] /\ hist' \in [Ip -> Seq(Nat)]
    BY <2>1, <2>2, <2>3, <1>4
  <2>5. unearned' \in BOOLEAN
    BY DEF Record, Kinds, Trailing
  <2> QED BY <2>4, <2>5 DEF Trailing
<1>6. Saving'
  <2>1. banned' \in Bans
    <3>1. CASE banned' = banned
      BY <3>1 DEF Kinds, Saving
    <3>2. ASSUME NEW out, banned' = [Without(banned, out, 0) EXCEPT ![ip] = t + BanFor]
          PROVE  banned' \in Bans
      BY <3>2, <1>1 DEF Kinds, Saving, Bans, Without
    <3> QED BY <3>1, <3>2 DEF Record, NotBanned
  <2>2. due' \in BOOLEAN
    BY DEF Record, Changed, Kinds, Saving
  <2> QED BY <2>1, <2>2 DEF Record, Kinds, Saving
<1>7. Requests'
  BY IdleClient DEF Record, Kinds, Requests
<1> QED BY <1>5, <1>6, <1>7 DEF Kinds

(* Every step leaves everything its kind.                                  *)
LEMMA KindsStep == ASSUME Kinds, [BanNext]_banVars PROVE Kinds'
<1> USE DEF Kinds
<1>1. CASE UNCHANGED banVars
  BY <1>1 DEF Requests, Trailing, Saving
<1>2. CASE Tick
  BY <1>2 DEF Tick, Requests, Trailing, Saving
<1>3. ASSUME NEW r \in Request, Record(r) PROVE Kinds'
  BY <1>3, RecordTypes
<1>4. ASSUME NEW r \in Request, NEW ip \in Ip, Note(r, ip) PROVE Kinds'
  BY <1>4 DEF Note, Requests, Trailing, Saving
<1>5. ASSUME NEW ip \in Ip, Unban(ip), lift' \subseteq Ip PROVE Kinds'
  <2>1. banned' \in Bans
    BY <1>5 DEF Unban, Saving, Bans, NotBanned
  <2>2. due' \in BOOLEAN
    BY <1>5 DEF Unban, Saving, Changed
  <2>3. << >> \in Seq(Nat)
    OBVIOUS
  <2>4. Trailing'
    BY <1>5, <2>3 DEF Unban, Trailing
  <2> QED BY <1>5, <2>1, <2>2, <2>4 DEF Unban, Requests, Saving
<1>6. ASSUME NEW ip \in Ip, AdminUnban(ip) \/ LiftOne(ip) PROVE Kinds'
  <2>1. lift' \subseteq Ip
    BY <1>6 DEF AdminUnban, LiftOne, Requests
  <2> QED BY <1>5, <1>6, <2>1 DEF AdminUnban, LiftOne
<1>7. ASSUME NEW ip \in Ip, BlockedExempt(ip) PROVE Kinds'
  BY <1>7 DEF BlockedExempt, Requests, Trailing, Saving
<1>8. ASSUME NEW ip \in Ip, Expire(ip) PROVE Kinds'
  BY <1>8 DEF Expire, Requests, Trailing, Saving, Bans, NotBanned
<1>9. ASSUME NEW ip \in Ip, GcTrail(ip) PROVE Kinds'
  <2>1. << >> \in Seq(Nat)
    OBVIOUS
  <2> QED BY <1>9, <2>1 DEF GcTrail, Requests, Trailing, Saving
<1>10. ASSUME NEW list \in Exempts, SetExempt(list) PROVE Kinds'
  BY <1>10, BanAssumption DEF SetExempt, Entries, Requests, Trailing, Saving
<1>11. CASE SaverTake
  BY <1>11 DEF SaverTake, Requests, Trailing, Saving
<1>12. CASE SaverCollect
  <2>1. snapshot' \in Bans
    BY <1>12, InForceIs DEF SaverCollect, Requests, Saving
  <2> QED BY <1>12, <2>1 DEF SaverCollect, Requests, Trailing, Saving
<1>13. ASSUME NEW ok \in BOOLEAN, SaverWrite(ok) PROVE Kinds'
  <2>1. snapshot' \in Bans /\ file' \in Bans
    BY <1>13, NoBansIs DEF SaverWrite, Saving
  <2> QED BY <1>13, <2>1 DEF SaverWrite, Requests, Trailing, Saving
<1>14. ASSUME NEW ok \in BOOLEAN, FinalWrite(ok) PROVE Kinds'
  <2>1. snapshot' \in Bans /\ file' \in Bans
    BY <1>14, NoBansIs DEF FinalWrite, Saving
  <2> QED BY <1>14, <2>1 DEF FinalWrite, Requests, Trailing, Saving
<1>15. CASE ClosePersist
  BY <1>15 DEF ClosePersist, Requests, Trailing, Saving
<1>16. CASE FinalCollect
  <2>1. snapshot' \in Bans
    BY <1>16, InForceIs DEF FinalCollect, Requests, Saving
  <2> QED BY <1>16, <2>1 DEF FinalCollect, Requests, Trailing, Saving
<1>17. CASE Down
  <2>1. snapshot' \in Bans /\ banned' \in Bans
    BY <1>17, NoBansIs DEF Down
  <2>2. << >> \in Seq(Nat)
    OBVIOUS
  <2>3. Trailing'
    BY <1>17, <2>2 DEF Down, Trailing
  <2>4. Requests'
    BY <1>17, IdleClient DEF Down, Requests
  <2> QED BY <1>17, <2>1, <2>3, <2>4 DEF Down, Saving
<1>18. CASE Start
  <2>1. banned' \in Bans
    BY <1>18, InForceIs DEF Start, Loaded, Requests, Saving
  <2>2. lift' \subseteq Ip
    BY <1>18 DEF Start, Entries, Requests
  <2> QED BY <1>18, <2>1, <2>2 DEF Start, Requests, Trailing, Saving
<1> QED
  BY <1>1, <1>2, <1>3, <1>4, <1>6, <1>7, <1>8, <1>9, <1>10, <1>11, <1>12, <1>13, <1>14, <1>15,
     <1>16, <1>17, <1>18 DEF BanNext

(* At the first start everything has its kind.                             *)
LEMMA KindsInit == ASSUME BanInit PROVE Kinds
<1>1. << >> \in Seq(Nat)
  OBVIOUS
<1>2. Trailing
  BY <1>1 DEF BanInit, Trailing
<1>3. Requests
  BY IdleClient DEF BanInit, Requests
<1> QED BY <1>2, <1>3, NoBansIs DEF BanInit, Kinds, Saving
-----------------------------------------------------------------------------
(* The saver.                                                              *)

\* f and g hold the same bans in force at n.
Same(f, g, n) == \A ip \in Ip : (f[ip] > n \/ g[ip] > n) => f[ip] = g[ip]

\* What the saver knows: nothing is due, or it holds what is to be written,
\* or the file is up to date.
Saved ==
  proc = "up" =>
    /\ saver # "ended"
    /\ saver = "wait" /\ ~due /\ ~saveFailed => Same(file, banned, now)
    /\ saver = "write" /\ ~due => Same(snapshot, banned, now)

(* Two tables hold the same bans in force when they agree on every ban     *)
(* that one of them has in force.                                          *)
LEMMA SameIs ==
  ASSUME NEW f \in Bans, NEW g \in Bans, now \in Nat
  PROVE  Same(f, g, now) <=> InForce(f) = InForce(g)
<1>1. /\ InForce(f) \in Bans /\ InForce(g) \in Bans
      /\ \A ip \in Ip : /\ InForce(f)[ip] = IF f[ip] > now THEN f[ip] ELSE 0
                        /\ InForce(g)[ip] = IF g[ip] > now THEN g[ip] ELSE 0
                        /\ f[ip] \in Nat /\ g[ip] \in Nat
  BY InForceIs DEF Bans
<1>2. InForce(f) = InForce(g) <=> \A ip \in Ip : InForce(f)[ip] = InForce(g)[ip]
  BY <1>1 DEF Bans
<1>3. ASSUME NEW ip \in Ip
      PROVE  InForce(f)[ip] = InForce(g)[ip] <=> ((f[ip] > now \/ g[ip] > now) => f[ip] = g[ip])
  BY <1>1
<1> QED BY <1>2, <1>3 DEF Same

(* Whatever happens while the saver waits, collects or writes: it knows of *)
(* each change of a ban in force, or a request for another save is due.    *)
LEMMA SavedStep ==
  ASSUME Persist, Kinds, Saved, [BanNext]_banVars PROVE Saved'
<1> USE DEF Saved, Same
<1>0. now \in Nat /\ banned \in Bans /\ file \in Bans /\ snapshot \in Bans /\ due \in BOOLEAN
  BY DEF Kinds, Requests, Saving
<1>1. CASE UNCHANGED <<now, banned, saveVars>>
  BY <1>1
<1>2. CASE Tick
  BY <1>0, <1>2 DEF Tick, Bans
<1>3. ASSUME NEW r \in Request, Record(r) PROVE Saved'
  <2>1. CASE UNCHANGED <<banned, due>>
    BY <1>3, <2>1 DEF Record
  <2>2. CASE due' = Changed(due)
    BY <1>3, <2>2 DEF Record, Changed
  <2> QED BY <1>3, <2>1, <2>2 DEF Record
<1>4. ASSUME NEW ip \in Ip, Unban(ip) PROVE Saved'
  <2>1. CASE banned[ip] # NotBanned
    BY <1>4, <2>1 DEF Unban, Changed
  <2>2. CASE banned[ip] = NotBanned
    <3>1. banned' = banned
      BY <1>0, <1>4, <2>2 DEF Unban, Bans
    <3> QED BY <1>4, <2>2, <3>1 DEF Unban
  <2> QED BY <2>1, <2>2
<1>5. ASSUME NEW ip \in Ip, Expire(ip) PROVE Saved'
  <2>1. banned' = [banned EXCEPT ![ip] = 0] /\ now > banned[ip]
    BY <1>5 DEF Expire, NotBanned
  <2>2. ASSUME NEW f \in Bans, Same(f, banned, now) PROVE Same(f, banned', now)
    BY <1>0, <2>1, <2>2 DEF Bans
  <2> QED BY <1>0, <1>5, <2>2 DEF Expire
<1>6. CASE SaverTake
  BY <1>6 DEF SaverTake
<1>7. CASE SaverCollect
  <2>1. Same(snapshot', banned, now)
    BY <1>0, <1>7, InForceIs DEF SaverCollect
  <2> QED BY <1>7, <2>1 DEF SaverCollect
<1>8. ASSUME NEW ok \in BOOLEAN, SaverWrite(ok) PROVE Saved'
  BY <1>8 DEF SaverWrite
<1>9. CASE ClosePersist \/ FinalCollect \/ Down
  BY <1>9 DEF ClosePersist, FinalCollect, Down
<1>14. ASSUME NEW ok \in BOOLEAN, FinalWrite(ok) PROVE Saved'
  BY <1>14 DEF FinalWrite
<1>10. CASE Start
  <2>1. Same(file, banned', now)
    BY <1>0, <1>10, InForceIs DEF Start, Loaded
  <2> QED BY <1>10, <2>1 DEF Start
<1>12. CASE UNCHANGED banVars
  BY <1>1, <1>12
<1>13. ASSUME NEW ip \in Ip, AdminUnban(ip) \/ LiftOne(ip) PROVE Saved'
  BY <1>4, <1>13 DEF AdminUnban, LiftOne
<1>11. ASSUME NEW r \in Request, NEW ip \in Ip, Note(r, ip) PROVE Saved'
  BY <1>1, <1>11 DEF Note
<1>15. ASSUME NEW ip \in Ip, BlockedExempt(ip) \/ GcTrail(ip) PROVE Saved'
  BY <1>1, <1>15 DEF BlockedExempt, GcTrail
<1>16. ASSUME NEW list \in Exempts, SetExempt(list) PROVE Saved'
  BY <1>1, <1>16 DEF SetExempt
<1> HIDE DEF Saved, Same
<1> QED
  BY <1>2, <1>3, <1>5, <1>6, <1>7, <1>8, <1>9, <1>10, <1>11, <1>12, <1>13,
     <1>14, <1>15, <1>16 DEF BanNext

(* While bans are kept in a file, a saver with nothing to do whose last    *)
(* write succeeded has the bans in force in the file: for any number of    *)
(* addresses and requests, any ban times, any order of bans, lifts,        *)
(* expiries, saves and restarts (changed, save and load in ban.go).        *)
THEOREM SaverUpToDateHolds ==
  ASSUME Persist PROVE BanSpec => []SaverUpToDate
<1>1. BanInit => Kinds /\ Saved
  BY KindsInit DEF BanInit, Saved, Same
<1>2. Kinds /\ Saved /\ [BanNext]_banVars => (Kinds /\ Saved)'
  BY KindsStep, SavedStep
<1>3. Kinds /\ Saved => SaverUpToDate
  BY SameIs DEF Kinds, Requests, Saving, Saved, SaverUpToDate
<1> QED BY <1>1, <1>2, <1>3, PTL DEF BanSpec
-----------------------------------------------------------------------------
(* Trails.  s claims no refusals but those of h, and s has every one of h  *)
(* that is after m or later.                                               *)
Within(s, h) == \A c \in Int : CountAfter(s, c) <= CountAfter(h, c)
Covers(s, h, m) == \A c \in Int : c >= m => CountAfter(h, c) <= CountAfter(s, c)

(* One more time counts if it is after the cutoff.                         *)
LEMMA CountOfAppend ==
  ASSUME NEW s \in Seq(Nat), NEW t \in Nat, NEW c \in Int
  PROVE  /\ CountAfter(s, c) \in Nat
         /\ CountAfter(Append(s, t), c) = CountAfter(s, c) + (IF t > c THEN 1 ELSE 0)
<1>1. s \in Seq(Int) /\ t \in Int
  BY SeqMonotonic
<1> DEFINE a == After(s, c)
<1>2. a \in Seq(Int) /\ After(Append(s, t), c) = IF t > c THEN Append(a, t) ELSE a
  BY <1>1, AfterAppend
<1> HIDE DEF a
<1>3. Len(a) \in Nat /\ Len(Append(a, t)) = Len(a) + 1
  BY <1>1, <1>2, AppendProperties, LenProperties
<1>4. CountAfter(s, c) = Len(a)
  BY DEF CountAfter, a
<1> QED BY <1>2, <1>3, <1>4 DEF CountAfter

(* In an empty trail nothing counts.                                       *)
LEMMA CountOfNothing == ASSUME NEW c \in Int PROVE CountAfter(<< >>, c) = 0
BY AfterEmpty DEF CountAfter

(* A refusal at t, added to what the window keeps of a trail: the trail    *)
(* claims no more than the history with it, and no less in the window.     *)
LEMMA Refusal ==
  ASSUME NEW s \in Seq(Nat), NEW h \in Seq(Nat), NEW t \in Nat,
         NEW times, times = Append(After(s, t - Window), t)
  PROVE  /\ times \in Seq(Nat) /\ Append(h, t) \in Seq(Nat)
         /\ Within(s, h) => Within(times, Append(h, t)) /\ Len(times) <= CountAfter(Append(h, t), t - Window)
         /\ \A m \in Int : Covers(s, h, m) /\ t - Window <= m => Covers(times, Append(h, t), m)
<1> DEFINE a == t - Window
           k == After(s, a)
           g == Append(h, t)
<1>1. a \in Int /\ a < t
  BY BanAssumption
<1> HIDE DEF a
<1>2. k \in Seq(Nat) /\ times = Append(k, t)
  BY <1>1, AfterType DEF a
<1>3. times \in Seq(Nat) /\ g \in Seq(Nat) /\ Len(times) = Len(k) + 1 /\ Len(k) \in Nat
  <2>1. Append(k, t) \in Seq(Nat) /\ Len(Append(k, t)) = Len(k) + 1 /\ Len(k) \in Nat
    BY <1>2, AppendProperties, LenProperties
  <2>2. g \in Seq(Nat)
    BY AppendProperties
  <2> QED BY <1>2, <2>1, <2>2
<1>4. s \in Seq(Int)
  BY SeqMonotonic
<1>5. ASSUME NEW c \in Int
      PROVE  /\ a <= c => CountAfter(k, c) = CountAfter(s, c)
             /\ CountAfter(k, c) <= CountAfter(s, c)
             /\ CountAfter(k, c) \in Nat /\ CountAfter(s, c) \in Nat /\ CountAfter(h, c) \in Nat
             /\ CountAfter(times, c) = CountAfter(k, c) + (IF t > c THEN 1 ELSE 0)
             /\ CountAfter(g, c) = CountAfter(h, c) + (IF t > c THEN 1 ELSE 0)
  <2>1. /\ CountAfter(k, c) \in Nat /\ CountAfter(s, c) \in Nat /\ CountAfter(h, c) \in Nat
        /\ CountAfter(Append(k, t), c) = CountAfter(k, c) + (IF t > c THEN 1 ELSE 0)
        /\ CountAfter(g, c) = CountAfter(h, c) + (IF t > c THEN 1 ELSE 0)
    BY <1>2, CountOfAppend
  <2>2. a <= c => After(k, c) = After(s, c)
    BY <1>1, <1>4, AfterAfter
  <2>3. CountAfter(k, c) <= CountAfter(s, c)
    BY <1>1, <1>4, AfterAfter
  <2>4. a <= c => CountAfter(k, c) = CountAfter(s, c)
    BY <2>2 DEF CountAfter
  <2> QED BY <1>2, <2>1, <2>3, <2>4
<1>6. Len(k) = CountAfter(s, a)
  BY DEF CountAfter
<1> HIDE DEF k, g
<1>7. ASSUME Within(s, h) PROVE Within(times, g) /\ Len(times) <= CountAfter(g, a)
  <2>1. ASSUME NEW c \in Int PROVE CountAfter(times, c) <= CountAfter(g, c)
    <3>1. CountAfter(s, c) <= CountAfter(h, c)
      BY <1>7 DEF Within
    <3>2. CountAfter(k, c) <= CountAfter(h, c)
      BY <1>5, <3>1
    <3>3. /\ CountAfter(k, c) \in Nat /\ CountAfter(h, c) \in Nat
          /\ CountAfter(times, c) = CountAfter(k, c) + (IF t > c THEN 1 ELSE 0)
          /\ CountAfter(g, c) = CountAfter(h, c) + (IF t > c THEN 1 ELSE 0)
      BY <1>5
    <3> QED BY <3>2, <3>3, SMTT(30)
  <2>2. CountAfter(s, a) <= CountAfter(h, a)
    BY <1>1, <1>7 DEF Within
  <2>3. Len(times) <= CountAfter(g, a)
    <3>1. CountAfter(g, a) = CountAfter(h, a) + 1 /\ CountAfter(h, a) \in Nat
      BY <1>1, <1>5
    <3> QED BY <1>3, <1>6, <2>2, <3>1
  <2> QED BY <2>1, <2>3 DEF Within
<1>8. ASSUME NEW m \in Int, Covers(s, h, m), a <= m PROVE Covers(times, g, m)
  <2>1. ASSUME NEW c \in Int, c >= m PROVE CountAfter(g, c) <= CountAfter(times, c)
    <3>1. CountAfter(h, c) <= CountAfter(s, c) /\ a <= c
      BY <1>1, <1>8, <2>1 DEF Covers
    <3>2. CountAfter(h, c) <= CountAfter(k, c)
      BY <1>5, <3>1
    <3>3. /\ CountAfter(k, c) \in Nat /\ CountAfter(h, c) \in Nat
          /\ CountAfter(times, c) = CountAfter(k, c) + (IF t > c THEN 1 ELSE 0)
          /\ CountAfter(g, c) = CountAfter(h, c) + (IF t > c THEN 1 ELSE 0)
      BY <1>5
    <3> QED BY <3>2, <3>3, SMTT(30)
  <2> QED BY <2>1 DEF Covers
<1> QED BY <1>3, <1>7, <1>8 DEF a, g

(* An empty trail claims nothing, and covers an empty history.             *)
LEMMA NoTrail ==
  ASSUME NEW h \in Seq(Nat), NEW m \in Int
  PROVE  Within(<< >>, h) /\ Covers(<< >>, << >>, m)
<1>1. << >> \in Seq(Nat)
  OBVIOUS
<1>2. \A c \in Int : CountAfter(<< >>, c) = 0 /\ CountAfter(h, c) \in Nat
  BY CountOfNothing, CountOfAppend
<1> QED BY <1>2 DEF Within, Covers

\* Every trail claims only what there was.
Traced == ~unearned /\ \A ip \in Ip : Within(trail[ip], hist[ip])

\* Trail and history of every address stay, or both begin again.
Quiet ==
  /\ unearned' = unearned
  /\ now' \in {now, now + 1}
  /\ \A ip \in Ip : \/ trail'[ip] = trail[ip] /\ hist'[ip] = hist[ip]
                    \/ trail'[ip] = << >> /\ hist'[ip] = << >>

(* Every other step than a refusal and the gc of a trail is quiet: trail   *)
(* and history of an address stay, or both begin again.                    *)
LEMMA NextTrails ==
  ASSUME Kinds, [BanNext]_banVars
  PROVE  Quiet \/ (\E r \in Request : Record(r)) \/ (\E ip \in Ip : GcTrail(ip))
<1>1. ASSUME UNCHANGED <<now, trail, hist, unearned>> PROVE Quiet
  <2>1. unearned' = unearned
    BY <1>1, Zenon
  <2>2. now' \in {now, now + 1}
    BY <1>1
  <2>3. \A ip \in Ip : \/ trail'[ip] = trail[ip] /\ hist'[ip] = hist[ip]
                       \/ trail'[ip] = << >> /\ hist'[ip] = << >>
    BY <1>1
  <2> QED BY <2>1, <2>2, <2>3 DEF Quiet
<1>2. CASE UNCHANGED banVars
  BY <1>1, <1>2
<1>3. CASE Tick
  <2>1. unearned' = unearned
    BY <1>3 DEF Tick
  <2>2. now' \in {now, now + 1}
    BY <1>3 DEF Tick
  <2>3. \A ip \in Ip : \/ trail'[ip] = trail[ip] /\ hist'[ip] = hist[ip]
                       \/ trail'[ip] = << >> /\ hist'[ip] = << >>
    BY <1>3 DEF Tick
  <2> QED BY <2>1, <2>2, <2>3 DEF Quiet
<1>4. ASSUME NEW r \in Request, NEW ip \in Ip, Note(r, ip) PROVE Quiet
  BY <1>1, <1>4 DEF Note
<1>5. ASSUME NEW ip \in Ip, Unban(ip) PROVE Quiet
  <2>1. unearned' = unearned
    BY <1>5 DEF Unban
  <2>2. now' \in {now, now + 1}
    BY <1>5 DEF Unban
  <2>3. trail' = [trail EXCEPT ![ip] = << >>] /\ hist' = [hist EXCEPT ![ip] = << >>]
    BY <1>5 DEF Unban
  <2>4. ASSUME NEW q \in Ip
        PROVE  \/ trail'[q] = trail[q] /\ hist'[q] = hist[q]
               \/ trail'[q] = << >> /\ hist'[q] = << >>
    <3>1. CASE q = ip
      BY <2>3, <3>1 DEF Kinds, Trailing
    <3>2. CASE q # ip
      BY <2>3, <3>2 DEF Kinds, Trailing
    <3> QED BY <3>1, <3>2
  <2>5. \A q \in Ip : \/ trail'[q] = trail[q] /\ hist'[q] = hist[q]
                      \/ trail'[q] = << >> /\ hist'[q] = << >>
    BY <2>4
  <2> QED BY <2>1, <2>2, <2>5 DEF Quiet
<1>6. ASSUME NEW ip \in Ip, AdminUnban(ip) \/ LiftOne(ip) PROVE Quiet
  BY <1>5, <1>6 DEF AdminUnban, LiftOne
<1>7. ASSUME NEW ip \in Ip, BlockedExempt(ip) \/ Expire(ip) PROVE Quiet
  BY <1>1, <1>7 DEF BlockedExempt, Expire
<1>8. ASSUME NEW list \in Exempts, SetExempt(list) PROVE Quiet
  BY <1>1, <1>8 DEF SetExempt
<1>9. CASE SaverTake \/ SaverCollect \/ ClosePersist \/ FinalCollect \/ Start
  BY <1>1, <1>9 DEF SaverTake, SaverCollect, ClosePersist, FinalCollect, Start
<1>10. ASSUME NEW ok \in BOOLEAN, SaverWrite(ok) \/ FinalWrite(ok) PROVE Quiet
  BY <1>1, <1>10 DEF SaverWrite, FinalWrite
<1>11. CASE Down
  <2>1. unearned' = unearned
    BY <1>11 DEF Down
  <2>2. now' \in {now, now + 1}
    BY <1>11 DEF Down
  <2>3. \A ip \in Ip : trail'[ip] = << >> /\ hist'[ip] = << >>
    BY <1>11 DEF Down
  <2> QED BY <2>1, <2>2, <2>3 DEF Quiet
<1> QED
  BY <1>2, <1>3, <1>4, <1>6, <1>7, <1>8, <1>9, <1>10, <1>11 DEF BanNext

(* What a refusal does to the trails, and to what is known of the bans.    *)
LEMMA RecordTrails ==
  ASSUME Kinds, NEW r \in Request, Record(r)
  PROVE  LET a == client[r]
             t == noted[r]
             times == Append(After(trail[a], t - Window), t)
         IN /\ now' = now
            /\ \A ip \in Ip \ {a} : \/ trail'[ip] = trail[ip] /\ hist'[ip] = hist[ip]
                                    \/ trail'[ip] = << >> /\ hist'[ip] = << >>
            /\ Len(times) >= Threshold => trail'[a] = << >> /\ hist'[a] = << >>
            /\ ~(Len(times) >= Threshold) => trail'[a] = times /\ hist'[a] = Append(hist[a], t)
            /\ \/ unearned' = unearned
               \/ /\ Len(times) >= Threshold
                  /\ unearned' = (unearned \/ CountAfter(Append(hist[a], t), t - Window) < Threshold)
<1> DEFINE a == client[r]
           t == noted[r]
           times == Append(After(trail[a], t - Window), t)
<1>1. a \in Ip /\ trail \in [Ip -> Seq(Nat)] /\ hist \in [Ip -> Seq(Nat)]
  BY DEF Kinds, Requests, Trailing
<1>2. PICK out :
        /\ trail' = [Without(trail, out, << >>) EXCEPT ![a] = IF Full(times) THEN << >> ELSE times]
        /\ hist' = [Without(hist, out, << >>) EXCEPT ![a] = IF Full(times) THEN << >> ELSE Append(hist[a], t)]
  BY DEF Record, Kept
<1>3. \A ip \in Ip : /\ Without(trail, out, << >>)[ip] = IF ip \in out THEN << >> ELSE trail[ip]
                     /\ Without(hist, out, << >>)[ip] = IF ip \in out THEN << >> ELSE hist[ip]
  BY DEF Without
<1>4. DOMAIN Without(trail, out, << >>) = Ip /\ DOMAIN Without(hist, out, << >>) = Ip
  BY DEF Without
<1>5. ASSUME NEW ip \in Ip \ {a}
      PROVE  \/ trail'[ip] = trail[ip] /\ hist'[ip] = hist[ip]
             \/ trail'[ip] = << >> /\ hist'[ip] = << >>
  BY <1>2, <1>3, <1>4, <1>5
<1>6. Full(times) <=> Len(times) >= Threshold
  BY DEF Full
<1>7. /\ Len(times) >= Threshold => trail'[a] = << >> /\ hist'[a] = << >>
      /\ ~(Len(times) >= Threshold) => trail'[a] = times /\ hist'[a] = Append(hist[a], t)
  BY <1>1, <1>2, <1>4, <1>6
<1>8. \/ unearned' = unearned
      \/ /\ Full(times)
         /\ unearned' = (unearned \/ CountAfter(Append(hist[a], t), t - Window) < Threshold)
  BY DEF Record, Kept
<1>9. now' = now
  BY DEF Record
<1>10. \A ip \in Ip \ {a} : \/ trail'[ip] = trail[ip] /\ hist'[ip] = hist[ip]
                            \/ trail'[ip] = << >> /\ hist'[ip] = << >>
  BY <1>5
<1>11. \/ unearned' = unearned
       \/ /\ Len(times) >= Threshold
          /\ unearned' = (unearned \/ CountAfter(Append(hist[a], t), t - Window) < Threshold)
  BY <1>6, <1>8, Zenon
<1> HIDE DEF times
<1> QED BY <1>7, <1>9, <1>10, <1>11, Zenon DEF times

(* No trail ever claims a refusal there was not, so none is full too soon. *)
LEMMA TracedStep ==
  ASSUME Kinds, Traced, [BanNext]_banVars PROVE Traced'
<1>0. \A ip \in Ip : trail[ip] \in Seq(Nat) /\ hist[ip] \in Seq(Nat) /\ Within(trail[ip], hist[ip])
  BY DEF Kinds, Trailing, Traced
<1>e. << >> \in Seq(Nat) /\ now - Window \in Int
  BY BanAssumption DEF Kinds, Requests
<1>1. ASSUME NEW ip \in Ip,
             \/ trail'[ip] = trail[ip] /\ hist'[ip] = hist[ip]
             \/ trail'[ip] = << >> /\ hist'[ip] = << >>
      PROVE  Within(trail'[ip], hist'[ip])
  BY <1>0, <1>e, <1>1, NoTrail
<1>2. ASSUME unearned' = unearned, \A ip \in Ip : Within(trail'[ip], hist'[ip]) PROVE Traced'
  BY <1>2 DEF Traced
<1>3. CASE Quiet
  BY <1>1, <1>2, <1>3 DEF Quiet
<1>4. ASSUME NEW g \in Ip, GcTrail(g) PROVE Traced'
  <2>1. unearned' = unearned /\ hist' = hist /\ trail' = [trail EXCEPT ![g] = << >>]
    BY <1>4 DEF GcTrail
  <2>2. ASSUME NEW ip \in Ip PROVE Within(trail'[ip], hist'[ip])
    <3>1. CASE ip = g
      <4>1. trail'[ip] = << >>
        BY <2>1, <3>1 DEF Kinds, Trailing
      <4> QED BY <1>0, <1>e, <2>1, <4>1, NoTrail
    <3>2. CASE ip # g
      BY <2>1, <3>2, <1>0 DEF Kinds, Trailing
    <3> QED BY <3>1, <3>2
  <2> QED BY <1>2, <2>1, <2>2
<1>5. ASSUME NEW r \in Request, Record(r) PROVE Traced'
  <2> DEFINE a == client[r]
             t == noted[r]
             times == Append(After(trail[a], t - Window), t)
  <2>0. a \in Ip /\ t \in Nat
    BY DEF Kinds, Requests
  <2>a. a = client[r] /\ t = noted[r] /\ times = Append(After(trail[a], t - Window), t)
    OBVIOUS
  <2>1. /\ \A ip \in Ip \ {a} : \/ trail'[ip] = trail[ip] /\ hist'[ip] = hist[ip]
                                \/ trail'[ip] = << >> /\ hist'[ip] = << >>
        /\ Len(times) >= Threshold => trail'[a] = << >> /\ hist'[a] = << >>
        /\ ~(Len(times) >= Threshold) => trail'[a] = times /\ hist'[a] = Append(hist[a], t)
        /\ \/ unearned' = unearned
           \/ /\ Len(times) >= Threshold
              /\ unearned' = (unearned \/ CountAfter(Append(hist[a], t), t - Window) < Threshold)
    BY <1>5, RecordTrails, Zenon
  <2> HIDE DEF a, t, times
  <2>2. /\ times \in Seq(Nat) /\ Append(hist[a], t) \in Seq(Nat)
        /\ Within(times, Append(hist[a], t)) /\ Len(times) <= CountAfter(Append(hist[a], t), t - Window)
    <3>1. trail[a] \in Seq(Nat) /\ hist[a] \in Seq(Nat) /\ Within(trail[a], hist[a])
      BY <1>0, <2>0
    <3> QED BY <2>0, <2>a, <3>1, Refusal, ZenonT(60)
  <2>3. t - Window \in Int /\ Len(times) \in Nat
    BY <2>0, <2>2, LenProperties, BanAssumption
  <2>6. CountAfter(Append(hist[a], t), t - Window) \in Nat
    BY <2>0, <2>2, <2>3, CountOfAppend
  <2>4. unearned' = unearned
    <3>1. ASSUME Len(times) >= Threshold
          PROVE  ~(CountAfter(Append(hist[a], t), t - Window) < Threshold)
      BY <2>2, <2>3, <2>6, <3>1, BanAssumption
    <3> QED BY <2>1, <3>1 DEF Kinds, Trailing
  <2>5. Within(trail'[a], hist'[a])
    <3>1. CASE Len(times) >= Threshold
      BY <1>1, <2>0, <2>1, <3>1
    <3>2. CASE ~(Len(times) >= Threshold)
      BY <2>1, <2>2, <3>2
    <3> QED BY <3>1, <3>2
  <2>7. \A ip \in Ip : Within(trail'[ip], hist'[ip])
    BY <1>1, <2>1, <2>5
  <2> QED BY <1>2, <2>4, <2>7
<1> QED BY <1>3, <1>4, <1>5, NextTrails

(* Every ban rests on Threshold refusals of that address within the window *)
(* that ends with the last of them: for any threshold, window and number   *)
(* of addresses, whatever is lifted, evicted, dropped by gc or read back   *)
(* after a restart (recordFailure in ban.go).                              *)
THEOREM BanIsEarnedHolds == BanSpec => []BanIsEarned
<1>1. BanInit => Kinds /\ Traced
  <2> SUFFICES ASSUME BanInit PROVE Kinds /\ Traced
    OBVIOUS
  <2>1. \A ip \in Ip : trail[ip] = << >> /\ hist[ip] = << >>
    BY DEF BanInit
  <2>2. << >> \in Seq(Nat) /\ 0 \in Int
    OBVIOUS
  <2>3. Within(<< >>, << >>)
    BY <2>2, NoTrail
  <2> QED BY <2>1, <2>3, KindsInit DEF BanInit, Traced
<1>2. Kinds /\ Traced /\ [BanNext]_banVars => (Kinds /\ Traced)'
  BY KindsStep, TracedStep
<1>3. Traced => BanIsEarned
  BY DEF Traced, BanIsEarned
<1> QED BY <1>1, <1>2, <1>3, PTL DEF BanSpec
-----------------------------------------------------------------------------
(* No refusal in the window is forgotten.                                  *)

\* The last time of a trail, which gc goes by, is not the latest if a request
\* was slow; it is not older than the latest by more than this.
Near(s) == \A i \in 1..Len(s) : s[i] <= s[Len(s)] + (GcAfter - Window)

\* At n the trail s is short of a ban and covers the window.
Good(s, h, n) ==
  /\ s \in Seq(0..n)
  /\ Len(s) < Threshold
  /\ Near(s)
  /\ Covers(s, h, n - Window)
Recent == \A ip \in Ip : Good(trail[ip], hist[ip], now)

\* From reading the clock to taking the lock no request takes longer than what
\* gc's hour leaves of the window (recordFailure).
Prompt == \A r \in Request : stage[r] = "noted" => now - noted[r] <= GcAfter - Window

(* As time passes the window moves on, and less needs covering.            *)
LEMMA GoodLater ==
  ASSUME NEW n \in Nat, NEW s, NEW h, Good(s, h, n)
  PROVE  Good(s, h, n + 1)
<1> DEFINE q == n + 1
<1>1. 0..n \subseteq 0..q /\ n - Window \in Int /\ q - Window \in Int /\ q - Window >= n - Window
  BY BanAssumption
<1> HIDE DEF q
<1>2. s \in Seq(0..q)
  BY <1>1, SeqMonotonic DEF Good
<1>3. Covers(s, h, q - Window)
  <2>1. \A c \in Int : c >= q - Window => c >= n - Window
    BY <1>1
  <2> QED BY <2>1 DEF Good, Covers
<1>4. Good(s, h, q)
  BY <1>2, <1>3 DEF Good
<1> QED BY <1>4 DEF q

(* An address starts with a clean sheet.                                   *)
LEMMA GoodEmpty ==
  ASSUME NEW n \in Nat PROVE Good(<< >>, << >>, n)
<1> DEFINE e == << >>
<1>1. e \in Seq(0..n) /\ Len(e) = 0 /\ e \in Seq(Nat) /\ n - Window \in Int
  BY BanAssumption
<1>2. Covers(e, e, n - Window)
  BY <1>1, NoTrail DEF e
<1> HIDE DEF e
<1>3. Near(e)
  BY <1>1 DEF Near
<1>4. Good(e, e, n)
  BY <1>1, <1>2, <1>3, BanAssumption DEF Good
<1> QED BY <1>4 DEF e

(* A refusal noted at t and recorded at n that does not ban leaves a good  *)
(* trail: if it is late, it is not so late that gc could be misled.        *)
LEMMA GoodRefusal ==
  ASSUME Window <= GcAfter, NEW n \in Nat, NEW t \in 0..n,
         NEW s, NEW h \in Seq(Nat), Good(s, h, n),
         Threshold <= 2 \/ n - t <= GcAfter - Window,
         NEW times, times = Append(After(s, t - Window), t), Len(times) < Threshold
  PROVE  Good(times, Append(h, t), n)
<1> DEFINE k == After(s, t - Window)
           d == GcAfter - Window
<1>1. t \in Nat /\ t <= n /\ t - Window \in Int /\ n - Window \in Int /\ t - Window <= n - Window /\ d \in Nat
  BY BanAssumption
<1>2. 0..n \in SUBSET Int /\ s \in Seq(0..n) /\ s \in Seq(Nat)
  <2>1. 0..n \in SUBSET Int /\ 0..n \subseteq Nat
    OBVIOUS
  <2>2. s \in Seq(0..n)
    BY DEF Good
  <2>3. s \in Seq(Nat)
    BY <2>1, <2>2, SeqMonotonic
  <2> QED BY <2>1, <2>2, <2>3
<1>3. k \in Seq(0..n)
  BY <1>1, <1>2, AfterType
<1>4. Covers(times, Append(h, t), n - Window)
  BY <1>1, <1>2, Refusal DEF Good
<1> HIDE DEF k, d
<1>5. times = Append(k, t)
  BY DEF k
<1>6. times \in Seq(0..n) /\ Len(times) = Len(k) + 1 /\ Len(k) \in Nat /\ times[Len(times)] = t
  <2> DEFINE T == 0..n
  <2>1. k \in Seq(T) /\ t \in T
    BY <1>3
  <2> HIDE DEF T
  <2>2. Append(k, t) \in Seq(T) /\ Len(Append(k, t)) = Len(k) + 1 /\ Append(k, t)[Len(k) + 1] = t
    BY <2>1, AppendProperties
  <2>3. Len(k) \in Nat
    BY <2>1, LenProperties
  <2>4. times[Len(times)] = t
    BY <1>5, <2>2
  <2>5. times \in Seq(T) /\ Len(times) = Len(k) + 1
    BY <1>5, <2>2
  <2> QED BY <2>3, <2>4, <2>5 DEF T
<1>7. Near(times)
  <2> SUFFICES ASSUME NEW i \in 1..Len(times) PROVE times[i] <= t + d
    BY <1>6 DEF Near, d
  <2>1. times[i] \in 0..n
    BY <1>6, ElementOfSeq
  <2>2. CASE Threshold <= 2
    <3>1. i = Len(times)
      BY <1>6, <2>2, BanAssumption
    <3> QED BY <1>1, <1>6, <3>1
  <2>3. CASE n - t <= GcAfter - Window
    <3>1. n - t <= d
      BY <2>3 DEF d
    <3> QED BY <1>1, <2>1, <3>1
  <2> QED BY <2>2, <2>3
<1> QED BY <1>4, <1>6, <1>7 DEF Good

(* A trail that gc drops has no refusal left in the window.                *)
LEMMA GoodGone ==
  ASSUME Window <= GcAfter, NEW n \in Nat,
         NEW s, NEW h \in Seq(Nat), Good(s, h, n), s # << >>, n - s[Len(s)] > GcAfter
  PROVE  Good(<< >>, h, n)
<1> DEFINE e == << >>
           m == n - Window
<1>1. s \in Seq(0..n) /\ s \in Seq(Int) /\ DOMAIN s = 1..Len(s) /\ Len(s) \in Nat /\ Len(s) # 0
  <2>1. 0..n \subseteq Int
    OBVIOUS
  <2> QED BY <2>1, SeqMonotonic, LenProperties, EmptySeq DEF Good
<1>2. m \in Int /\ s[Len(s)] \in 0..n
  BY <1>1, ElementOfSeq, BanAssumption
<1>3. ASSUME NEW i \in 1..Len(s) PROVE s[i] \in Int /\ s[i] <= m
  <2>1. s[i] \in 0..n /\ s[i] <= s[Len(s)] + (GcAfter - Window)
    BY <1>1, ElementOfSeq DEF Good, Near
  <2> QED BY <1>2, <2>1, BanAssumption
<1> HIDE DEF m
<1>4. ASSUME NEW c \in Int, c >= m PROVE CountAfter(h, c) <= 0
  <2>1. \A i \in DOMAIN s : s[i] <= c
    BY <1>1, <1>2, <1>3, <1>4
  <2>2. After(s, c) = e
    BY <1>1, <2>1, AfterNone
  <2>3. CountAfter(s, c) = 0
    BY <2>2 DEF CountAfter
  <2> QED BY <1>4, <2>3 DEF Good, Covers, m
<1>5. Covers(e, h, m)
  BY <1>4, CountOfNothing DEF Covers
<1>6. Good(e, e, n)
  BY GoodEmpty
<1> HIDE DEF e
<1>7. Good(e, h, n)
  BY <1>5, <1>6 DEF Good, m
<1> QED BY <1>7 DEF e

(* Every step keeps the trails good, if requests reach the lock in time.   *)
LEMMA RecentStep ==
  ASSUME Window <= GcAfter, Kinds, Threshold <= 2 \/ Prompt, Recent, [BanNext]_banVars
  PROVE  Recent'
<1>0. now \in Nat /\ \A ip \in Ip : hist[ip] \in Seq(Nat) /\ Good(trail[ip], hist[ip], now)
  BY DEF Kinds, Requests, Trailing, Recent
<1>1. ASSUME NEW ip \in Ip, now' \in {now, now + 1},
             \/ trail'[ip] = trail[ip] /\ hist'[ip] = hist[ip]
             \/ trail'[ip] = << >> /\ hist'[ip] = << >>
      PROVE  Good(trail'[ip], hist'[ip], now')
  <2>1. Good(trail'[ip], hist'[ip], now)
    BY <1>0, <1>1, GoodEmpty
  <2> QED BY <1>0, <1>1, <2>1, GoodLater
<1>2. CASE Quiet
  BY <1>1, <1>2 DEF Quiet, Recent
<1>3. ASSUME NEW g \in Ip, GcTrail(g) PROVE Recent'
  <2>1. /\ now' = now /\ hist' = hist /\ trail' = [trail EXCEPT ![g] = << >>]
        /\ trail[g] # << >> /\ now - trail[g][Len(trail[g])] > GcAfter
    BY <1>3 DEF GcTrail, Last
  <2>2. Good(<< >>, hist[g], now)
    BY <1>0, <2>1, GoodGone
  <2>3. ASSUME NEW ip \in Ip PROVE Good(trail'[ip], hist'[ip], now')
    <3>1. CASE ip = g
      BY <2>1, <2>2, <3>1 DEF Kinds, Trailing
    <3>2. CASE ip # g
      BY <1>0, <2>1, <3>2 DEF Kinds, Trailing
    <3> QED BY <3>1, <3>2
  <2> QED BY <2>3 DEF Recent
<1>4. ASSUME NEW r \in Request, Record(r) PROVE Recent'
  <2> DEFINE a == client[r]
             t == noted[r]
             times == Append(After(trail[a], t - Window), t)
  <2>0. a \in Ip /\ t \in 0..now
    BY DEF Kinds, Requests
  <2>a. a = client[r] /\ t = noted[r] /\ times = Append(After(trail[a], t - Window), t)
    OBVIOUS
  <2>1. /\ now' = now
        /\ \A ip \in Ip \ {a} : \/ trail'[ip] = trail[ip] /\ hist'[ip] = hist[ip]
                                \/ trail'[ip] = << >> /\ hist'[ip] = << >>
        /\ Len(times) >= Threshold => trail'[a] = << >> /\ hist'[a] = << >>
        /\ ~(Len(times) >= Threshold) => trail'[a] = times /\ hist'[a] = Append(hist[a], t)
    BY <1>4, RecordTrails, Zenon
  <2>2. Threshold <= 2 \/ now - t <= GcAfter - Window
    BY <1>4 DEF Record, Prompt
  <2> HIDE DEF a, t, times
  <2>3. ASSUME NEW ip \in Ip, ip # a PROVE Good(trail'[ip], hist'[ip], now')
    BY <1>1, <2>1, <2>3
  <2>4. Good(trail'[a], hist'[a], now')
    <3>1. CASE Len(times) >= Threshold
      BY <1>1, <2>0, <2>1, <3>1
    <3>2. CASE ~(Len(times) >= Threshold)
      <4>1. trail[a] \in Seq(Nat) /\ t \in Nat
        BY <2>0 DEF Kinds, Trailing
      <4>2. Len(times) \in Nat
        BY <1>0, <2>0, <2>a, <4>1, Refusal, LenProperties
      <4>3. Len(times) < Threshold
        BY <3>2, <4>2, BanAssumption
      <4>4. Good(times, Append(hist[a], t), now)
        BY <1>0, <2>0, <2>2, <2>a, <4>3, GoodRefusal
      <4> QED BY <2>1, <3>2, <4>4
    <3> QED BY <3>1, <3>2
  <2> QED BY <2>3, <2>4 DEF Recent
<1> QED BY <1>2, <1>3, <1>4, NextTrails

(* An address is banned exactly for Threshold refusals within one window,  *)
(* if gc's hour is not shorter than the window and no request needs longer *)
(* than the difference of the two from the clock to the lock.  With a      *)
(* threshold of one or two a trail holds at most one refusal, and the      *)
(* requests may take their time (recordFailure and gc in ban.go).          *)
THEOREM BansExactHolds ==
  ASSUME Window <= GcAfter
  PROVE  BanSpec /\ [](Threshold <= 2 \/ Prompt) => []BansExact
<1>1. BanInit => Kinds /\ Recent
  <2> SUFFICES ASSUME BanInit PROVE Kinds /\ Recent
    OBVIOUS
  <2>1. \A ip \in Ip : trail[ip] = << >> /\ hist[ip] = << >>
    BY DEF BanInit
  <2>2. Kinds /\ now \in Nat
    BY KindsInit DEF Kinds, Requests
  <2>3. Good(<< >>, << >>, now)
    BY <2>2, GoodEmpty
  <2> QED BY <2>1, <2>2, <2>3 DEF Recent
<1>2. Kinds /\ Recent /\ (Threshold <= 2 \/ Prompt) /\ [BanNext]_banVars => (Kinds /\ Recent)'
  BY KindsStep, RecentStep
<1>3. Kinds /\ Recent => ThresholdBans
  <2> SUFFICES ASSUME Kinds, Recent, NEW ip \in Ip
               PROVE  CountAfter(hist[ip], now - Window) < Threshold
    BY DEF ThresholdBans
  <2>1. now - Window \in Int /\ hist[ip] \in Seq(Nat) /\ trail[ip] \in Seq(Nat) /\ Good(trail[ip], hist[ip], now)
    BY BanAssumption DEF Kinds, Requests, Trailing, Recent
  <2>2. /\ CountAfter(hist[ip], now - Window) <= CountAfter(trail[ip], now - Window)
        /\ Len(trail[ip]) < Threshold /\ Len(trail[ip]) \in Nat
    BY <2>1, LenProperties DEF Good, Covers
  <2>3. CountAfter(trail[ip], now - Window) <= Len(trail[ip])
    BY <2>1, AfterType DEF CountAfter
  <2>4. CountAfter(hist[ip], now - Window) \in Nat /\ CountAfter(trail[ip], now - Window) \in Nat
    BY <2>1, CountOfAppend
  <2> QED BY <2>2, <2>3, <2>4, BanAssumption
<1>4. BanSpec => []BanIsEarned
  BY BanIsEarnedHolds
<1>5. BansExact <=> BanIsEarned /\ ThresholdBans
  BY DEF BansExact
<1> QED BY <1>1, <1>2, <1>3, <1>4, <1>5, PTL DEF BanSpec
-----------------------------------------------------------------------------
(* Both tables are bounded.                                                *)

Small(S) == S \subseteq Ip /\ Cardinality(S) <= MaxTracked
\* All that is, or may become, a table.
Few ==
  /\ Small(Trails)
  /\ Small(Entries(banned)) /\ Small(Entries(snapshot)) /\ Small(Entries(file))

(* Less than a small table is small.                                       *)
LEMMA SmallSubset ==
  ASSUME NEW S, Small(S), NEW R \in SUBSET S PROVE Small(R)
<1>1. IsFiniteSet(S)
  BY FS_Subset, BanAssumption DEF Small
<1>2. IsFiniteSet(R) /\ Cardinality(R) <= Cardinality(S)
  BY <1>1, FS_Subset
<1>3. Cardinality(R) \in Nat /\ Cardinality(S) \in Nat
  BY <1>1, <1>2, FS_CardinalityType
<1> QED BY <1>2, <1>3, BanAssumption DEF Small

(* A table an entry is added to stays small: evictOne makes room for it.   *)
LEMMA SmallEvicted ==
  ASSUME NEW S, Small(S), NEW ip \in Ip, NEW out \in Victims(S, ip),
         NEW R \in SUBSET ((S \ out) \cup {ip})
  PROVE  Small(R)
<1>0. IsFiniteSet(S) /\ S \subseteq Ip /\ Cardinality(S) <= MaxTracked /\ Cardinality(S) \in Nat
  <2>1. IsFiniteSet(S)
    BY FS_Subset, BanAssumption DEF Small
  <2> QED BY <2>1, FS_CardinalityType DEF Small
<1> DEFINE K == (S \ out) \cup {ip}
<1>1. CASE ip \in S
  <2>1. R \subseteq S
    BY <1>1
  <2> QED BY <2>1, SmallSubset
<1>2. CASE ip \notin S /\ ~(Cardinality(S) >= MaxTracked)
  <2>1. R \subseteq S \cup {ip}
    OBVIOUS
  <2>2. Cardinality(S \cup {ip}) = Cardinality(S) + 1
    BY <1>0, <1>2, FS_AddElement
  <2>3. Small(S \cup {ip})
    BY <1>0, <1>2, <2>2, BanAssumption DEF Small
  <2> QED BY <2>1, <2>3, SmallSubset
<1>3. CASE ip \notin S /\ Cardinality(S) >= MaxTracked
  <2>1. PICK v \in S : out = {v}
    BY <1>3 DEF Victims
  <2>2. IsFiniteSet(S \ {v}) /\ Cardinality(S \ {v}) = Cardinality(S) - 1
    BY <1>0, FS_RemoveElement
  <2>3. Cardinality((S \ {v}) \cup {ip}) = Cardinality(S \ {v}) + 1
    BY <1>3, <2>2, FS_AddElement
  <2>4. Cardinality(K) = Cardinality(S)
    BY <1>0, <2>1, <2>2, <2>3
  <2>5. Small(K)
    BY <1>0, <2>4 DEF Small
  <2> QED BY <2>5, SmallSubset
<1> QED BY <1>1, <1>2, <1>3

(* What is collected for the file, or loaded from it, is small.            *)
LEMMA SmallBans ==
  ASSUME NEW f \in Bans, now \in Nat, Small(Entries(f))
  PROVE  /\ Small(Entries(InForce(f)))
         /\ Small(Entries(NoBans))
<1>1. Entries(InForce(f)) \subseteq Entries(f)
  BY InForceIs DEF Entries, NotBanned, Bans
<1>2. Entries(NoBans) \subseteq Entries(f)
  BY NoBansIs DEF Entries, NotBanned
<1> QED BY <1>1, <1>2, SmallSubset

(* Every step leaves both tables, and what is or will be on disk, small.   *)
LEMMA FewStep ==
  ASSUME Kinds, Few, [BanNext]_banVars PROVE Few'
<1>0. /\ now \in Nat /\ banned \in Bans /\ file \in Bans /\ snapshot \in Bans
      /\ trail \in [Ip -> Seq(Nat)]
  BY DEF Kinds, Requests, Saving, Trailing
<1>1. ASSUME Trails' \subseteq Trails, Entries(banned') \subseteq Entries(banned),
             UNCHANGED <<snapshot, file>> PROVE Few'
  BY <1>1, SmallSubset DEF Few
<1>2. ASSUME UNCHANGED <<trail, banned, snapshot, file>> PROVE Few'
  BY <1>1, <1>2 DEF Trails
<1>3. ASSUME NEW r \in Request, Record(r) PROVE Few'
  <2> DEFINE ip == client[r]
  <2>0. ip \in Ip
    BY DEF Kinds, Requests
  <2>3. UNCHANGED <<snapshot, file>>
    BY <1>3 DEF Record
  <2>1. Small(Trails')
    <3>1. PICK out \in Victims(Trails, ip) :
            \E new : trail' = [Without(trail, out, << >>) EXCEPT ![ip] = new]
      BY <1>3 DEF Record
    <3>2. PICK new : trail' = [Without(trail, out, << >>) EXCEPT ![ip] = new]
      BY <3>1
    <3>3. \A q \in Ip : q # ip => trail'[q] = IF q \in out THEN << >> ELSE trail[q]
      BY <3>2 DEF Without
    <3>4. Trails' \subseteq (Trails \ out) \cup {ip}
      BY <3>3 DEF Trails
    <3> QED BY <2>0, <3>4, SmallEvicted DEF Few
  <2>2. Small(Entries(banned'))
    <3>1. CASE banned' = banned
      BY <3>1 DEF Few
    <3>2. CASE banned' # banned
      <4>1. PICK out \in Victims(Entries(banned), ip) :
              \E new : banned' = [Without(banned, out, NotBanned) EXCEPT ![ip] = new]
        BY <1>3, <3>2 DEF Record
      <4>2. PICK new : banned' = [Without(banned, out, NotBanned) EXCEPT ![ip] = new]
        BY <4>1
      <4>3. \A q \in Ip : q # ip => banned'[q] = IF q \in out THEN NotBanned ELSE banned[q]
        BY <4>2 DEF Without
      <4>4. Entries(banned') \subseteq (Entries(banned) \ out) \cup {ip}
        BY <4>3 DEF Entries
      <4> QED BY <2>0, <4>4, SmallEvicted DEF Few
    <3> QED BY <3>1, <3>2
  <2> QED BY <2>1, <2>2, <2>3 DEF Few
<1>4. ASSUME NEW ip \in Ip, Unban(ip) PROVE Few'
  <2>1. banned' = [banned EXCEPT ![ip] = NotBanned] /\ trail' = [trail EXCEPT ![ip] = << >>]
    BY <1>4 DEF Unban
  <2>2. Trails' \subseteq Trails
    BY <1>0, <2>1 DEF Trails
  <2>3. Entries(banned') \subseteq Entries(banned)
    BY <1>0, <2>1 DEF Entries, Bans
  <2> QED BY <1>1, <1>4, <2>2, <2>3 DEF Unban
<1>5. ASSUME NEW ip \in Ip, AdminUnban(ip) \/ LiftOne(ip) PROVE Few'
  BY <1>4, <1>5 DEF AdminUnban, LiftOne
<1>6. ASSUME NEW ip \in Ip, Expire(ip) PROVE Few'
  <2>1. banned' = [banned EXCEPT ![ip] = NotBanned] /\ trail' = trail /\ UNCHANGED <<snapshot, file>>
    BY <1>6 DEF Expire
  <2>2. Trails' \subseteq Trails
    BY <2>1 DEF Trails
  <2>3. Entries(banned') \subseteq Entries(banned)
    BY <1>0, <2>1 DEF Entries, Bans
  <2> QED BY <1>1, <2>1, <2>2, <2>3
<1>7. ASSUME NEW ip \in Ip, GcTrail(ip) PROVE Few'
  <2>1. trail' = [trail EXCEPT ![ip] = << >>] /\ banned' = banned /\ UNCHANGED <<snapshot, file>>
    BY <1>7 DEF GcTrail
  <2>2. Trails' \subseteq Trails
    BY <1>0, <2>1 DEF Trails
  <2> QED BY <1>1, <2>1, <2>2
<1>8. CASE SaverCollect \/ FinalCollect
  <2>1. snapshot' = InForce(banned) /\ UNCHANGED <<trail, banned, file>>
    BY <1>8 DEF SaverCollect, FinalCollect
  <2>2. Small(Entries(snapshot'))
    BY <1>0, <2>1, SmallBans DEF Few
  <2> QED BY <2>1, <2>2 DEF Few, Trails
<1>9. ASSUME NEW ok \in BOOLEAN, SaverWrite(ok) \/ FinalWrite(ok) PROVE Few'
  <2>1. snapshot' = NoBans /\ file' \in {snapshot, file} /\ UNCHANGED <<trail, banned>>
    BY <1>9 DEF SaverWrite, FinalWrite
  <2>2. Small(Entries(snapshot'))
    BY <1>0, <2>1, SmallBans DEF Few
  <2> QED BY <2>1, <2>2 DEF Few, Trails
<1>10. CASE Down
  <2>1. snapshot' = NoBans /\ banned' = NoBans /\ trail' = [ip \in Ip |-> << >>] /\ file' = file
    BY <1>10 DEF Down
  <2>2. Small(Entries(snapshot')) /\ Small(Entries(banned'))
    BY <1>0, <2>1, SmallBans DEF Few
  <2>3. Trails' \subseteq Trails
    BY <2>1 DEF Trails
  <2> QED BY <2>1, <2>2, <2>3, SmallSubset DEF Few
<1>11. CASE Start
  <2>1. banned' = InForce(file) /\ UNCHANGED <<trail, snapshot, file>>
    BY <1>11 DEF Start, Loaded
  <2>2. Small(Entries(banned'))
    BY <1>0, <2>1, SmallBans DEF Few
  <2> QED BY <2>1, <2>2 DEF Few, Trails
<1>12. CASE UNCHANGED banVars
  BY <1>2, <1>12
<1>13. CASE Tick \/ SaverTake \/ ClosePersist
  BY <1>2, <1>13 DEF Tick, SaverTake, ClosePersist
<1>14. ASSUME NEW r \in Request, NEW ip \in Ip, Note(r, ip) PROVE Few'
  BY <1>2, <1>14 DEF Note
<1>15. ASSUME NEW ip \in Ip, BlockedExempt(ip) PROVE Few'
  BY <1>2, <1>15 DEF BlockedExempt
<1>16. ASSUME NEW list \in Exempts, SetExempt(list) PROVE Few'
  BY <1>2, <1>16 DEF SetExempt
<1> QED
  BY <1>3, <1>5, <1>6, <1>7, <1>8, <1>9, <1>10, <1>11, <1>12, <1>13, <1>14,
     <1>15, <1>16 DEF BanNext

(* Neither the bans nor the trails ever outgrow banMaxTracked, for any     *)
(* bound and any finite number of addresses, bans read from disk included  *)
(* (evictOne, load in ban.go).                                             *)
THEOREM TablesBoundedHolds ==
  BanSpec => [](/\ Cardinality(Entries(banned)) <= MaxTracked
                      /\ Cardinality(Trails) <= MaxTracked)
<1>1. BanInit => Kinds /\ Few
  <2> SUFFICES ASSUME BanInit PROVE Kinds /\ Few
    OBVIOUS
  <2>1. /\ banned = NoBans /\ snapshot = banned /\ file = banned
        /\ trail = [ip \in Ip |-> << >>]
    BY DEF BanInit
  <2>2. Entries(banned) = {} /\ Trails = {}
    BY <2>1, NoBansIs DEF Entries, Trails, NotBanned
  <2>3. Small({})
    BY FS_EmptySet, BanAssumption DEF Small
  <2> QED BY <2>1, <2>2, <2>3, KindsInit DEF Few
<1>2. Kinds /\ Few /\ [BanNext]_banVars => (Kinds /\ Few)'
  BY KindsStep, FewStep
<1>3. Few => /\ Cardinality(Entries(banned)) <= MaxTracked
             /\ Cardinality(Trails) <= MaxTracked
  BY DEF Few, Small
<1> QED BY <1>1, <1>2, <1>3, PTL DEF BanSpec
=============================================================================
