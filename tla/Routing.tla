------------------------------ MODULE Routing -------------------------------
(***************************************************************************)
(* The engine's routing table and the public requests it serves            *)
(* (internal/engine/engine.go and publicreqs.go): Reload builds a table    *)
(* from the stored hosts and the Docker hosts and swaps it in, then ends   *)
(* the public requests of hosts that left the public side; serveHTTPS and  *)
(* serveHTTP load the table, look their host up, register the request and  *)
(* serve it.  Reloads are serialised by reloadMu; requests are not, so a   *)
(* request may hold a route of a table that has been replaced.             *)
(***************************************************************************)
EXTENDS Naturals, FiniteSets

CONSTANTS
  Name,       \* the exact names requests carry
  Wild,       \* wildcard names
  WildOf,     \* WildOf[n]: the wildcard that covers the exact name n
  DbConfig,   \* DbConfig[h]: the configurations stored host h can have
  DkConfig,   \* DkConfig[h]: the configurations Docker host h can have
  Absent,     \* a host that is not configured, a name that has no route
  Req,        \* requests
  MaxChanges  \* bound: configuration changes

ASSUME RoutingAssumption ==
  /\ WildOf \in [Name -> Wild]
  /\ Name \cap Wild = {}
  /\ DOMAIN DkConfig \subseteq Nat     \* the order of the Docker hosts
  /\ MaxChanges \in Nat

DbHost == DOMAIN DbConfig
DkHost == DOMAIN DkConfig

VARIABLES
  db,        \* the stored hosts
  docker,    \* e.dockerHosts
  changes,   \* configuration changes so far
  callers,   \* reload callers waiting: with a retry left, and on their last try
  reload,    \* where the running Reload is: "idle", "build", "swap" or "end"
  hosts,     \* the stored hosts that the running Reload has read
  asLast,    \* the running Reload is its caller's last try
  stale,     \* a caller has given up, and no Reload has succeeded since
  built,     \* the table the running Reload has built
  table,     \* e.table: the route of each name, with the host it was built from
  at,        \* each request: "new", "routed", "open", "cut" or "done"
  route,     \* the host configuration of the route a request holds
  viaVPN,    \* the request came through the tunnel
  open,      \* publicRequests.open: the registered requests
  late       \* requests whose route was replaced before they registered and
             \* that no endNoLongerPublic has seen since

configVars == <<db, docker, changes, callers>>
reloadVars == <<reload, hosts, asLast, stale, built, table>>
reqVars == <<at, route, viaVPN, open, late>>
vars == <<configVars, reloadVars, reqVars>>

AnyName == Name \cup Wild

\* A stored host has this name, or a wildcard that covers it; disabled hosts
\* count as well.
Configured(stored, d) ==
  \E h \in DbHost : /\ stored[h] # Absent
                    /\ \/ d \in stored[h].names
                       \/ d \in Name /\ WildOf[d] \in stored[h].names

Configured_ExactOnly(stored, d) ==
  \E h \in DbHost : stored[h] # Absent /\ d \in stored[h].names

ServedBy(config, h, d) ==
  config[h] # Absent /\ config[h].enabled /\ d \in config[h].names

\* The table Reload builds: the stored hosts (whose names are unique), and
\* for a name that is not configured the first Docker host that has it.
Place_ExactOnly(stored, dk) ==
  [d \in AnyName |->
     IF \E h \in DbHost : ServedBy(stored, h, d)
       THEN stored[CHOOSE h \in DbHost : ServedBy(stored, h, d)]
     ELSE IF ~Configured_ExactOnly(stored, d) /\ \E h \in DkHost : ServedBy(dk, h, d)
       THEN dk[CHOOSE h \in DkHost : /\ ServedBy(dk, h, d)
                                     /\ \A g \in DkHost : ServedBy(dk, g, d) => h <= g]
     ELSE Absent]

Place(stored, dk) ==
  [d \in AnyName |->
     IF \E h \in DbHost : ServedBy(stored, h, d)
       THEN stored[CHOOSE h \in DbHost : ServedBy(stored, h, d)]
     ELSE IF ~Configured(stored, d) /\ \E h \in DkHost : ServedBy(dk, h, d)
       THEN dk[CHOOSE h \in DkHost : /\ ServedBy(dk, h, d)
                                     /\ \A g \in DkHost : ServedBy(dk, g, d) => h <= g]
     ELSE Absent]

\* routingTable.lookup: the exact name, else the wildcard.
Lookup(t, n) == IF t[n] # Absent THEN t[n] ELSE t[WildOf[n]]

\* The names of the hosts that are served publicly, as endNoLongerPublic
\* collects them.
PublicNames(t) ==
  UNION {t[d].names : d \in {e \in AnyName : t[e] # Absent /\ ~t[e].vpnOnly}}

NoHosts(config) == [h \in DOMAIN config |-> Absent]

Init ==
  /\ db = NoHosts(DbConfig)
  /\ docker = NoHosts(DkConfig)
  /\ changes = 0
  /\ callers = [first |-> 0, last |-> 1]     \* main's own Reload
  /\ reload = "idle"
  /\ hosts = NoHosts(DbConfig)
  /\ asLast = FALSE
  /\ stale = FALSE
  /\ table = [d \in AnyName |-> Absent]
  /\ built = table
  /\ at = [r \in Req |-> "new"]
  /\ route = [r \in Req |-> Absent]
  /\ viaVPN \in [Req -> BOOLEAN]
  /\ open = {}
  /\ late = {}

-----------------------------------------------------------------------------
(* Configuration.                                                          *)

\* The admin API saves or deletes a host and calls reload, which tries twice.
\* checkHostDomains refuses a name that another stored host has.
SaveHost(h, c) ==
  /\ changes < MaxChanges
  /\ db[h] # c
  /\ \A g \in DbHost \ {h} : c # Absent /\ db[g] # Absent => c.names \cap db[g].names = {}
  /\ db' = [db EXCEPT ![h] = c]
  /\ changes' = changes + 1
  /\ callers' = [callers EXCEPT !.first = @ + 1]
  /\ UNCHANGED <<docker, reloadVars, reqVars>>

\* SetDockerRoutes: the Docker hosts are replaced, and one Reload follows.
SetDockerRoutes_NoReload(h, c) ==
  /\ changes < MaxChanges
  /\ docker[h] # c
  /\ docker' = [docker EXCEPT ![h] = c]
  /\ changes' = changes + 1
  /\ UNCHANGED <<db, callers, reloadVars, reqVars>>

SetDockerRoutes(h, c) ==
  /\ changes < MaxChanges
  /\ docker[h] # c
  /\ docker' = [docker EXCEPT ![h] = c]
  /\ changes' = changes + 1
  /\ callers' = [callers EXCEPT !.last = @ + 1]
  /\ UNCHANGED <<db, reloadVars, reqVars>>

-----------------------------------------------------------------------------
(* Reload, under reloadMu.                                                 *)

\* A waiting caller gets the lock and the stored hosts are read.
ReloadStart(last) ==
  /\ reload = "idle"
  /\ IF last THEN callers.last > 0 ELSE callers.first > 0
  /\ callers' = IF last THEN [callers EXCEPT !.last = @ - 1]
                        ELSE [callers EXCEPT !.first = @ - 1]
  /\ hosts' = db
  /\ asLast' = last
  /\ reload' = "build"
  /\ UNCHANGED <<db, docker, changes, stale, built, table, reqVars>>

\* A query fails: Reload returns its error and the admin API tries once more.
ReloadFails ==
  /\ reload = "build"
  /\ reload' = "idle"
  /\ callers' = IF asLast THEN callers ELSE [callers EXCEPT !.last = @ + 1]
  /\ stale' = (stale \/ asLast)
  /\ UNCHANGED <<db, docker, changes, hosts, asLast, built, table, reqVars>>

\* The Docker hosts are loaded and the table is built, ...
ReloadBuild ==
  /\ reload = "build"
  /\ built' = Place(hosts, docker)
  /\ reload' = "swap"
  /\ UNCHANGED <<configVars, hosts, asLast, stale, table, reqVars>>

\* ... and swapped in.
ReloadSwap ==
  /\ reload = "swap"
  /\ table' = built
  /\ late' = late \cup {r \in Req : at[r] = "routed"}
  /\ reload' = "end"
  /\ UNCHANGED <<configVars, hosts, asLast, stale, built, at, route, viaVPN, open>>

\* endNoLongerPublic: the registered requests of a host one of whose names
\* is not public any more are cancelled.  The rest of Reload follows.
LeftPublicSide(t, r) == ~(route[r].names \subseteq PublicNames(t))
LeftPublicSide_AllNames(t, r) == route[r].names \cap PublicNames(t) = {}

ReloadEnd_AllNames ==
  LET ended == {r \in open : LeftPublicSide_AllNames(table, r)} IN
    /\ reload = "end"
    /\ reload' = "idle"
    /\ stale' = FALSE
    /\ at' = [r \in Req |-> IF r \in ended THEN "cut" ELSE at[r]]
    /\ open' = open \ ended
    /\ late' = late \ open
    /\ UNCHANGED <<configVars, hosts, asLast, built, table, route, viaVPN>>

ReloadEnd ==
  LET ended == {r \in open : LeftPublicSide(table, r)} IN
    /\ reload = "end"
    /\ reload' = "idle"
    /\ stale' = FALSE
    /\ at' = [r \in Req |-> IF r \in ended THEN "cut" ELSE at[r]]
    /\ open' = open \ ended
    /\ late' = late \ open
    /\ UNCHANGED <<configVars, hosts, asLast, built, table, route, viaVPN>>

-----------------------------------------------------------------------------
(* Requests: serveHTTPS and serveHTTP.                                     *)

\* The table is loaded and the host looked up.  An unknown host, and for a
\* request from outside a VPN-only one, gets the answer for unmatched hosts.
Serve(r, n) ==
  LET rt == Lookup(table, n) IN
    /\ at[r] = "new"
    /\ IF rt = Absent \/ (rt.vpnOnly /\ ~viaVPN[r])
         THEN at' = [at EXCEPT ![r] = "done"] /\ UNCHANGED route
         ELSE at' = [at EXCEPT ![r] = "routed"] /\ route' = [route EXCEPT ![r] = rt]
    /\ UNCHANGED <<configVars, reloadVars, viaVPN, open, late>>

\* publicReqs.track, for a request from outside.
Track(r) ==
  /\ at[r] = "routed"
  /\ at' = [at EXCEPT ![r] = "open"]
  /\ open' = IF viaVPN[r] THEN open ELSE open \cup {r}
  /\ UNCHANGED <<configVars, reloadVars, route, viaVPN, late>>

\* The request is over, or its cancelled context has ended it.
Over(r) ==
  /\ at[r] \in {"open", "cut"}
  /\ at' = [at EXCEPT ![r] = "done"]
  /\ open' = open \ {r}
  /\ UNCHANGED <<configVars, reloadVars, route, viaVPN, late>>

Next ==
  \/ \E h \in DbHost : \E c \in DbConfig[h] \cup {Absent} : SaveHost(h, c)
  \/ \E h \in DkHost : \E c \in DkConfig[h] \cup {Absent} : SetDockerRoutes(h, c)
  \/ \E last \in BOOLEAN : ReloadStart(last)
  \/ ReloadFails
  \/ ReloadBuild
  \/ ReloadSwap
  \/ ReloadEnd
  \/ \E r \in Req : Track(r) \/ Over(r) \/ \E n \in Name : Serve(r, n)

Spec == Init /\ [][Next]_vars

-----------------------------------------------------------------------------
(* Properties.                                                             *)

Config == UNION ({DbConfig[h] : h \in DbHost} \cup {DkConfig[h] : h \in DkHost})

(* Every variable has its type; a caller of Reload is served once per try. *)
TypeOK ==
  /\ \A h \in DbHost : db[h] \in DbConfig[h] \cup {Absent}
  /\ \A h \in DbHost : hosts[h] \in DbConfig[h] \cup {Absent}
  /\ \A h \in DkHost : docker[h] \in DkConfig[h] \cup {Absent}
  /\ changes \in 0..MaxChanges
  /\ callers \in [first : 0..MaxChanges, last : 0..(MaxChanges + 1)]
  /\ reload \in {"idle", "build", "swap", "end"}
  /\ asLast \in BOOLEAN
  /\ stale \in BOOLEAN
  /\ built \in [AnyName -> Config \cup {Absent}]
  /\ table \in [AnyName -> Config \cup {Absent}]
  /\ at \in [Req -> {"new", "routed", "open", "cut", "done"}]
  /\ route \in [Req -> Config \cup {Absent}]
  /\ viaVPN \in [Req -> BOOLEAN]
  /\ open \subseteq Req
  /\ late \subseteq Req

(* When no Reload runs or waits and the last one did not fail, the table   *)
(* is the one of the stored and Docker configuration: a change that is     *)
(* saved while a Reload is under way is not lost, however the reloads of   *)
(* the admin API and the Docker provider interleave.                       *)
TableFollowsConfig ==
  (reload = "idle" /\ callers.first + callers.last = 0 /\ ~stale)
    => table = Place(db, docker)

FromDb(r) == r = Absent \/ \E h \in DbHost : r = hosts[h]

(* A container's labels never get a route for an exact name that a stored  *)
(* host configures, be it by that name or through its wildcard and be it   *)
(* enabled or not; nor do they get a request for it through a wildcard of  *)
(* their own, if the stored host is enabled or has the wildcard (place,    *)
(* configured and lookup; the stored hosts are those of the Reload that    *)
(* built the table).                                                       *)
ManualHostWins ==
  reload = "end" =>
    \A n \in Name, h \in DbHost : hosts[h] # Absent =>
      /\ {n, WildOf[n]} \cap hosts[h].names # {} => FromDb(table[n])
      /\ (n \in hosts[h].names /\ hosts[h].enabled) \/ WildOf[n] \in hosts[h].names
           => FromDb(Lookup(table, n))

(* "a label can never silently override a host you configured by hand, not *)
(* even under a manual wildcard ... or while the manual host is switched   *)
(* off" (web/docs/docker.md): a container that lists the wildcard takes    *)
(* the requests of a host that is switched off.                            *)
SwitchedOffHostWins ==
  reload = "end" =>
    \A n \in Name, h \in DbHost :
      hosts[h] # Absent /\ n \in hosts[h].names => FromDb(Lookup(table, n))

(* After a Reload, the only public request still open on a host that lost  *)
(* a public name is one whose route was replaced between its lookup and    *)
(* its registration, and the next Reload cancels it.                       *)
OnlyLateRequestsStay ==
  reload = "idle" =>
    \A r \in Req : at[r] = "open" /\ ~viaVPN[r] /\ LeftPublicSide(table, r) => r \in late

(* A Reload cancels every registered request of a host that lost a public  *)
(* name, none of a host that is public under all of its names, and none    *)
(* that came through the tunnel (endNoLongerPublic).                       *)
CutsExactly ==
  [][/\ OnlyLateRequestsStay'
     /\ \A r \in Req : (at[r] # "cut" /\ at'[r] = "cut")
          => ~viaVPN[r] /\ LeftPublicSide(table, r)]_vars

(* "Whoever is connected from outside to a host that just left the public  *)
(* side is disconnected now (QG-03)" (Reload's comment).                   *)
LeftPublicSideIsCut ==
  reload = "idle" =>
    \A r \in Req : at[r] = "open" /\ ~viaVPN[r] => ~LeftPublicSide(table, r)

(* "endNoLongerPublic ends the public requests of every host that is not   *)
(* served publicly under all of its names any more: it became VPN only,    *)
(* was disabled, deleted, or lost a name" (its comment), for the requests  *)
(* of a stored host that were registered when the table was swapped.       *)
NotPublicAnyMoreIsCut ==
  reload = "idle" =>
    \A r \in Req : (at[r] = "open" /\ ~viaVPN[r] /\ r \notin late /\ route[r].from = "db")
      => \A d \in route[r].names : table[d] # Absent /\ ~table[d].vpnOnly

=============================================================================
