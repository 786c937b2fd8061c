# A TLA+ verification of quicgate

quicgate is a reverse proxy with an admin interface: it terminates TLS for
configured hosts, forwards TCP and UDP ports, derives hosts from Docker labels,
bans addresses that fail to log in, and runs a WireGuard endpoint through which
sites and users' devices reach services, under leases from an identity provider.
It is one Go process and one browser page. What is hard about the process is
goroutines that share state with a configuration that changes underneath them;
what is hard about the page is handlers that are suspended at an await while
the person goes on clicking, and forms that hold only what the page knew.

This directory holds TLA+ modules of its core, TLC configurations that check
them on small instances, and TLAPS proofs of the most important invariants for
every value of the constants. `PROJECT.json` lists the runs, the lines of code
each definition models, a mutation of the model that breaks each property, the
disagreements found between code and comments, the hazards the properties are
for, and the theorems.

    tlc -workers 2 -config TcpStreams.cfg MC_TcpStreams     one run
    tlapm TcpStreams_proofs.tla                             the proofs of a module

## 1. Inventory

| Component | State | Operations | Hard because |
|---|---|---|---|
| TCP forwards (`engine/streams.go`) | listeners by key, connection tracker, slots, counts per client | Sync, StopAll, accept, handle, splice | a Sync races the accept loop and every handler; seven exits give back slots and counts |
| Idle splicing (`streams.go`, idlePair) | a quiet flag per direction | two copy loops with read deadlines | one direction decides from the other's flag |
| UDP forwards (`streams.go`, startUDP) | sessions by client address and port, counts per address | read loop, readers, sweeper, stop | a client returns on its port while its old reader is on the way out |
| Routing and reload (`engine.go`, `publicreqs.go`) | routing table, Docker routes, registered public requests | Reload, SetDockerRoutes, serve | requests hold routes of a table that has been replaced; reloads fail and are retried |
| Bans (`ban.go`, `ban_exempt.go`) | trails, bans, never-ban list, `bans.json` | recordFailure, gc, unban, setExempt, saver | bounded tables, a saver that coalesces, crash and restart |
| Flow log (`vpnflow.go`) | bounded queue, per-record state, failed and probing flags | record, writer | timeout and writer race for what the log says; the disk fails or hangs |
| WireGuard endpoint (`wg/manager.go`) | instance, peers, address owners, tracked flows, expiry timer | Apply, Close, expiry, Accept, DialContext, Reresolve, Remember | packets inside the stack outlive the configuration that let them in |
| Forwarding (`wg/forward.go`) | reservations, pending counts, UDP queue, deny cache | admitFlow, forwardTCP, forwardUDP, workers, relay, review | the lock is released while a record is written and a destination is dialled |
| VPN leases (`portal.go`, `store/vpn.go`) | sessions with generation, lease, grace and hard limit | login, enrol, leaseTick, renewLease, end | renewal takes up to 30 s at the provider while an administrator ends the session |
| Health and balancing (`health.go`) | up or down per target | probe loop, markDown, pick | an old probe result overwrites a newer mark |
| Response cache (`cache.go`) | LRU entries, bytes | get, put, remove, wrap | two budgets at once |
| Admin login (`admin/*.go`) | sessions, throttles, second factor | login, logout, password, e-mail, 2FA, tokens | a login in flight across a password change |
| Docker (`docker/*.go`) | containers per endpoint, applied signature | reconcile, aggregate | endpoints disconnect; conflicts between containers |
| Single sign-on, access lists, path rules | cookies, pending logins, rule sets | gate, callback, decide | replay and expiry; pure decisions with many cases |
| Store, sealed secrets, backup | SQLite, seal key, archive | one transaction each; seal, restore | a crash between two files |
| Traffic, access log, UPnP, certificates, tunnel DNS | counters, files, mappings | rollups, rotation, I/O | little shared state; mostly I/O |
| Web: saving and dialogs (`web/app.js`) | counter of changes, Save buttons, what each dialog edits | api, setSaving, open, submit, close | handlers overlap, fail, and answer after their dialog was reopened |
| Web: forms (`web/app.js`) | rows and lists as last loaded, the fields | openModal and its kin, read functions, refresh | an object is taken apart into fields and put together again, against lists that are stale |
| Web: frame, sign-in, guides (`web/app.js`, `web/md.js`) | view, page, section, history | switchPage, setRoute, popstate, boot, login, logout; renderMarkdown | the page leads the address and follows it |
| Web: overview (`web/app.js`, `web/charts.js`) | range, report, timer, hovered point | ovSetRange, ovSchedule, ovLoadTraffic, TimeChart.update | a chain of timers and answers of another range |
| Web: logs, Docker, certificates, settings; portal page (`portal.js`) | what was loaded last | load and show, send the fields | answers out of order |

How they meet: the admin API and the Docker provider change the store or the
Docker routes and call Reload; Reload builds and swaps the table, ends public
requests, calls the stream manager's Sync, sets the ban configuration and
applies the WireGuard configuration. The forwarder asks the flow log before
every flow; tunnel listeners serve the same table; leases decide which devices
the next Apply contains. The page sees all of this through the admin API only:
every change it makes is one request with a whole object, and every list it
shows is a copy.

For each component the question is the same one, in its own words: *does
anything that was admitted under an old configuration go on under the new one,
and is everything that was taken (slot, count, socket, record) given back
exactly once?* For the page it is: *does what is sent come from what is shown,
and does what is shown come from the last thing that was asked for?*

## 2. Modules

A step of every module is one critical section, one atomic or channel
operation, or one call that blocks; what the code does inside one section is
one action. Names are those of the code where TLA+ allows it.

**TcpStreams** - one listener key of the stream manager. `SyncBegin`, `SyncEnd`,
`StopAll`, `CloseTaken` are the manager; `Accept`, `AcceptFails`, `Slot` the
accept loop; `Track`, `Identify`, `Acquire`, `Route`, `Dial`, `Attach`,
`SpliceCut`, `SpliceOver`, `Release`, `Untrack`, `FreeSlot` one connection's way
through handleTCP, with every early return. Each start of the forwarder is a new
generation. Keys share no state, so one key is enough.

**IdlePair** - the two directions of `idlePair.copy`, with discrete time: an idle
period is `Idle` ticks, and the read deadline, the store to the own flag and the
load of the other's are steps of their own.

**UdpSessions** - startUDP: the read loop, a reader per session, the sweeper and
stop in its two halves (the socket is closed, then the sessions are).

**Routing** - Reload in three steps (read and build, swap, end what left the
public side), with a query that may fail, the admin API's one retry, and the
Docker provider; requests look up, register, are served or cut. Names are exact
or covered by one wildcard; `Place` is the placing of stored and Docker hosts, in
the order of their numbers; a container may list a wildcard too.

**BanManager** - recordFailure in its two steps (the never-ban list is read
before the lock), gc, expiry, lifting, eviction; the saver goroutine with its
channel of one, file writes that may fail, crash, orderly shutdown, restart.

**FlowLog** - record and the writer: every compare-and-swap, channel operation
and write is a step, and a write may fail or never return. The best-effort
record the forwarder writes about each flow afterwards is `BestEffort`.

**WgManager** - Apply (in place, or with a controlled reset), failure and Close,
the expiry timer with its function waiting for the lock, and three kinds of
tracked things: forwarded flows (admission in three steps, dial, relay, end),
connections to listeners in the tunnel (accept, attribution), and dials to sites
(lookup, registration, dial, confirmation). A thing keeps the address and key its
sender had when its first packet came in.

**UdpAdmit** - the queue between the receive path and the admission workers of an
instance, and the deny cache that all instances share.

**VpnLease** - the lease of one person: login, disconnect, block and unblock,
enrolment and revocation of a device; `TickList` and `TickScan` of the lease
tick; a renewal in its stages (`Redeem...`, `Claims...`, then the commit, the
transient mark or the lapse); and syncWireGuard in two steps under its lock
(`SyncRead`, `SyncApply`). The provider
disables accounts, changes groups, rotates refresh tokens and may revoke all
tokens of a login when a spent one comes back. The unit of time is the tick's
period, and a deadline is the time left until it. A row that is over keeps only
its generation, because nothing else of it is read before the next login writes
it. `Faults` names what may go wrong: the provider unreachable, its answer lost,
UserInfo failing, refusals, a failed database write, a failed Apply, a crash.

**SaveGate** and **WebConsole** - SaveGate says what the page promises about
saving: a form is saved only while nothing else is on its way. WebConsole is how
the page does it: `SetSaving` and `SubmitAllowed` are the counter and the
listener that captures submits, `Send` and `Answered` the two halves of `api`.
A suspended handler is a task: a dialog that is still opening (`OpenLater`,
`OpenAclDone`, `OpenKeyDialogDone`), a key pair being made (`SubmitKeyed`,
`KeysMade`), a change at the server (`Submit`, `SubmitLan`, `ChangeRow`, then one
`Saved...`, `Refused` or `AnswerLost`), the read after it (`ReadDone`). An action
is the code between two awaits. `own` and `fill` are ghosts: whose fields a
dialog shows, and the how-manieth opening it is.

**FormParts**, **HostForm**, **PageForms** - pure operators: what each form is
filled with from an object and the page's lists (`Fill...`, `Add...Row`), and
what is read back (`Read...`). A field that cannot hold a value loses or changes
it, as in the code: a select without a matching option, an upstream pool line
that the pattern does not match, an HTTP method without a chip (`Chips`: six of
the nine methods the server stores have one, and a rule left without methods is
one for all), a group whose name has a comma and is read back as two
(`SplitNames`). Texts are without blanks around them, and the peers a rule can
name are devices. **WebForms** puts them to work: one page (rows and lists), one
open dialog, other administrators who change the configuration, and loads that
fail in part (`RefreshLists`, where the list of providers becomes empty;
`People`, whose two calls fail each by itself). `Accepts` and `Merged` are what
the admin API refuses of what the dialogs can send, and its keeping of secrets.

**Charts** and **Overview** - Charts holds the arithmetic (`OvRates`, `Groups`,
`NiceScale`, `TimeTicks`, column stacks) on integers; a missing sample is `Null`.
Overview is the page: the timers that are set, loads in flight with the range
they were asked for, the charts' data and the hovered index.

**Markdown** and **WebShell** - Markdown is renderMarkdown on lines that are
known by their kind (`Kinds`), block by block; `Whole` is the reference
definition it is checked against. WebShell is the frame: views, sign-in, pages,
sections, and the browser's history as a sequence of addresses with a position.

The proofs are in modules of their own (section 4). TcpStreams, UdpSessions,
FlowLog, WgManager, VpnLease and WebConsole have one each, named after them with
`_proofs`; `Engine_proofs` is about Routing and BanManager, `WebPages_proofs`
about WebShell, Overview and WebForms. The modules that share one of proofs
share no state: each theorem names the specification it is about.

Modules meet at their seams rather than in one product: WgManager's `Recorded`
is the answer of FlowLog's record, and UdpAdmit's `Decide` and `Admitted` are
what WgManager's admission does for the flow a worker holds.

## 3. Runs

| Run | Checks | Shows |
|---|---|---|
| `tcp_listener` | TypeOK, SourceRestriction, StoppedConnectionsEnd, ListenerLimits, CountersExact | nothing admitted under an old specification outlives it; no slot or count leaks |
| `udp_listener` | CountsExact, NoLostSocket, ClosedSessionsDrain | the session table under all four goroutines |
| `routing` | TableFollowsConfig, ManualHostWins, CutsExactly | no change is lost, containers get no route for a configured name, reloads cut the right requests |
| `bans` | BansExact, SaverUpToDate | bans are exactly the earned ones; the file follows them |
| `flow_log` | NoRecordNoFlow, RefusedIsNotAllowed, OneProbe, LossesCounted, AdmissionEnds | no record, no flow, for every race and a failing or hanging disk |
| `wg_manager` | OpenIsAuthorized, ExpiredHaveNothing, Budgets, AddressKeepsOwner, ClosedEnds | what is open belongs to this instance, this key and this policy; budgets are exact; what is closed ends |
| `vpn_lease` | EndpointFollowsStore, AccessIsBounded, SessionIsItsLogins, OnlyLoginRevives | the endpoint ends up with what the database authorizes; a lost account loses access in bounded time; no stale renewal changes a session |
| `web_console` | SavingExact, CreatedOnce, SavesAreGated | the counter of changes is exact and no Save button stays dead; a filled-in form makes one object; WebConsole implements SaveGate |
| `web_forms` | Kept, NoStrangers | an untouched form sends back what it was filled from, and never refers to something else, whatever the page's lists have missed |
| `web_shell` | AddressNamesPage, GuidesWhole, BackReturns | the address names what is shown; Back returns; every guide of at most four lines is shown whole and in order |
| `overview` | OneTimer, ReportOfRange, HoverInRange, AxisFits, PollingGoesOn | one chain of timers that never breaks, reports of the chosen range only, an index and an axis that fit the data |
| `web_forms_provider` | ProviderKept (violated) | a host saved untouched after the providers failed to load loses its provider |

A violated property is a sentence of a comment or a document, quoted in
`PROJECT.json` under `findings`, that the code does not keep.

Three more configurations pass and are kept next to the runs, for the parts they
are about: `TcpStreamsLive.cfg` (MC_TcpStreams, StoppedDrains: every connection
of a stopped listener ends, also when it was full), `IdlePair.cfg` (IdlePair: no
steady direction is cut, silence ends within three periods), `UdpAdmit.cfg`
(MC_UdpAdmit: one admission per flow, exact shares, all of them settled). The
others show the sentences of section 5.

**Bounds.** Two or three actors of each kind and limits of one or two are enough
for the cases to happen: a limit reached, a key reused, a listener replaced
while a connection is in every stage, two reloads around one request, two stack
instances. `MaxGen`, `MaxInst`, `MaxTime`, `MaxChanges`, `MaxStarts`
and the sets of connections, sockets and things bound how often something
happens. `Idle = 3` tells every order of two deadlines within a period apart. A
table limit of one entry for two addresses makes every insertion an eviction.
Symmetry is used in `tcp_listener`, over connections, and in `bans`, over
requests, which the modules never order or name; no liveness is checked there.
In `bans` a window, a ban and gc's age last one tick, so that three ticks see a
refusal leave the window, a ban end and a trail dropped; a window of two ticks
within four (`Window = 2`, `GcAfter = 2`, `MaxTime = 4`) holds as well.
In `vpn_lease` a lease of three units is the shortest that is half over while it
still runs, a grace of one tells the two deadlines apart, and the hard limit of
six lies past both (`Bound` is five). With `Hard = 7` the bound of
AccessIsBounded is reached exactly: a unit less is violated there. Three
generations and two logins (`MaxGen`, `MaxLogin`) are what a renewal across an
end and a new login takes; two refresh tokens per login (`MaxSerial`) are one
rotation. That run has almost five million states. wgDevices lists the devices
before it reads the leases; with two steps for the two reads the same properties
hold (eight million states).

`web_console` has one dialog of each way of opening and saving (access list,
stream, site) and the LAN panel, two handlers in flight, two openings, a lost
answer; the proofs of section 4 lift all of these bounds. `web_forms` takes one
object at a time out of thirteen that between them use every feature the dialogs
treat apart, the ones only the API can make included; list entries are deleted
and created meanwhile, and one object is changed or saved: one change already
makes rows, lists and dialog disagree in every combination. `overview` has two ranges with
different grouping, two loads in flight and reports with a gap, without samples
and with large values. `web_shell` has a plain page, a page with two sections,
a history of three entries (one before and one after the current one) and all
guides of at most four lines over every kind of line: no block looks more than
two lines back.

**Fairness.** Weak fairness of goroutine steps and of timers, because the Go
scheduler runs what is runnable; of blocking calls only where the code gives
them a deadline or closes what they wait on. A splice ends by fairness only
after its connections were closed. FlowLog assumes nothing about writes, which
may hang for ever. In Overview a timer that is set fires and a request is
answered or fails, as browsers guarantee; nothing is assumed of the person. The
other web modules are checked without fairness. No fairness is assumed of
clients, administrators, Docker, Apply or the clock. Deadlock is not checked where the system may simply be at
rest, or has used up a bound.

## 4. Proofs

`TcpStreams_proofs` proves, for any set of connections, clients and
specifications and any limits: `TypeCorrect`, `CountersExactHolds`, `LimitsHold`,
`SourceRestrictionHolds`, `StoppedConnectionsEndHolds`. The counters cannot be
shown to be natural numbers without knowing that they are exact, nor the
restriction without knowing where every tracked connection stands; so the
inductive invariant has three parts: `Shape` (types with integer counters; what
Sync guarantees about generations: every generation but the active one is
stopped; what a connection's stage says about tracker, attachment and filter),
`SlotsExact` and `ClientsExact` (each counter is the cardinality of the set it
stands for). One lemma per counting action, two frame lemmas for all others.
Assumptions: `SpecsAssumption`, `BoundsAssumption`, and that there are finitely
many connections.

`FlowLog_proofs` proves, for any set of flows and queue size: `TypeCorrect`,
`NoRecordNoFlowHolds`, `RefusedIsNotAllowedHolds`, `OneProbeHolds`,
`LossesCountedHolds`. The invariant
`IInv` says where a record can be (in the queue once, in the writer's hand, or
nowhere), what its state and result mean in each phase of admission and writer,
and which lines the log has; "no record, no flow" then follows because a result
`ok` is only sent after the line, and an admission that times out can only return
`allow` after it has lost the race to a writer that has written. That losses are
counted says nothing while records are on their way; the proof counts the flows
about which nothing more will come (`Lost`), at every moment, and needs that a
flow's records are written in their order (`Ordered`): an allow line after the
refusal would bring a flow back among the lost ones.

`UdpSessions_proofs` proves, for any clients, addresses, sockets and limits:
`TypeCorrect`, `CountsExactHolds`, `NoLostSocketHolds`. `Wired` (table, readers
and sockets belong together) is inductive by itself; on top of it the counts
(`Counted`) stay exact because a session is forgotten only by whoever still finds
its own socket in the table, and `OneLeft` says why a stopped listener has at
most one session: the read loop gets no second packet. Assumption:
`ConstantsAssumption`; nothing needs to be finite, the table stays so.

`WgManager_proofs` proves, for any peers, addresses, configurations, budgets and
things: `TypeCorrect`, `OpenIsAuthorizedHolds`, `ExpiredHaveNothingHolds`,
`BudgetsHold` and the action property `AddressKeepsOwnerHolds`. The invariant has
a part for the endpoint (`Table`: the running instance has an accepted
configuration and every configured address is its owner's; `Armed`: the timer
fires no later than the next authorization ends), one for each thing (`Staged`:
what its stage says about registration and closing; `Waits`: a flow still in the
stack came under the key its address's owner still has; `Entitled`: what is
registered is what its peer may have) and the counts. `Waits` is what the
controlled reset is for: without it a flow admitted late could meet another key.
Assumptions: `ConfigAssumption` (no two peers of a configuration share an
address, a device keeps its key, a site has no end of authorization, as
`manager.go:134` sets it) and `BoundsAssumption`.

`VpnLease_proofs` proves, for any lease, grace, hard limit, timeout, groups and
devices: `TypeCorrect`, `SessionIsItsLoginsHolds`, `AccessIsBoundedHolds`,
`EndpointFollowsStoreHolds` and the action property `OnlyLoginRevivesHolds`. A
renewal and a tick work with rows that may have been replaced, so the invariant
says of which generation what they hold is (`Lineage`), that a session which a
renewal may bring back is one the last tick saw alive (`Noticed`), how much of
the bound on access is used up at every stage from the provider's answer to the
endpoint (`Spent`), that no deadline outlives the hard limit (`Capped`), and that
what was read or applied last is what the store says unless somebody waits to
read again (`Told`). Without the comparison of generations at the commit the
proof of `Lineage` fails, as it should. Assumption: `LeaseAssumption`.

`Engine_proofs` proves of Routing, for any names, hosts, configurations and requests:
`TypeCorrect`, `TableFollowsConfigHolds`, `ManualHostWinsHolds` and the action
property `CutsExactlyHolds`. `Fresh` says which configuration the running Reload
has read, built or swapped in unless a caller waits to reload again; `Tries`
bounds the callers; `BuiltFor` ties the table to the stored hosts that were read,
whatever the containers were; `Late` notes every public request whose host lost
a public name, but for those the running Reload is about to end. Lemmas about
`Place` and `Lookup` carry ManualHostWins. Assumption: `RoutingAssumption`
(Docker hosts are numbered, which is the order in which they are placed). The
attempt to prove ManualHostWins for switched-off hosts as well failed, and showed
the behaviour of SwitchedOffHostWins in section 5.

`Engine_proofs` proves of BanManager, for any addresses, requests, thresholds,
windows, times and restarts: `SaverUpToDateHolds`, `BansExactHolds`,
`TablesBoundedHolds` (neither table outgrows its limit, bans read from the file
included) and `BanIsEarnedHolds` (the half of BansExact that needs no
assumption: every ban rests on Threshold refusals within one window). `Saved`
says what the saver's channel, its copy and the file have of the bans in force,
crash and failed writes included. BansExact compares a trail with the history
of refusals; what a filter over a sequence keeps is proved by induction, with
the library's theorem that the natural numbers are well-founded in place of an
induction rule (`NatInd`, over sets instead of predicates). `Traced` says that a
trail claims no refusal there was not, `Recent` that it is below the threshold
and covers every refusal of the last window, `Few` bounds the tables and what
may become one (the file, and the saver's copy). Assumptions: `BanAssumption`; for BansExact also that gc
waits at least as long as the window (`ban.go` has an hour and a configurable
window: section 5) and `Prompt`: no request waits longer for the manager's lock
than gc waits beyond the window, needless for a threshold of one or two. The
second was found by the proof: see the end of section 5.

`WebPages_proofs` proves of WebShell, for any pages, sections, addresses and a history of any
length: `TypeCorrect`, `AddressNamesPageHolds` and the action property
`BackReturnsHolds`. AddressNamesPage is inductive with the types, once it is known
what the history's entries can be; `SetRouteIs` and `SwitchPageIs` say what
setRoute and switchPage leave of any history at any entry, and every action but
those that show no page is an instance of them. Assumption: `ShellAssumption`
(a page of sectionNavs has a section, an address is a page and a section).

`WebPages_proofs` proves of Overview, for any ranges, reports, groupings, timers
and loads in flight: `OneTimerHolds`, `ReportOfRangeHolds`, `HoverInRangeHolds`,
and of the charts `NiceScaleFits` (the axis for every largest value below 400000
holds it, by less than a step, in two to four steps). ReportOfRange is inductive
as it stands; `Polls` says that the timer that is set is the one that is
remembered, `Hovering` that the hovered point is among the points the chart was
last updated with. Assumption: `OverviewAssumption` (a report has points, as the
server fills every interval, and a grouping is of at least one).

`WebPages_proofs` proves of WebForms, for any objects, lists and changes by
others: `NoStrangersHolds` and `KeptHolds`. A select that finds no option for a
value falls back to the empty one, but one that was given no value shows its
first option; so both theorems need what the server has checked of the objects
it stores (`Stored`: a rule by access list has its list, `validateAuthRules` in
`store.go`; a portal has its provider, `PortalOptions.Validate` in `vpn.go`; a
subject names what its kind needs, `VPNSubject.Validate`). The invariant carries
this from the store to the rows, the dialog and the portal block and, through an
edited form that the server accepts, back into the store (`SentStored`), and
says that a form was filled from its object with some lists the page had
(`Filled`, `PortalBlock`). What the filter over the rows of a form keeps is
again an induction (`WhereIs`, `WhereAll`). Kept is a round trip through every
field of five dialogs, one lemma for each control and table (`PoolBack`,
`RulesBack`, `PortalBack`...), put together by `HostBack` and `KeptNow`. Its
theorem is about an object that is `Valid`: one the server's Validate functions
(`store.go`, `access.go`, `vpn.go`) let through, with what they fill in and
clear. Of those, `Expressible` in Kept leaves the ones the dialogs have fields
for. What it leaves out is listed with it in WebForms: the API stores such
objects, and a save changes them (section 5). The lemma `HostPlain` derives from
both what the round trip of a host needs of every field, so that the list is
shown to be complete. On the run's instance every stored object is Valid and
Stored in every reachable state. Two more things the theorem says that the run
cannot: tables of any length, and any lists.

`WebConsole_proofs` proves, for any set of dialogs, any number of handlers in
flight, openings, lost answers and refreshes: `TypeCorrect`, `SavingExactHolds`,
`CreatedOnceHolds` and the refinement `SavesAreGatedHolds` (WebConsole implements
SaveGate). Every action is first shown to be one of four kinds (`StepKinds`): it
sends one change, ends one, moves one handler on without a change, or touches
neither. Types and the exact counter are then proved together, because the
counter is only known to stay above zero while it counts something. From the
exact counter follows that the guard lets one form through at a time (`OneForm`),
which maps every step to a step of SaveGate or to a stutter. CreatedOnce needs
more (`Once`): a number of an opening is in one dialog only, a form that is being
saved came from it, and an opening that has made its object is nowhere about to
be sent as new again. Assumption: `ConsoleAssumption` (the dialogs are among the
five modelled, finitely many handlers).

Each inductive invariant was checked with TLC on the instance of the module's run
before it was proved.

Left to TLC: liveness (ClosedSessionsDrain, AdmissionEnds, ClosedEnds,
PollingGoesOn), which the prover does not reach; GuidesWhole, which is about
what the recursive renderer makes of a whole guide, and AxisFits beyond its
scale, which folds a report's samples into columns: recursive operators, and
induction over data with operators as parameters, are beyond the prover; and the
properties of IdlePair and UdpAdmit.

## 5. Sentences the code does not quite keep

Next to the finding, the modules state these sentences of the comments and
documents as properties, and each of them fails. Where a configuration of its own
is named it shows the behaviour; the others are shown by the module's own
configuration with its INVARIANTS and PROPERTIES replaced by the property.

| Sentence | Property, configuration | What happens |
|---|---|---|
| "StreamStatus reports whether one listener of a stream is actually running." (`streams.go:74`) | RunningMeansAccepting, own `TcpStreamsDeaf.cfg` | after any accept error (`streams.go:599`) the loop ends, the forward stays active with an unchanged signature, and no Sync starts it again |
| "retried with backoff until `lease_until`, which already rides out a restart of the IdP without any grace" (`SPEC-wireguard.md:429`) | RestartSuspendsNobody, own `VpnLeaseRestart.cfg` | when the UserInfo call after a rotation fails (`portal.go:777`) the new refresh token is thrown away, and the next attempt is refused for good |
| "the connection lives as long as it carries traffic in either direction" (`streams.go:725`) | ActiveConnectionLives, `IdlePair.cfg` | the other direction's flag is a period old |
| "ends between one and two idle periods later" (`streams.go:745`) | EndsWithinTwoPeriods, `IdlePair.cfg` | almost three periods are possible |
| "an abandoned connection does not hold its slot and its backend connection forever" (tcpIdleTimeout, `streams.go`) | AbandonedConnectionEnds, `IdlePair.cfg` | after a half-close the direction left waits for ever for the ended one to be quiet |
| "after N auth failures within a window, an IP is blocked" (`ban.go`) | ThresholdBans, own `BanGc.cfg` | gc drops trails after a fixed hour, also when the window is longer |
| sessions are closed with their listener (`web/docs/streams.md`) | SessionsEndWithListener, `UdpSessions.cfg` | a packet in the read loop's hand opens one more |
| "Whoever is connected from outside to a host that just left the public side is disconnected now" (`engine.go:475`) | LeftPublicSideIsCut, `Routing.cfg` | a request between lookup and registration stays |
| endNoLongerPublic's comment (`publicreqs.go:64`) | NotPublicAnyMoreIsCut, `Routing.cfg` | a container that also lists the name keeps it in the set of public names |
| "a label can never silently override a host you configured by hand, not even under a manual wildcard ... or while the manual host is switched off" (`web/docs/docker.md:44`) | SwitchedOffHostWins, `Routing.cfg` | a container that lists the wildcard `*.x` gets the requests for a switched-off stored host `app.x`: place compares the wildcard's own name only (`engine.go:385`), and lookup falls back to it (`engine.go:122`) |
| "does not show addresses that are let in anyway" (liftExempt, `ban.go`) | NoExemptBanned, own `BanExempt.cfg` | a refusal that read the old list bans after the lift |
| `bans.json` is written "at shutdown" (`web/docs/configuration.md:51`) | FileFollowsShutdown, own `BanShutdown.cfg` | the admin API answers after the last save |
| "never left in the log as a plain allow" (`vpnflow.go:40`) | NeverLeftAllowed, `FlowLog.cfg` | the refusal's own line fails, and the error is ignored |
| "what the old key holder still has in flight must not meet the new one's configuration" (`manager.go:475`) | ConnIsItsPeers, own `WgManagerConn.cfg` | Accept attributes a connection of the closed instance to the newer owner of its address |
| "A reload forgets the refusals" (`forward.go:63`) | ReloadForgetsRefusals, own `UdpAdmitReload.cfg` | noteDenied runs after forgetDenials, and dead workers of a reset stack note their refusals too |
| "While a change is on its way to the server every Save button is disabled and reads "Saving..."" (`CHANGELOG.md:290`) | EverySaveButtonSaysSo, `WebConsole.cfg` | refreshVPNDevices (`app.js:3372`) switches the LAN panel's button on while a change is out |
| "a second submit is ignored" (`CHANGELOG.md:290`) | OneSavePerForm, `WebConsole.cfg` | a form that makes keys first is past the guard before anything counts (`app.js:2978`) |
| "The configuration holds keys: it does not stay in the page." (`app.js:2962`) | NoKeysWhenClosed, `WebConsole.cfg` | the read after a save ends after the dialog was closed and fills it |
| "a second Save must update it, not create a duplicate" (`app.js:2021`) | StreamSaveOwn, `WebConsole.cfg` | no duplicate (CreatedOnce), but the answer of a stream whose dialog was closed sets the id of the stream opened since: its Save updates the wrong one |
| "Methods scopes the rule to specific HTTP verbs" (`store.go:222`) | RulesNotWidened, `WebForms.cfg` | a rule for OPTIONS, CONNECT or TRACE only, which the server stores (`access.go:21`), has no chip to show it (`app.js:1161`, `1690`): its host or list, opened and saved untouched, sends it without methods, as a rule for every method |
| the dialog shows the rules of its list (openAclModal) | AclRowsOwn, `WebConsole.cfg` | two openings while the first still loads append the rows of both |

Differences without a property of their own. "Covers exactly what the docs use"
(`md.js:1`): the fence in `web/docs/streams.md:64` is indented under a list item,
and becomes part of the item's text. A pool line with an IPv6 address does not
match parsePool's pattern and is dropped without a word when its host is saved;
a group with a comma in its name is read back as two, other allow-lists of a rule
are dropped, so is what a host keeps from when it was of another type (a redirect
with a pool, a proxy with a portal), and an HSTS age of zero becomes the default
(`Expressible` in WebForms keeps all of these out of Kept). An address such as
`#/constructor` passes as a page, because switchPage looks the name up in a plain
object (`app.js:124`); WebShell tests membership. A log or a guide that
was asked for earlier may answer later and replace what is shown. Logging out
shows the sign-in view also when the request failed and the session lives on.

And in the bans: recordFailure notes the time of a refusal before it takes the
lock. A request that waits there while others are recorded appends its earlier
time behind theirs, gc goes by the last entry of a trail (`ban.go:220`), and
drops the whole trail although a refusal in it is younger: the refusals that
follow then do not add up to a ban. TLC shows it with a threshold of three, two
requests of one address, a window and gc's age of two ticks and six ticks in
all, with BansExact as the invariant. `Prompt` in the theorem excludes it: a
request would have to wait for the lock for as long as gc's hour exceeds the
window.

And in the leases: S44 (`SPEC-wireguard.md:478`) has a renewal read the
generation while it holds the session's lock; leaseTick lists the sessions first
and takes the lock (`renewing.LoadOrStore`, `portal.go:678`) afterwards, so a
renewal may start from a row that a finished one has replaced, with a spent
token. The commit's comparison keeps the row right (SessionIsItsLogins); a
provider that detects the reuse may still revoke the login's tokens.

## 6. Not modelled

Wording, logging, header rewriting, TLS and WireGuard cryptography, gVisor's
stack (assumed to keep a packet's source address, and to reject packets whose
source is not the peer's), SQLite (one statement or transaction is atomic), and
of the browser code what section 2 does not name: drawing and wording, inline
Markdown, the loading of guides, the theme and the user menu, the pages for
logs, Docker, certificates and settings, and the portal's own page
(`portal.js`). They show one answer of the API, or send what is in their fields.
In the modelled components: the labels of the ticks near an edge of a chart
(`charts.js:176`) and rates that are no multiple of a hundredth; the inside of
the portal's callback, whose exchange, enrolment check and transaction are one
step of VpnLease; the switch that turns bans off; the handler chain of
a host; `Reresolve` and the file of last seen addresses; the byte relay of
forwarded flows; `flowGuard`'s memo; the portal's browser sessions, throttles
and freshness check of a login; admin and break-glass devices, addresses and the
routes of policies. Listener keys, hosts and flows that share no state are
modelled once. `PROJECT.json` lists every component with its status.

## 7. Plan

1. **VpnLease**, continued: the abstract specification "access ends by
   min(lease or grace, hard limit), and a session that is over stays over",
   implemented by store and engine; the address registry (an address freed by a
   revocation is not given to the next device); composed with WgManager's
   configurations.
2. **AdminSessions** and **LoginThrottle**: logins in flight across password,
   e-mail and second-factor changes; lockouts under a full table.
3. **DockerProvider** composed with Routing: endpoints that come and go,
   conflicts between containers, the applied signature.
4. **Health**, **RespCache**, **FlowRelay**: probe results out of order, two
   budgets at once, idle time per direction.
5. **FlowPolicy**, **AccessRules**: the pure decisions as operators against a
   reference definition over bounded inputs.
6. **Reresolve** and the state file in WgManager; sealed secrets and
   backup/restore under crashes; single sign-on's pending logins.
7. **LogsPage** (scopes and answers out of order), the settings and certificate
   forms, **PortalPage**.
8. Proofs: UdpAdmit (`SharesExact`), IdlePair
   (`SteadyDirectionKeepsBoth`), and the refinement of item 1.
