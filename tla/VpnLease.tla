------------------------------ MODULE VpnLease ------------------------------
(***************************************************************************)
(* The authorization lease of a person with VPN devices: vpn_sessions,     *)
(* vpn_blocked and wg_devices in internal/store/vpn.go, the portal and the *)
(* renewals in internal/engine/portal.go, and syncWireGuard with wgDevices *)
(* in internal/engine/wireguard.go and vpn.go.                             *)
(*                                                                         *)
(* Handlers, the lease tick, the renewal it starts and the sync that tells *)
(* the endpoint run side by side.  A step is one statement or transaction  *)
(* of the database, one answer of the identity provider, or one section    *)
(* under reloadMu.  Owners meet only in a tick and a sync, which look at   *)
(* every one of them: there is one owner here.  The unit of time is the    *)
(* period of the tick, and a deadline is what is left of it.               *)
(***************************************************************************)
EXTENDS Naturals, FiniteSets

CONSTANTS
  Device,      \* the public keys the owner may register
  Groups,      \* the group sets the provider may answer with
  Enrol,       \* those that match an enrolment subject of the portal
  Lease,       \* wg_lease_minutes, in units
  Grace,       \* wg_outage_grace_minutes
  Hard,        \* wg_session_days
  Timeout,     \* what a renewal may take
  DeviceLimit, \* wg_devices_per_user
  Faults,      \* what may go wrong
  MaxGen,      \* bound: generations of the session
  MaxSerial,   \* bound: refresh tokens of one login
  MaxLogin     \* bound: logins

Disabled == "disabled"
AllFaults == {"account", "network", "lost", "userinfo", "provider", "database", "endpoint", "crash"}

ASSUME LeaseAssumption ==
  /\ Enrol \subseteq Groups /\ Enrol # {} /\ Groups \cap {"none", Disabled} = {}
  /\ {Lease, Hard, Timeout, DeviceLimit, MaxGen, MaxSerial, MaxLogin} \subseteq Nat \ {0}
  /\ Grace \in Nat
  /\ Faults \subseteq AllFaults

VARIABLES
  idp,      \* the provider: the account's groups, the refresh token of the last login
  row,      \* the owner's row of vpn_sessions
  blocked,  \* whether the owner is in vpn_blocked
  dev,      \* wg_devices, by key
  renewal,  \* the renewal of the session, if one runs
  tick,     \* the loop of renewLeases
  lastLive, \* portalState.lastLive
  waiting,  \* who waits for reloadMu to run syncWireGuard
  sync,     \* the sync that runs, and the configuration it will apply
  ep,       \* what the endpoint was told
  barred    \* time since the account lost its right to devices

storeVars == <<row, blocked, dev>>
syncVars == <<waiting, sync, ep>>
vars == <<idp, storeVars, renewal, tick, lastLive, syncVars, barred>>

Bound == Timeout + Lease + Grace

NoToken == [login |-> 0, serial |-> 0]
Token == [login : 0..MaxLogin, serial : 0..MaxSerial]
NoRow == [state |-> "none", gen |-> 0, groups |-> "none", token |-> NoToken, login |-> 0,
          transient |-> FALSE, span |-> 0, lease |-> 0, grace |-> 0, hard |-> 0]
NoRenewal == [pc |-> "idle", gen |-> 0, token |-> NoToken, groups |-> "none", left |-> 0]
Down == [up |-> FALSE, devs |-> {}, until |-> 0, groups |-> "none"]
NoSync == [pc |-> "idle", by |-> "none", cfg |-> Down]
NoList == [gen |-> 0, token |-> NoToken, over |-> FALSE, half |-> FALSE, live |-> {}]
Asleep == [pc |-> "sleep", seen |-> NoList]

Init ==
  /\ idp = [account |-> CHOOSE g \in Enrol : TRUE, good |-> NoToken]
  /\ row = NoRow
  /\ blocked = FALSE
  /\ dev = [d \in Device |-> "none"]
  /\ renewal = NoRenewal
  /\ tick = Asleep
  /\ lastLive = {}
  /\ waiting = {"handler"}
  /\ sync = NoSync
  /\ ep = Down
  /\ barred = 0

-----------------------------------------------------------------------------
(* The session.                                                            *)

Earlier(s, t) == IF s < t THEN s ELSE t

\* AccessUntil: the grace counts only while every attempt failed in transit.
AccessLeft(r) ==
  Earlier(r.hard, IF r.transient /\ r.grace > r.lease THEN r.grace ELSE r.lease)

Live(r) == r.state = "active" /\ AccessLeft(r) > 0

\* newLease and capLease: the deadlines of a login or a renewal at this moment.
\* The statement that writes them clears the transient flag.
NewLease(r) ==
  [r EXCEPT !.span = Earlier(Lease, r.hard), !.lease = Earlier(Lease, r.hard),
            !.grace = Earlier(Lease + Grace, r.hard), !.transient = FALSE]

\* Everybody who changed something waits for reloadMu; two handlers that wait
\* are as good as one.
Refresh(who) == waiting' = waiting \cup {who}

\* The callback of the portal, in one step: the code exchange is a fresh grant
\* of the provider, who may not enrol is turned away, and LoginVPNSession
\* refuses a blocked owner and starts a generation.
LoginVPNSession ==
  LET l == row.login + 1
      r == [row EXCEPT !.state = "active", !.gen = @ + 1, !.groups = idp.account, !.login = l,
                       !.token = [login |-> l, serial |-> 1], !.hard = Hard]
  IN
  /\ idp.account \in Enrol
  /\ ~blocked
  /\ row.login < MaxLogin /\ row.gen < MaxGen
  /\ idp' = [idp EXCEPT !.good = r.token]
  /\ row' = NewLease(r)
  /\ Refresh("handler")
  /\ UNCHANGED <<barred, blocked, dev, renewal, tick, lastLive, sync, ep>>

\* EndVPNSession.  The generation moves on; what else the row holds, whether it
\* ended or lapsed included, no one reads until a login writes it again.
Ended(r) == [NoRow EXCEPT !.state = "over", !.gen = r.gen + 1, !.login = r.login]

\* Disconnect in the portal, or an admin's end: whatever the generation.
EndSession ==
  /\ row.state # "none" /\ row.gen < MaxGen
  /\ row' = Ended(row)
  /\ Refresh("handler")
  /\ UNCHANGED <<barred, idp, blocked, dev, renewal, tick, lastLive, sync, ep>>

\* BlockVPNOwner ends the session in the same transaction.
BlockVPNOwner ==
  /\ row.gen < MaxGen
  /\ blocked' = TRUE
  /\ row' = IF row.state = "none" THEN row ELSE Ended(row)
  /\ Refresh("handler")
  /\ UNCHANGED <<barred, idp, dev, renewal, tick, lastLive, sync, ep>>

\* Nothing is told to the endpoint: the session stays ended until a login.
UnblockVPNOwner ==
  /\ blocked
  /\ blocked' = FALSE
  /\ UNCHANGED <<barred, idp, row, dev, renewal, tick, lastLive, syncVars>>

-----------------------------------------------------------------------------
(* Devices.                                                                *)

\* The portal looks at the lease before it creates a device ...
EnrolCheck(d) ==
  /\ dev[d] = "none"
  /\ Live(row)
  /\ dev' = [dev EXCEPT ![d] = "checked"]
  /\ UNCHANGED <<barred, idp, row, blocked, renewal, tick, lastLive, syncVars>>

Owned == {d \in Device : dev[d] = "on"}

\* ... and creates it, whatever has become of the lease by then.
CreateWGDevice(d) ==
  /\ dev[d] = "checked"
  /\ IF Cardinality(Owned) < DeviceLimit
       THEN dev' = [dev EXCEPT ![d] = "on"] /\ Refresh("handler")
       ELSE dev' = [dev EXCEPT ![d] = "none"] /\ UNCHANGED waiting
  /\ UNCHANGED <<barred, idp, row, blocked, renewal, tick, lastLive, sync, ep>>

\* The row stays, so that the key is never registered again.
RevokeWGDevice(d) ==
  /\ d \in Owned
  /\ dev' = [dev EXCEPT ![d] = "revoked"]
  /\ Refresh("handler")
  /\ UNCHANGED <<barred, idp, row, blocked, renewal, tick, lastLive, sync, ep>>

\* A reload for another reason, the periodic one included.
Reload ==
  /\ Refresh("handler")
  /\ UNCHANGED <<barred, idp, storeVars, renewal, tick, lastLive, sync, ep>>

-----------------------------------------------------------------------------
(* syncWireGuard, under reloadMu.                                          *)

\* wgDevices: a device is configured only while its owner's lease runs, and
\* with the deadline and the groups of the lease.
WgDevices ==
  IF Live(row) /\ ~blocked /\ row.groups \in Enrol /\ Owned # {}
    THEN [up |-> TRUE, devs |-> Owned, until |-> AccessLeft(row), groups |-> row.groups]
    ELSE [Down EXCEPT !.up = TRUE]

\* The devices and leases of the moment are read ...  The devices come first;
\* whoever creates or revokes one in between waits for a sync that follows, so
\* that one step stands for both reads.
SyncRead(who) ==
  /\ sync.pc = "idle"
  /\ who \in waiting
  /\ waiting' = waiting \ {who}
  /\ sync' = [pc |-> "apply", by |-> who, cfg |-> WgDevices]
  /\ UNCHANGED <<barred, idp, storeVars, renewal, tick, lastLive, ep>>

\* ... and applied.  A failure of any part leaves the endpoint down.  The
\* renewal or the tick whose sync it was goes on.
SyncApply(fails) ==
  /\ sync.pc = "apply"
  /\ fails => "endpoint" \in Faults
  /\ ep' = IF fails THEN Down ELSE sync.cfg
  /\ renewal' = IF sync.by = "renewal" THEN NoRenewal ELSE renewal
  /\ tick' = IF sync.by = "tick" THEN Asleep ELSE tick
  /\ sync' = NoSync
  /\ UNCHANGED <<barred, idp, storeVars, lastLive, waiting>>

-----------------------------------------------------------------------------
(* leaseTick.                                                              *)

HalfOver(r) == 2 * (r.span - r.lease) > r.span

\* The sessions are listed: what each is due for, and what is live.
TickList ==
  /\ tick.pc = "due"
  /\ tick' = [pc |-> "listed",
              seen |-> [gen |-> row.gen, token |-> row.token,
                        over |-> row.state = "active" /\ ~Live(row),
                        half |-> Live(row) /\ HalfOver(row),
                        live |-> IF Live(row) THEN {<<row.gen, AccessLeft(row)>>} ELSE {}]]
  /\ UNCHANGED <<barred, idp, storeVars, renewal, lastLive, syncVars>>

\* A session whose deadline passed lapses; one past half of its lease is
\* renewed, one renewal at a time and from what was listed; and the endpoint
\* is told if the list is another one than last time.
TickScan ==
  LET s == tick.seen IN
  /\ tick.pc = "listed"
  /\ IF s.over /\ s.gen = row.gen THEN row.gen < MaxGen /\ row' = Ended(row)
                                  ELSE UNCHANGED row
  /\ renewal' = IF s.half /\ renewal.pc = "idle"
                  THEN [pc |-> "redeem", gen |-> s.gen, token |-> s.token, groups |-> "none", left |-> Timeout]
                  ELSE renewal
  /\ lastLive' = s.live
  /\ IF s.live # lastLive THEN tick' = [Asleep EXCEPT !.pc = "refresh"] /\ Refresh("tick")
                          ELSE tick' = Asleep /\ UNCHANGED waiting
  /\ UNCHANGED <<barred, idp, blocked, dev, sync, ep>>

-----------------------------------------------------------------------------
(* renewLease.                                                             *)

ToRefresh == renewal' = [NoRenewal EXCEPT !.pc = "refresh"] /\ Refresh("renewal")

\* The attempt is over but for what it writes.
Goto(pc) == renewal' = [NoRenewal EXCEPT !.pc = pc, !.gen = renewal.gen]

\* A token of an earlier login may be good or not: nothing depends on it.
OfEarlierLogin(t) == t.login < idp.good.login
Redeemable(t) == t.serial # 0 /\ idp.account # Disabled /\ (t = idp.good \/ OfEarlierLogin(t))

\* The provider rotates the token t of the last login.
Rotated(t) == IF t = idp.good THEN [idp EXCEPT !.good.serial = @ + 1] ELSE idp

\* The provider grants, and may rotate the refresh token.
RedeemOk(rotates) ==
  LET t == renewal.token IN
  /\ renewal.pc = "redeem"
  /\ Redeemable(t)
  /\ rotates => t.serial < MaxSerial
  /\ idp' = IF rotates THEN Rotated(t) ELSE idp
  /\ renewal' = [renewal EXCEPT !.pc = "claims", !.groups = idp.account,
                                  !.token.serial = IF rotates THEN @ + 1 ELSE @]
  /\ UNCHANGED <<barred, storeVars, tick, lastLive, syncVars>>

\* The provider cannot be reached, or its answer is lost on the way back.
RedeemFails(lost) ==
  LET t == renewal.token IN
  /\ renewal.pc = "redeem"
  /\ IF lost THEN /\ "lost" \in Faults
                  /\ Redeemable(t) /\ t.serial < MaxSerial
                  /\ idp' = Rotated(t)
             ELSE "network" \in Faults /\ UNCHANGED idp
  /\ Goto("transient")
  /\ UNCHANGED <<barred, storeVars, tick, lastLive, syncVars>>

\* definitive: the account or the grant is gone, or the provider is.  A
\* provider that sees a spent token may revoke all that came from the login.
RedeemRefused(reuse) ==
  LET t == renewal.token IN
  /\ renewal.pc = "redeem"
  /\ t # idp.good \/ idp.account = Disabled \/ "provider" \in Faults
  /\ IF reuse THEN /\ t.login = idp.good.login /\ t.serial < idp.good.serial
                   /\ idp' = [idp EXCEPT !.good.serial = 0]
              ELSE UNCHANGED idp
  /\ Goto("lapse")
  /\ UNCHANGED <<barred, storeVars, tick, lastLive, syncVars>>

\* The claims: in the ID token the groups of the grant, from UserInfo those
\* of the account now.
ClaimsOk(g) ==
  /\ renewal.pc = "claims"
  /\ g \in {renewal.groups, idp.account} \ {Disabled}
  /\ renewal' = [renewal EXCEPT !.pc = "commit", !.groups = g, !.left = 0]
  /\ UNCHANGED <<barred, idp, storeVars, tick, lastLive, syncVars>>

\* UserInfo does not answer: the token that the provider has just issued goes
\* with the attempt.
ClaimsFail ==
  /\ "userinfo" \in Faults
  /\ renewal.pc = "claims"
  /\ Goto("transient")
  /\ UNCHANGED <<barred, idp, storeVars, tick, lastLive, syncVars>>

\* No usable ID token, or the answer is about another person.
ClaimsRefused ==
  /\ "provider" \in Faults
  /\ renewal.pc = "claims"
  /\ Goto("lapse")
  /\ UNCHANGED <<barred, idp, storeVars, tick, lastLive, syncVars>>

\* Mutant: the generation is not compared.
Current_AnyGeneration == row.state = "active"

\* The row is still the one the renewal started from.
Current == row.gen = renewal.gen /\ row.state = "active"

\* Mutant: the row is written without a condition, state included.
RenewVPNSession_Overwrites(fails) ==
  /\ renewal.pc = "commit"
  /\ row.gen < MaxGen
  /\ row' = [NewLease(row) EXCEPT !.gen = @ + 1, !.state = "active", !.token = renewal.token,
                                  !.groups = renewal.groups]
  /\ ToRefresh
  /\ UNCHANGED <<barred, idp, blocked, dev, tick, lastLive, sync, ep>>

\* The new token, groups and deadlines in one statement.  A renewal that is
\* stale, or that cannot be written, is forgotten.
RenewVPNSession(fails) ==
  /\ renewal.pc = "commit"
  /\ fails => "database" \in Faults
  /\ IF Current /\ ~fails
       THEN /\ row.gen < MaxGen
            /\ row' = [NewLease(row) EXCEPT !.gen = @ + 1, !.token = renewal.token, !.groups = renewal.groups]
            /\ ToRefresh
       ELSE renewal' = NoRenewal /\ UNCHANGED <<row, waiting>>
  /\ UNCHANGED <<barred, idp, blocked, dev, tick, lastLive, sync, ep>>

\* Mutant: the endpoint is not told that the grace applies.
MarkVPNSessionTransient_Silent ==
  /\ renewal.pc = "transient"
  /\ row' = IF Current THEN [row EXCEPT !.transient = TRUE] ELSE row
  /\ renewal' = NoRenewal
  /\ UNCHANGED <<barred, idp, blocked, dev, tick, lastLive, syncVars>>

\* Mutant: every failed attempt starts the grace anew.
MarkVPNSessionTransient_Extends ==
  /\ renewal.pc = "transient"
  /\ IF Current
       THEN row' = [row EXCEPT !.transient = TRUE, !.grace = Earlier(Lease + Grace, row.hard)] /\ ToRefresh
       ELSE renewal' = NoRenewal /\ UNCHANGED <<row, waiting>>
  /\ UNCHANGED <<barred, idp, blocked, dev, tick, lastLive, sync, ep>>

\* The first failure in transit starts the grace, and the endpoint is told.
MarkVPNSessionTransient ==
  /\ renewal.pc = "transient"
  /\ IF Current /\ ~row.transient
       THEN row' = [row EXCEPT !.transient = TRUE] /\ ToRefresh
       ELSE renewal' = NoRenewal /\ UNCHANGED <<row, waiting>>
  /\ UNCHANGED <<barred, idp, blocked, dev, tick, lastLive, sync, ep>>

LapseVPNSession ==
  /\ renewal.pc = "lapse"
  /\ IF row.gen = renewal.gen THEN row.gen < MaxGen /\ row' = Ended(row)
                              ELSE UNCHANGED row
  /\ ToRefresh
  /\ UNCHANGED <<barred, idp, blocked, dev, tick, lastLive, sync, ep>>

-----------------------------------------------------------------------------
(* Around them.                                                            *)

\* The account is disabled, enabled, or its groups change.
AccountChanges(a) ==
  /\ "account" \in Faults
  /\ a # idp.account
  /\ idp' = [idp EXCEPT !.account = a]
  /\ barred' = IF a \in Enrol THEN 0 ELSE barred
  /\ UNCHANGED <<storeVars, renewal, tick, lastLive, syncVars>>

Less(t) == IF t = 0 THEN 0 ELSE t - 1

\* A unit of time passes: not over a tick that is due or in its list, nor
\* over the end of a renewal's context or its commit.
Clock ==
  /\ tick.pc \in {"sleep", "refresh"}
  /\ renewal.pc \in {"redeem", "claims"} => renewal.left > 0
  /\ renewal.pc # "commit"
  /\ row' = [row EXCEPT !.lease = Less(@), !.grace = Less(@), !.hard = Less(@)]
  /\ renewal' = [renewal EXCEPT !.left = Less(@)]
  /\ tick' = IF tick.pc = "sleep" THEN [tick EXCEPT !.pc = "due"] ELSE tick
  /\ lastLive' = {<<k[1], Less(k[2])>> : k \in lastLive}
  /\ sync' = [sync EXCEPT !.cfg.until = Less(@)]
  /\ ep' = [ep EXCEPT !.until = Less(@)]
  /\ barred' = IF idp.account \in Enrol THEN 0 ELSE Earlier(barred + 1, Bound)
  /\ UNCHANGED <<idp, blocked, dev, waiting>>

\* quicgate dies and starts again.  The database stays.
Crash ==
  /\ "crash" \in Faults
  /\ dev' = [d \in Device |-> IF dev[d] = "checked" THEN "none" ELSE dev[d]]
  /\ renewal' = NoRenewal
  /\ tick' = Asleep
  /\ lastLive' = {}
  /\ waiting' = {"handler"}
  /\ sync' = NoSync
  /\ ep' = Down
  /\ UNCHANGED <<barred, idp, row, blocked>>

Handler ==
  \/ LoginVPNSession \/ EndSession \/ BlockVPNOwner \/ UnblockVPNOwner \/ Reload
  \/ \E d \in Device : EnrolCheck(d) \/ CreateWGDevice(d) \/ RevokeWGDevice(d)

Sync ==
  \/ \E who \in waiting : SyncRead(who)
  \/ \E b \in BOOLEAN : SyncApply(b)

LeaseTick == TickList \/ TickScan

RenewLease ==
  \/ \E b \in BOOLEAN : RedeemOk(b) \/ RedeemFails(b) \/ RedeemRefused(b) \/ RenewVPNSession(b)
  \/ \E g \in Groups : ClaimsOk(g)
  \/ ClaimsFail \/ ClaimsRefused \/ MarkVPNSessionTransient \/ LapseVPNSession

Environment ==
  \/ \E a \in Groups \cup {Disabled} : AccountChanges(a)
  \/ Clock \/ Crash

Next == Handler \/ Sync \/ LeaseTick \/ RenewLease \/ Environment

Spec == Init /\ [][Next]_vars

-----------------------------------------------------------------------------
(* Properties.                                                             *)

\* Every variable has its type, and no deadline is further away than the
\* settings allow.
TypeOK ==
  /\ idp \in [account : Groups \cup {Disabled}, good : Token] /\ barred \in 0..Bound
  /\ row \in [state : {"none", "active", "over"}, gen : 0..MaxGen, groups : Groups \cup {"none"},
              token : Token, login : 0..MaxLogin, transient : BOOLEAN, span : 0..Lease,
              lease : 0..Lease, grace : 0..(Lease + Grace), hard : 0..Hard]
  /\ row.lease <= row.hard /\ row.grace <= row.hard
  /\ blocked \in BOOLEAN
  /\ dev \in [Device -> {"none", "checked", "on", "revoked"}]
  /\ Cardinality(Owned) <= DeviceLimit
  /\ renewal \in [pc : {"idle", "redeem", "claims", "commit", "transient", "lapse", "refresh"},
                  gen : 0..MaxGen, token : Token, groups : Groups \cup {"none"}, left : 0..Timeout]
  /\ tick.pc \in {"sleep", "due", "listed", "refresh"}
  /\ waiting \subseteq {"handler", "renewal", "tick"}
  /\ sync.pc \in {"idle", "apply"} /\ sync.by \in {"none", "handler", "renewal", "tick"}
  /\ {ep, sync.cfg} \subseteq [up : BOOLEAN, devs : SUBSET Device, until : 0..(Lease + Grace),
                              groups : Groups \cup {"none"}]

Admitted == IF ep.until > 0 THEN ep.devs ELSE {}

Authorized ==
  {d \in Device : dev[d] = "on" /\ Live(row) /\ ~blocked /\ row.groups \in Enrol}

\* Nobody is about to tell the endpoint of a change.
Settled == waiting = {} /\ sync.pc = "idle"

\* Once nothing is under way, the endpoint admits exactly the devices that the
\* database authorizes at this moment, until the moment their owner's access
\* ends and with the groups of the last renewal; a failed sync admits nobody.
\* Every change, the start of the grace included, reaches it (syncWireGuard,
\* leaseTick, MarkVPNSessionTransientChanged).
EndpointFollowsStore ==
  Settled => /\ Admitted = IF ep.up THEN Authorized ELSE {}
             /\ Admitted # {} => ep.until = AccessLeft(row) /\ ep.groups = row.groups

\* A person whose account is disabled, or no longer in a group that may have
\* devices, loses access within a lease, the grace and the time one renewal
\* may take, whatever fails meanwhile; and what the endpoint was told, however
\* old it is, ends by the hard limit of the last login (newLease, capLease,
\* renewLease, wgDevices).
AccessIsBounded ==
  Admitted # {} =>
    /\ barred < Bound
    /\ row.state = "active" => ep.until <= row.hard

\* An active session holds a refresh token of its own last login and belongs
\* to nobody who is blocked; one that is over holds none.  A renewal that
\* began before an end, a block or another login changes none of this
\* (RenewVPNSession, EndVPNSession, LoginVPNSession).
SessionIsItsLogins ==
  IF row.state = "active" THEN row.token.login = row.login /\ row.token.serial # 0 /\ ~blocked
                          ELSE row.token = NoToken

\* Only a login makes a session active again or moves its hard limit, and a
\* lease grows only with a login or by the renewal that began from this very
\* row (RenewVPNSession, MarkVPNSessionTransient).
OnlyLoginRevives ==
  [][\/ row'.login = row.login + 1
     \/ /\ row'.state = "active" => row.state = "active"
        /\ row'.hard <= row.hard
        /\ row'.lease > row.lease \/ row'.grace > row.grace =>
             renewal.pc = "commit" /\ renewal.gen = row.gen /\ row'.gen = row.gen + 1]_vars

\* "A restart of the IdP shorter than half a lease suspends nobody": with no
\* account changed and nothing but UserInfo failing at times, a session never
\* lapses before its lease is over (renewLease).
RestartSuspendsNobody ==
  [][LapseVPNSession /\ row.state = "active" /\ row'.state = "over" => row.lease = 0]_vars
=============================================================================
