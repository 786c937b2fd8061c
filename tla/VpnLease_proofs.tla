--------------------------- MODULE VpnLease_proofs ---------------------------
(***************************************************************************)
(* Proofs that the invariants of VpnLease hold for any settings of lease,  *)
(* grace, hard limit and timeout, any groups and any number of devices.    *)
(*                                                                         *)
(* The inductive invariant says, besides the types and the property        *)
(* SessionIsItsLogins, where the listed session and the running renewal    *)
(* come from (Lineage), that a session a renewal may still bring back is   *)
(* one the last tick saw (Noticed), how much of the bound on access is     *)
(* used up at every stage from the provider's answer to the endpoint       *)
(* (Spent), and that what was read or applied last is what the store says, *)
(* unless somebody waits to read again (Told).                             *)
(***************************************************************************)
EXTENDS VpnLease, FiniteSetTheorems, TLAPS

RowType ==
  [state : {"none", "active", "over"}, gen : 0..MaxGen, groups : Groups \cup {"none"},
   token : Token, login : 0..MaxLogin, transient : BOOLEAN, span : 0..Lease,
   lease : 0..Lease, grace : 0..(Lease + Grace), hard : 0..Hard]
RenewalType ==
  [pc : {"idle", "redeem", "claims", "commit", "transient", "lapse", "refresh"},
   gen : 0..MaxGen, token : Token, groups : Groups \cup {"none"}, left : 0..Timeout]
SeenType ==
  [gen : 0..MaxGen, token : Token, over : BOOLEAN, half : BOOLEAN, live : SUBSET (Nat \X Nat)]
TickType == [pc : {"sleep", "due", "listed", "refresh"}, seen : SeenType]
CfgType ==
  [up : BOOLEAN, devs : SUBSET Device, until : 0..(Lease + Grace), groups : Groups \cup {"none"}]
SyncType == [pc : {"idle", "apply"}, by : {"none", "handler", "renewal", "tick"}, cfg : CfgType]

\* TypeOK, with what a tick has listed and a sync has read in full.
Types ==
  /\ idp \in [account : Groups \cup {Disabled}, good : Token]
  /\ barred \in 0..Bound
  /\ row \in RowType
  /\ row.lease <= row.hard /\ row.grace <= row.hard
  /\ blocked \in BOOLEAN
  /\ dev \in [Device -> {"none", "checked", "on", "revoked"}]
  /\ renewal \in RenewalType
  /\ tick \in TickType
  /\ waiting \subseteq {"handler", "renewal", "tick"}
  /\ sync \in SyncType
  /\ ep \in CfgType

Counted == IsFiniteSet(Owned) /\ Cardinality(Owned) <= DeviceLimit

\* What was listed, and what the renewal works with, is of this session or of
\* an earlier generation of it.
Lineage ==
  /\ renewal.gen <= row.gen /\ tick.seen.gen <= row.gen
  /\ tick.pc = "listed" => renewal.gen <= tick.seen.gen
  /\ renewal.pc \in {"redeem", "claims", "commit"} /\ renewal.gen = row.gen /\ row.state = "active" =>
       renewal.token.login = row.login
  /\ renewal.pc \in {"claims", "commit"} => renewal.token.serial # 0
  /\ tick.pc = "listed" /\ tick.seen.gen = row.gen /\ row.state = "active" =>
       tick.seen.token.login = row.login

\* While a renewal of the active session runs, the last tick saw it live; so a
\* tick that finds the list unchanged ends only a session that is not live.
Noticed ==
  /\ tick.pc = "listed" /\ tick.seen.half => tick.seen.live # {}
  /\ tick.pc = "listed" /\ tick.seen.over => tick.seen.live = {}
  /\ tick.pc = "listed" /\ tick.seen.gen = row.gen /\ row.state = "active" =>
       tick.seen.over \/ tick.seen.live # {}
  /\ renewal.pc \notin {"idle", "refresh"} /\ renewal.gen = row.gen /\ row.state = "active" =>
       lastLive # {}
  /\ tick.pc = "listed" /\ tick.seen.gen = row.gen /\ tick.seen.over /\ lastLive = {} => ~Live(row)

\* What is left of an access and the time since the right to it was lost stay
\* within the bound.
Fits(left) == left > 0 => barred + left <= Bound

Spent ==
  /\ idp.account \in Enrol => barred = 0
  /\ renewal.pc \in {"claims", "commit"} /\ renewal.groups \in Enrol => barred + renewal.left <= Timeout
  /\ row.groups \in Enrol => Fits(row.lease) /\ Fits(row.grace)
  /\ ep.devs # {} => Fits(ep.until)
  /\ sync.cfg.devs # {} => Fits(sync.cfg.until)

\* No deadline outlives the last login.
Capped ==
  /\ ep.until <= Hard /\ sync.cfg.until <= Hard
  /\ row.state = "active" => ep.until <= row.hard /\ sync.cfg.until <= row.hard

Admits(c) == IF c.until > 0 THEN c.devs ELSE {}
Same(c) == Admits(c) = Authorized /\ (Admits(c) # {} => c.until = AccessLeft(row) /\ c.groups = row.groups)

Told ==
  /\ ~ep.up => ep.until = 0
  /\ ~sync.cfg.up => sync.cfg.until = 0
  /\ waiting = {} /\ sync.pc = "idle" /\ ep.up => Same(ep)
  /\ waiting = {} /\ sync.pc = "apply" => Same(sync.cfg)

IInv ==
  /\ Types
  /\ Counted
  /\ SessionIsItsLogins
  /\ Lineage
  /\ Noticed
  /\ Spent
  /\ Capped
  /\ Told

-----------------------------------------------------------------------------
(* The constants are what LeaseAssumption says they are.                   *)
LEMMA Constants ==
  /\ Lease \in Nat /\ Lease # 0 /\ Grace \in Nat /\ Hard \in Nat /\ Hard # 0 /\ Timeout \in Nat
  /\ Timeout # 0 /\ DeviceLimit \in Nat /\ DeviceLimit # 0 /\ MaxGen \in Nat /\ MaxGen # 0
  /\ MaxSerial \in Nat /\ MaxSerial # 0 /\ MaxLogin \in Nat /\ MaxLogin # 0
  /\ Bound \in Nat /\ Bound = Timeout + Lease + Grace
  /\ Enrol \subseteq Groups /\ "none" \notin Groups /\ Disabled \notin Groups /\ Disabled # "none"
<1>1. {Lease, Hard, Timeout, DeviceLimit, MaxGen, MaxSerial, MaxLogin} \subseteq Nat \ {0} /\ Grace \in Nat
  BY LeaseAssumption
<1>2. Lease \in Nat \ {0} /\ Hard \in Nat \ {0} /\ Timeout \in Nat \ {0} /\ DeviceLimit \in Nat \ {0}
      /\ MaxGen \in Nat \ {0} /\ MaxSerial \in Nat \ {0} /\ MaxLogin \in Nat \ {0}
  BY <1>1
<1>3. Enrol \subseteq Groups /\ "none" \notin Groups /\ Disabled \notin Groups
  BY LeaseAssumption, Zenon
<1>4. Disabled # "none"
  BY DEF Disabled
<1> QED
  BY <1>1, <1>2, <1>3, <1>4 DEF Bound

(* The values that stand for nothing have their types.                     *)
LEMMA Empties ==
  /\ NoToken \in Token /\ NoRow \in RowType /\ NoRenewal \in RenewalType /\ Down \in CfgType
  /\ NoSync \in SyncType /\ NoList \in SeenType /\ Asleep \in TickType
<1>1. NoToken \in Token
  BY Constants DEF NoToken, Token
<1>2. NoRow \in RowType
  BY <1>1, Constants DEF NoRow, RowType
<1>3. NoRenewal \in RenewalType
  BY <1>1, Constants DEF NoRenewal, RenewalType
<1>4. Down \in CfgType
  BY Constants DEF Down, CfgType
<1>5. NoSync \in SyncType
  BY <1>4 DEF NoSync, SyncType
<1>6. NoList \in SeenType
  BY <1>1, Constants DEF NoList, SeenType
<1>7. Asleep \in TickType
  BY <1>6 DEF Asleep, TickType
<1> QED
  BY <1>1, <1>2, <1>3, <1>4, <1>5, <1>6, <1>7

(* What newLease and capLease write, and what they leave.                  *)
LEMMA NewLeaseIs ==
    ASSUME NEW r \in RowType
    PROVE  /\ NewLease(r) \in RowType
           /\ NewLease(r).lease <= r.hard /\ NewLease(r).grace <= r.hard
           /\ NewLease(r).state = r.state /\ NewLease(r).gen = r.gen /\ NewLease(r).groups = r.groups
           /\ NewLease(r).token = r.token /\ NewLease(r).login = r.login /\ NewLease(r).hard = r.hard
<1> DEFINE s == Earlier(Lease, r.hard)
           g == Earlier(Lease + Grace, r.hard)
<1>1. s \in 0..Lease /\ s <= r.hard /\ g \in 0..(Lease + Grace) /\ g <= r.hard
  BY Constants DEF RowType, Earlier
<1>2. NewLease(r) = [r EXCEPT !.span = s, !.lease = s, !.grace = g, !.transient = FALSE]
  BY DEF NewLease
<1> HIDE DEF s, g
<1> QED
  BY <1>1, <1>2 DEF RowType

(* The row of a session that is over.                                      *)
LEMMA EndedIs ==
    ASSUME NEW r \in RowType, r.gen < MaxGen
    PROVE  /\ Ended(r) \in RowType
           /\ Ended(r).state = "over" /\ Ended(r).gen = r.gen + 1 /\ Ended(r).groups = "none"
           /\ Ended(r).token = NoToken /\ Ended(r).login = r.login
           /\ Ended(r).hard = 0 /\ Ended(r).lease = 0 /\ Ended(r).grace = 0
<1>1. r.gen + 1 \in 0..MaxGen /\ r.login \in 0..MaxLogin
  BY Constants DEF RowType
<1> QED
  BY <1>1, Empties, Constants DEF RowType, Ended, NoRow

(* A token whose serial moves on is a token.                               *)
LEMMA NextToken ==
    ASSUME NEW t \in Token, t.serial < MaxSerial
    PROVE  [t EXCEPT !.serial = @ + 1] \in Token
  BY Constants DEF Token

(* What is left of the access is within the lease or the grace, and within *)
(* the hard limit.                                                         *)
LEMMA AccessLeftIs ==
    ASSUME NEW r \in RowType
    PROVE  /\ AccessLeft(r) \in 0..(Lease + Grace)
           /\ AccessLeft(r) <= r.hard
           /\ AccessLeft(r) <= r.lease \/ AccessLeft(r) <= r.grace
<1>1. r.lease \in Nat /\ r.grace \in Nat /\ r.hard \in Nat /\ r.lease <= Lease /\ r.grace <= Lease + Grace
  BY Constants DEF RowType
<1> QED
  BY <1>1, Constants DEF AccessLeft, Earlier

(* The configuration that a sync reads says what the store says.           *)
LEMMA WgDevicesIs ==
    ASSUME Types
    PROVE  /\ WgDevices \in CfgType
           /\ WgDevices.up
           /\ WgDevices.until <= AccessLeft(row)
           /\ WgDevices.devs # {} => row.groups \in Enrol
           /\ Same(WgDevices)
<1>1. row \in RowType /\ AccessLeft(row) \in 0..(Lease + Grace) /\ Owned \subseteq Device
  BY AccessLeftIs DEF Types, Owned
<1>2. CASE Live(row) /\ ~blocked /\ row.groups \in Enrol /\ Owned # {}
  <2>1. WgDevices = [up |-> TRUE, devs |-> Owned, until |-> AccessLeft(row), groups |-> row.groups]
    BY <1>2 DEF WgDevices
  <2>2. AccessLeft(row) > 0 /\ Authorized = Owned
    BY <1>2 DEF Live, Authorized, Owned
  <2> QED
    BY <1>1, <1>2, <2>1, <2>2, Constants DEF CfgType, Same, Admits
<1>3. CASE ~(Live(row) /\ ~blocked /\ row.groups \in Enrol /\ Owned # {})
  <2>1. WgDevices = [Down EXCEPT !.up = TRUE]
    BY <1>3 DEF WgDevices
  <2>2. WgDevices = [up |-> TRUE, devs |-> {}, until |-> 0, groups |-> "none"]
    BY <2>1 DEF Down
  <2>3. Authorized = {}
    BY <1>3 DEF Authorized, Owned
  <2> QED
    BY <1>1, <2>2, <2>3, Constants DEF CfgType, Same, Admits
<1> QED
  BY <1>2, <1>3

-----------------------------------------------------------------------------
(* Types.                                                                  *)

(* The row and the token that a login writes.                              *)
LEMMA LoginTypes ==
    ASSUME Types, LoginVPNSession
    PROVE  /\ row' \in RowType /\ row'.lease <= row'.hard /\ row'.grace <= row'.hard
           /\ row'.state = "active" /\ row'.gen = row.gen + 1 /\ row'.groups = idp.account
           /\ row'.token = [login |-> row.login + 1, serial |-> 1] /\ row'.login = row.login + 1
           /\ row'.hard = Hard
           /\ idp' \in [account : Groups \cup {Disabled}, good : Token] /\ idp'.account = idp.account
<1> DEFINE l == row.login + 1
           t == [login |-> l, serial |-> 1]
           r == [row EXCEPT !.state = "active", !.gen = @ + 1, !.groups = idp.account, !.login = l,
                            !.token = t, !.hard = Hard]
<1>1. l \in 0..MaxLogin /\ row.gen + 1 \in 0..MaxGen /\ idp.account \in Groups
  BY Constants DEF Types, RowType, LoginVPNSession
<1>2. t \in Token
  BY <1>1, Constants DEF Token
<1>3. row' = NewLease(r) /\ idp' = [idp EXCEPT !.good = r.token]
  BY DEF LoginVPNSession
<1> HIDE DEF l, t
<1>4. /\ r \in RowType /\ r.state = "active" /\ r.gen = row.gen + 1 /\ r.groups = idp.account
      /\ r.token = t /\ r.login = l /\ r.hard = Hard
  <2>1. row \in RowType /\ Hard \in 0..Hard
    BY Constants DEF Types
  <2> DEFINE g == row.gen + 1
  <2>2. r = [row EXCEPT !.state = "active", !.gen = g, !.groups = idp.account, !.login = l,
                        !.token = t, !.hard = Hard]
    BY <2>1 DEF RowType
  <2> HIDE DEF r
  <2>3. g \in 0..MaxGen
    BY <1>1
  <2> HIDE DEF g
  <2>4. r \in RowType
    BY <1>1, <1>2, <2>1, <2>2, <2>3 DEF RowType
  <2>5. /\ r.state = "active" /\ r.gen = g /\ r.groups = idp.account
        /\ r.token = t /\ r.login = l /\ r.hard = Hard
    BY <2>1, <2>2 DEF RowType
  <2> QED
    BY <2>4, <2>5 DEF g
<1> HIDE DEF r
<1>5. idp' \in [account : Groups \cup {Disabled}, good : Token] /\ idp'.account = idp.account
  BY <1>2, <1>3, <1>4 DEF Types
<1> QED
  BY <1>3, <1>4, <1>5, NewLeaseIs DEF l, t

(* The row that a renewal writes.                                          *)
LEMMA RenewTypes ==
    ASSUME Types, row.gen < MaxGen,
           row' = [NewLease(row) EXCEPT !.gen = @ + 1, !.token = renewal.token, !.groups = renewal.groups]
    PROVE  /\ row' \in RowType /\ row'.lease <= row'.hard /\ row'.grace <= row'.hard
           /\ row'.state = row.state /\ row'.gen = row.gen + 1 /\ row'.groups = renewal.groups
           /\ row'.token = renewal.token /\ row'.login = row.login /\ row'.hard = row.hard
<1>1. row \in RowType /\ renewal.token \in Token /\ renewal.groups \in Groups \cup {"none"}
      /\ row.gen + 1 \in 0..MaxGen
  BY Constants DEF Types, RowType, RenewalType
<1>2. NewLease(row) \in RowType
  BY <1>1, NewLeaseIs
<1> QED
  BY <1>1, <1>2, NewLeaseIs DEF RowType

(* The row when a unit of time has passed.                                 *)
LEMMA AgedTypes ==
    ASSUME Types, row' = [row EXCEPT !.lease = Less(@), !.grace = Less(@), !.hard = Less(@)]
    PROVE  /\ row' \in RowType /\ row'.lease <= row'.hard /\ row'.grace <= row'.hard
           /\ row'.state = row.state /\ row'.gen = row.gen /\ row'.groups = row.groups
           /\ row'.token = row.token /\ row'.login = row.login /\ row'.transient = row.transient
           /\ row'.lease = Less(row.lease) /\ row'.grace = Less(row.grace) /\ row'.hard = Less(row.hard)
<1>1. /\ Less(row.lease) \in 0..Lease /\ Less(row.grace) \in 0..(Lease + Grace) /\ Less(row.hard) \in 0..Hard
      /\ Less(row.lease) <= Less(row.hard) /\ Less(row.grace) <= Less(row.hard)
  BY Constants DEF Types, RowType, Less
<1> QED
  BY <1>1 DEF Types, RowType

(* What the renewal returns to, or goes on to write.                       *)
LEMMA GotoTypes ==
    ASSUME Types
    PROVE  /\ \A pc \in {"transient", "lapse"} : Goto(pc) =>
                renewal' \in RenewalType /\ renewal'.pc = pc /\ renewal'.gen = renewal.gen
           /\ ToRefresh => renewal' \in RenewalType /\ renewal'.pc = "refresh" /\ renewal'.gen = 0
                           /\ waiting' = waiting \cup {"renewal"}
<1>1. renewal.gen \in 0..MaxGen
  BY DEF Types, RenewalType
<1> QED
  BY <1>1, Empties, Constants DEF Goto, ToRefresh, Refresh, RenewalType, NoRenewal

(* The provider after the token of a renewal was rotated.                  *)
LEMMA RotatedTypes ==
    ASSUME Types, NEW t \in Token, t.serial < MaxSerial
    PROVE  Rotated(t) \in [account : Groups \cup {Disabled}, good : Token] /\ Rotated(t).account = idp.account
<1>1. idp \in [account : Groups \cup {Disabled}, good : Token]
  BY DEF Types
<1>2. CASE t = idp.good
  <2>1. Rotated(t) = [idp EXCEPT !.good = [t EXCEPT !.serial = @ + 1]]
    BY <1>1, <1>2 DEF Rotated
  <2> QED
    BY <1>1, <2>1, NextToken
<1> QED
  BY <1>1, <1>2 DEF Rotated

(* What TickScan does to the row.                                          *)
LEMMA TickScanRow ==
    ASSUME Types, TickScan
    PROVE  \/ row' = row
           \/ /\ tick.seen.over /\ tick.seen.gen = row.gen /\ row.gen < MaxGen /\ row' = Ended(row)
  BY DEF TickScan

(* What it leaves of the tick and the renewal.                             *)
LEMMA TickScanTypes ==
    ASSUME Types, TickScan
    PROVE  /\ row' \in RowType /\ row'.lease <= row'.hard /\ row'.grace <= row'.hard
           /\ renewal' \in RenewalType /\ tick' \in TickType
           /\ tick'.pc \in {"sleep", "refresh"} /\ tick'.seen = NoList
<1>1. row' \in RowType /\ row'.lease <= row'.hard /\ row'.grace <= row'.hard
  BY TickScanRow, EndedIs DEF Types
<1>2. renewal' \in RenewalType
  <2>1. tick.seen.gen \in 0..MaxGen /\ tick.seen.token \in Token /\ renewal \in RenewalType
    BY DEF Types, TickType, SeenType
  <2>2. \/ renewal' = renewal
        \/ renewal' = [pc |-> "redeem", gen |-> tick.seen.gen, token |-> tick.seen.token,
                       groups |-> "none", left |-> Timeout]
    BY DEF TickScan
  <2> QED
    BY <2>1, <2>2, Constants DEF RenewalType
<1>3. tick' \in TickType /\ tick'.pc \in {"sleep", "refresh"} /\ tick'.seen = NoList
  <2>1. tick' = Asleep \/ tick' = [Asleep EXCEPT !.pc = "refresh"]
    BY DEF TickScan
  <2> QED
    BY <2>1, Empties DEF TickType, Asleep
<1> QED
  BY <1>1, <1>2, <1>3

(* What TickList lists.                                                    *)
LEMMA TickListTypes ==
    ASSUME Types, TickList
    PROVE  /\ tick' \in TickType /\ tick'.pc = "listed"
           /\ tick'.seen.gen = row.gen /\ tick'.seen.token = row.token
           /\ tick'.seen.over = (row.state = "active" /\ ~Live(row))
           /\ tick'.seen.half => Live(row)
           /\ Live(row) <=> tick'.seen.live # {}
<1> DEFINE o == row.state = "active" /\ ~Live(row)
           h == Live(row) /\ HalfOver(row)
           l == IF Live(row) THEN {<<row.gen, AccessLeft(row)>>} ELSE {}
<1>1. tick' = [pc |-> "listed", seen |-> [gen |-> row.gen, token |-> row.token, over |-> o, half |-> h, live |-> l]]
  BY DEF TickList
<1>2. o \in BOOLEAN /\ h \in BOOLEAN /\ (h => Live(row))
  BY DEF Live
<1>3. l \in SUBSET (Nat \X Nat) /\ (Live(row) <=> l # {})
  BY AccessLeftIs, Constants DEF Types, RowType
<1>4. row.gen \in 0..MaxGen /\ row.token \in Token
  BY DEF Types, RowType
<1> HIDE DEF o, h, l
<1>5. tick'.pc = "listed" /\ tick'.seen = [gen |-> row.gen, token |-> row.token, over |-> o, half |-> h, live |-> l]
  BY <1>1
<1>6. /\ tick'.seen.gen = row.gen /\ tick'.seen.token = row.token /\ tick'.seen.over = o
      /\ tick'.seen.half = h /\ tick'.seen.live = l
  BY <1>5
<1>7. tick' \in TickType
  BY <1>1, <1>2, <1>3, <1>4, Zenon DEF TickType, SeenType
<1> QED
  BY <1>2, <1>3, <1>5, <1>6, <1>7 DEF o

(* What a grant leaves of the renewal and of the provider.                 *)
LEMMA RedeemOkIs ==
    ASSUME Types, NEW b \in BOOLEAN, RedeemOk(b)
    PROVE  /\ idp' \in [account : Groups \cup {Disabled}, good : Token] /\ idp'.account = idp.account
           /\ renewal' \in RenewalType /\ renewal'.pc = "claims" /\ renewal'.gen = renewal.gen
           /\ renewal'.groups = idp.account /\ renewal'.left = renewal.left
           /\ renewal'.token.login = renewal.token.login /\ renewal'.token.serial # 0
<1> DEFINE t == renewal.token
           u == IF b THEN [t EXCEPT !.serial = @ + 1] ELSE t
<1>1. t \in Token /\ t.serial # 0 /\ idp.account \in Groups /\ (b => t.serial < MaxSerial)
  BY DEF RedeemOk, Redeemable, Types, RenewalType
<1>2. idp' \in [account : Groups \cup {Disabled}, good : Token] /\ idp'.account = idp.account
  BY <1>1, RotatedTypes DEF RedeemOk, Types
<1>3. renewal' = [renewal EXCEPT !.pc = "claims", !.groups = idp.account, !.token = u]
  BY <1>1 DEF RedeemOk, Types, RenewalType, Token
<1>4. u \in Token
  BY <1>1, NextToken
<1>5. u.login = t.login /\ u.serial # 0
  BY <1>1, Constants DEF Token
<1> HIDE DEF t, u
<1>6. renewal' \in RenewalType
  BY <1>1, <1>3, <1>4 DEF Types, RenewalType
<1>7. /\ renewal'.pc = "claims" /\ renewal'.gen = renewal.gen /\ renewal'.groups = idp.account
      /\ renewal'.left = renewal.left /\ renewal'.token = u
  BY <1>3 DEF Types, RenewalType
<1> QED
  BY <1>2, <1>5, <1>6, <1>7 DEF t

(* What the claims leave of the renewal.                                   *)
LEMMA ClaimsOkIs ==
    ASSUME Types, NEW g \in Groups, ClaimsOk(g)
    PROVE  /\ renewal' \in RenewalType /\ renewal'.pc = "commit" /\ renewal'.gen = renewal.gen
           /\ renewal'.groups = g /\ renewal'.left = 0 /\ renewal'.token = renewal.token
           /\ g = renewal.groups \/ g = idp.account
<1>1. renewal' = [renewal EXCEPT !.pc = "commit", !.groups = g, !.left = 0]
  BY DEF ClaimsOk
<1>2. 0 \in 0..Timeout
  BY Constants
<1> QED
  BY <1>1, <1>2 DEF ClaimsOk, Types, RenewalType

(* Every step keeps the types.                                             *)
LEMMA TypesStep == ASSUME Types, [Next]_vars PROVE Types'
<1>1. CASE LoginVPNSession
  BY <1>1, LoginTypes DEF LoginVPNSession, Refresh, Types
<1>2. CASE EndSession
  <2>1. row' = Ended(row) /\ row.gen < MaxGen /\ row \in RowType
    BY <1>2 DEF EndSession, Types
  <2>2. row' \in RowType /\ row'.lease <= row'.hard /\ row'.grace <= row'.hard
    BY <2>1, EndedIs
  <2> QED
    BY <1>2, <2>2 DEF EndSession, Refresh, Types
<1>3. CASE BlockVPNOwner
  <2>1. (row' = row \/ row' = Ended(row)) /\ row.gen < MaxGen /\ row \in RowType
    BY <1>3 DEF BlockVPNOwner, Types
  <2>2. row' \in RowType /\ row'.lease <= row'.hard /\ row'.grace <= row'.hard
    BY <2>1, EndedIs DEF Types
  <2> QED
    BY <1>3, <2>2 DEF BlockVPNOwner, Refresh, Types
<1>4. CASE UnblockVPNOwner \/ Reload
  BY <1>4 DEF UnblockVPNOwner, Reload, Refresh, Types, storeVars, syncVars
<1>5. ASSUME NEW d \in Device, EnrolCheck(d) \/ CreateWGDevice(d) \/ RevokeWGDevice(d) PROVE Types'
  <2>1. dev' \in [Device -> {"none", "checked", "on", "revoked"}]
    BY <1>5 DEF EnrolCheck, CreateWGDevice, RevokeWGDevice, Types
  <2> QED
    BY <1>5, <2>1 DEF EnrolCheck, CreateWGDevice, RevokeWGDevice, Refresh, Types, syncVars
<1>6. ASSUME NEW who \in waiting, SyncRead(who) PROVE Types'
  <2>1. sync' \in SyncType
    <3>1. sync' = [pc |-> "apply", by |-> who, cfg |-> WgDevices] /\ who \in {"handler", "renewal", "tick"}
      BY <1>6 DEF SyncRead, Types
    <3> QED
      BY <3>1, WgDevicesIs DEF SyncType
  <2> QED
    BY <1>6, <2>1 DEF SyncRead, Types, storeVars
<1>7. ASSUME NEW b \in BOOLEAN, SyncApply(b) PROVE Types'
  <2>1. ep' \in CfgType /\ renewal' \in RenewalType /\ tick' \in TickType /\ sync' \in SyncType
    BY <1>7, Empties DEF SyncApply, Types, SyncType
  <2> QED
    BY <1>7, <2>1 DEF SyncApply, Types, storeVars
<1>8. CASE TickList
  BY <1>8, TickListTypes DEF TickList, Types, storeVars, syncVars
<1>9. CASE TickScan
  <2>1. waiting' \subseteq {"handler", "renewal", "tick"}
    BY <1>9 DEF TickScan, Types, Refresh
  <2> QED
    BY <1>9, <2>1, TickScanTypes DEF TickScan, Types
<1>10. ASSUME NEW b \in BOOLEAN, RedeemOk(b) PROVE Types'
  BY <1>10, RedeemOkIs DEF RedeemOk, Types, storeVars, syncVars
<1>11. ASSUME NEW b \in BOOLEAN, RedeemFails(b) PROVE Types'
  <2>1. renewal.token \in Token /\ (b => renewal.token.serial < MaxSerial)
    BY <1>11 DEF RedeemFails, Types, RenewalType
  <2>2. idp' \in [account : Groups \cup {Disabled}, good : Token]
    BY <1>11, <2>1, RotatedTypes DEF RedeemFails, Types
  <2> QED
    BY <1>11, <2>2, GotoTypes DEF RedeemFails, Types, storeVars, syncVars
<1>12. ASSUME NEW b \in BOOLEAN, RedeemRefused(b) PROVE Types'
  <2>1. idp' \in [account : Groups \cup {Disabled}, good : Token]
    BY <1>12, Constants DEF RedeemRefused, Types, Token
  <2> QED
    BY <1>12, <2>1, GotoTypes DEF RedeemRefused, Types, storeVars, syncVars
<1>13. ASSUME NEW b \in BOOLEAN, RenewVPNSession(b) PROVE Types'
  <2>1. CASE Current /\ ~b
    BY <1>13, <2>1, RenewTypes, GotoTypes DEF RenewVPNSession, Types
  <2>2. CASE ~(Current /\ ~b)
    BY <1>13, <2>2, Empties DEF RenewVPNSession, Types
  <2> QED
    BY <2>1, <2>2
<1>14. ASSUME NEW g \in Groups, ClaimsOk(g) PROVE Types'
  BY <1>14, ClaimsOkIs DEF ClaimsOk, Types, storeVars, syncVars
<1>15. CASE ClaimsFail \/ ClaimsRefused
  BY <1>15, GotoTypes DEF ClaimsFail, ClaimsRefused, Types, storeVars, syncVars
<1>16. CASE MarkVPNSessionTransient
  <2>1. row' \in RowType /\ row'.lease <= row'.hard /\ row'.grace <= row'.hard
    BY <1>16, ZenonT(60) DEF MarkVPNSessionTransient, Types, RowType
  <2>2. renewal' \in RenewalType /\ waiting' \subseteq {"handler", "renewal", "tick"}
    BY <1>16, GotoTypes, Empties DEF MarkVPNSessionTransient, Types
  <2> QED
    BY <1>16, <2>1, <2>2 DEF MarkVPNSessionTransient, Types
<1>17. CASE LapseVPNSession
  <2>1. row' = row \/ (row' = Ended(row) /\ row.gen < MaxGen)
    BY <1>17 DEF LapseVPNSession
  <2>2. row' \in RowType /\ row'.lease <= row'.hard /\ row'.grace <= row'.hard
    BY <2>1, EndedIs DEF Types
  <2> QED
    BY <1>17, <2>2, GotoTypes DEF LapseVPNSession, Types
<1>18. ASSUME NEW a \in Groups \cup {Disabled}, AccountChanges(a) PROVE Types'
  <2>1. idp' \in [account : Groups \cup {Disabled}, good : Token] /\ barred' \in 0..Bound
    BY <1>18, Constants DEF AccountChanges, Types
  <2> QED
    BY <1>18, <2>1 DEF AccountChanges, Types, storeVars, syncVars
<1>19. CASE Clock
  <2>1. renewal' \in RenewalType /\ tick' \in TickType
    BY <1>19, Constants DEF Clock, Types, RenewalType, TickType, Less
  <2>2. ep' \in CfgType
    BY <1>19, Constants DEF Clock, Types, CfgType, Less
  <2>3. sync' \in SyncType
    <3>1. sync' = [sync EXCEPT !.cfg = [sync.cfg EXCEPT !.until = Less(sync.cfg.until)]] /\ sync.cfg \in CfgType
      BY <1>19 DEF Clock, Types, SyncType
    <3>2. [sync.cfg EXCEPT !.until = Less(sync.cfg.until)] \in CfgType
      BY <3>1, Constants DEF CfgType, Less
    <3> QED
      BY <3>1, <3>2 DEF Types, SyncType
  <2>4. barred' \in 0..Bound
    BY <1>19, Constants DEF Clock, Types, Earlier
  <2>5. row' \in RowType /\ row'.lease <= row'.hard /\ row'.grace <= row'.hard
    BY <1>19, AgedTypes DEF Clock
  <2> QED
    BY <1>19, <2>1, <2>2, <2>3, <2>4, <2>5 DEF Clock, Types
<1>20. CASE Crash
  <2>1. dev' \in [Device -> {"none", "checked", "on", "revoked"}]
    BY <1>20 DEF Crash, Types
  <2> QED
    BY <1>20, <2>1, Empties DEF Crash, Types
<1>21. CASE UNCHANGED vars
  BY <1>21 DEF vars, storeVars, syncVars, Types
<1> QED
  BY <1>1, <1>2, <1>3, <1>4, <1>5, <1>6, <1>7, <1>8, <1>9, <1>10, <1>11, <1>12, <1>13, <1>14, <1>15,
     <1>16, <1>17, <1>18, <1>19, <1>20, <1>21
     DEF Next, Handler, Sync, LeaseTick, RenewLease, Environment

-----------------------------------------------------------------------------
(* The devices.                                                            *)
LEMMA CountedStep == ASSUME Types, Counted, [Next]_vars PROVE Counted'
<1>1. ASSUME NEW d \in Device, CreateWGDevice(d) PROVE Counted'
  <2>1. CASE Cardinality(Owned) < DeviceLimit
    <3>1. Owned' = Owned \cup {d} /\ d \notin Owned
      BY <1>1, <2>1 DEF CreateWGDevice, Owned, Types
    <3>2. IsFiniteSet(Owned') /\ Cardinality(Owned') = Cardinality(Owned) + 1
      BY <3>1, FS_AddElement DEF Counted
    <3>3. Cardinality(Owned) \in Nat
      BY FS_CardinalityType DEF Counted
    <3> QED
      BY <2>1, <3>2, <3>3, Constants DEF Counted
  <2>2. CASE ~(Cardinality(Owned) < DeviceLimit)
    <3>1. Owned' = Owned
      BY <1>1, <2>2 DEF CreateWGDevice, Owned, Types
    <3> QED
      BY <3>1 DEF Counted
  <2> QED
    BY <2>1, <2>2
<1>2. ASSUME NEW d \in Device, RevokeWGDevice(d) PROVE Counted'
  <2>1. Owned' = Owned \ {d} /\ d \in Owned
    BY <1>2 DEF RevokeWGDevice, Owned, Types
  <2>2. IsFiniteSet(Owned') /\ Cardinality(Owned') = Cardinality(Owned) - 1 /\ Cardinality(Owned) \in Nat
    BY <2>1, FS_RemoveElement, FS_CardinalityType DEF Counted
  <2> QED
    BY <2>2, Constants DEF Counted
<1>3. CASE Crash \/ \E d \in Device : EnrolCheck(d)
  <2>1. Owned' = Owned
    BY <1>3 DEF Crash, EnrolCheck, Owned, Types
  <2> QED
    BY <2>1 DEF Counted
<1>4. CASE UNCHANGED dev
  BY <1>4 DEF Counted, Owned
<1>5. \/ UNCHANGED dev \/ Crash
      \/ \E d \in Device : EnrolCheck(d) \/ CreateWGDevice(d) \/ RevokeWGDevice(d)
  BY DEF Next, Handler, Sync, LeaseTick, RenewLease, Environment, vars, storeVars, LoginVPNSession, EndSession,
     BlockVPNOwner, UnblockVPNOwner, Reload, SyncRead, SyncApply, TickList, TickScan, RedeemOk, RedeemFails,
     RedeemRefused, RenewVPNSession, ClaimsOk, ClaimsFail, ClaimsRefused, MarkVPNSessionTransient,
     LapseVPNSession, AccountChanges, Clock
<1> QED
  BY <1>1, <1>2, <1>3, <1>4, <1>5

-----------------------------------------------------------------------------
(* The session.                                                            *)

(* What a step may do to the row: begin or end the session, renew or mark  *)
(* it, or let time pass.                                                   *)
Ends == row.gen < MaxGen /\ row' = Ended(row) /\ UNCHANGED <<ep, sync>>
        /\ (waiting' # {} \/ TickScan)
Marks == /\ renewal.pc = "transient" /\ Current /\ row' = [row EXCEPT !.transient = TRUE]
         /\ renewal'.pc = "refresh" /\ renewal'.gen = 0
         /\ waiting' # {} /\ UNCHANGED <<idp, barred, blocked, dev, tick, lastLive, ep, sync>>

LEMMA RowSteps ==
    ASSUME Types, Next
    PROVE  \/ UNCHANGED row
           \/ LoginVPNSession
           \/ Ends
           \/ \E b \in BOOLEAN : RenewVPNSession(b) /\ Current /\ ~b
           \/ Marks
           \/ Clock
<1>1. CASE Handler
  <2>1. CASE LoginVPNSession
    BY <2>1
  <2>2. CASE EndSession \/ BlockVPNOwner
    BY <2>2 DEF EndSession, BlockVPNOwner, Ends, Refresh
  <2>3. CASE UnblockVPNOwner \/ Reload \/ \E d \in Device : EnrolCheck(d) \/ CreateWGDevice(d) \/ RevokeWGDevice(d)
    BY <2>3 DEF UnblockVPNOwner, Reload, EnrolCheck, CreateWGDevice, RevokeWGDevice, storeVars
  <2> QED
    BY <1>1, <2>1, <2>2, <2>3 DEF Handler
<1>2. CASE Sync
  BY <1>2 DEF Sync, SyncRead, SyncApply, storeVars
<1>3. CASE LeaseTick
  BY <1>3, TickScanRow DEF LeaseTick, TickList, TickScan, storeVars, Ends
<1>4. CASE RenewLease
  <2>1. ASSUME NEW b \in BOOLEAN, RedeemOk(b) \/ RedeemFails(b) \/ RedeemRefused(b) PROVE UNCHANGED row
    BY <2>1 DEF RedeemOk, RedeemFails, RedeemRefused, storeVars
  <2>2. ASSUME NEW b \in BOOLEAN, RenewVPNSession(b) PROVE UNCHANGED row \/ (RenewVPNSession(b) /\ Current /\ ~b)
    BY <2>2 DEF RenewVPNSession
  <2>3. ASSUME NEW g \in Groups, ClaimsOk(g) PROVE UNCHANGED row
    BY <2>3 DEF ClaimsOk, storeVars
  <2>4. CASE ClaimsFail \/ ClaimsRefused
    BY <2>4 DEF ClaimsFail, ClaimsRefused, storeVars
  <2>5. CASE MarkVPNSessionTransient
    <3>1. CASE Current /\ ~row.transient
      BY <2>5, <3>1, GotoTypes DEF MarkVPNSessionTransient, Marks
    <3> QED
      BY <2>5, <3>1 DEF MarkVPNSessionTransient
  <2>6. CASE LapseVPNSession
    BY <2>6, GotoTypes DEF LapseVPNSession, Ends
  <2> QED
    BY <1>4, <2>1, <2>2, <2>3, <2>4, <2>5, <2>6 DEF RenewLease
<1>5. CASE Environment
  BY <1>5 DEF Environment, AccountChanges, Crash, storeVars
<1> QED
  BY <1>1, <1>2, <1>3, <1>4, <1>5 DEF Next

(* Marking a row changes nothing else of it.                               *)
LEMMA MarkedIs ==
    ASSUME Types, Marks
    PROVE  /\ row'.state = row.state /\ row'.gen = row.gen /\ row'.groups = row.groups
           /\ row'.token = row.token /\ row'.login = row.login
           /\ row'.lease = row.lease /\ row'.grace = row.grace /\ row'.hard = row.hard
  BY DEF Types, Marks, RowType

(* Only a block or an unblock changes who is blocked, and a block ends.    *)
LEMMA BlockSteps ==
    ASSUME Types, Next
    PROVE  UNCHANGED blocked \/ BlockVPNOwner \/ UnblockVPNOwner
  BY DEF Next, Handler, Sync, LeaseTick, RenewLease, Environment, storeVars, LoginVPNSession, EndSession,
     Reload, EnrolCheck, CreateWGDevice, RevokeWGDevice, SyncRead, SyncApply, TickList, TickScan, RedeemOk,
     RedeemFails, RedeemRefused, RenewVPNSession, ClaimsOk, ClaimsFail, ClaimsRefused,
     MarkVPNSessionTransient, LapseVPNSession, AccountChanges, Clock, Crash

(* The session stays its last login's.                                     *)
LEMMA SessionStep ==
    ASSUME Types, SessionIsItsLogins, Lineage, Next
    PROVE  SessionIsItsLogins'
<1>1. CASE BlockVPNOwner
  BY <1>1, EndedIs DEF BlockVPNOwner, SessionIsItsLogins, Types
<1>2. CASE UnblockVPNOwner
  BY <1>2 DEF UnblockVPNOwner, SessionIsItsLogins
<1>3. CASE UNCHANGED blocked
  <2>1. CASE LoginVPNSession
    <3>1. ~blocked
      BY <2>1 DEF LoginVPNSession
    <3> QED
      BY <1>3, <2>1, <3>1, LoginTypes DEF SessionIsItsLogins
  <2>2. CASE Ends
    BY <2>2, EndedIs DEF Ends, SessionIsItsLogins, Types
  <2>3. ASSUME NEW b \in BOOLEAN, RenewVPNSession(b), Current, ~b PROVE SessionIsItsLogins'
    <3>1. row'.state = row.state /\ row'.token = renewal.token /\ row'.login = row.login
      BY <2>3, RenewTypes DEF RenewVPNSession
    <3>2. row.state = "active" /\ renewal.gen = row.gen /\ renewal.pc = "commit"
      BY <2>3 DEF RenewVPNSession, Current
    <3> QED
      BY <1>3, <3>1, <3>2 DEF SessionIsItsLogins, Lineage
  <2>4. CASE Marks
    BY <1>3, <2>4, MarkedIs DEF SessionIsItsLogins
  <2>5. CASE Clock
    BY <1>3, <2>5, AgedTypes DEF Clock, SessionIsItsLogins
  <2>6. CASE UNCHANGED row
    BY <1>3, <2>6 DEF SessionIsItsLogins
  <2> QED
    BY <2>1, <2>2, <2>3, <2>4, <2>5, <2>6, RowSteps
<1> QED
  BY <1>1, <1>2, <1>3, BlockSteps

-----------------------------------------------------------------------------
(* Lineage and Noticed.                                                    *)

(* A session that begins or ends leaves everything listed and everything   *)
(* being renewed behind.                                                   *)
LEMMA MovesOn ==
    ASSUME Types, Lineage, Noticed, row'.gen = row.gen + 1, UNCHANGED <<renewal, tick, lastLive>>
    PROVE  Lineage' /\ Noticed'
<1>1. row.gen \in Nat /\ renewal.gen \in Nat /\ tick.seen.gen \in Nat
  BY DEF Types, RowType, RenewalType, TickType, SeenType
<1> QED
  BY <1>1 DEF Lineage, Noticed

(* Every step keeps Lineage and Noticed.                                   *)
LEMMA TraceStep ==
    ASSUME Types, SessionIsItsLogins, Lineage, Noticed, Next
    PROVE  Lineage' /\ Noticed'
<1>0. /\ row.gen \in Nat /\ renewal.gen \in Nat /\ tick.seen.gen \in Nat
      /\ row \in RowType /\ renewal \in RenewalType /\ tick \in TickType
  BY DEF Types, RowType, RenewalType, TickType, SeenType
<1>1. CASE LoginVPNSession
  BY <1>1, LoginTypes, MovesOn DEF LoginVPNSession
<1>2. CASE EndSession
  BY <1>0, <1>2, EndedIs, MovesOn DEF EndSession
<1>3. CASE BlockVPNOwner
  <2>1. CASE row' = row
    BY <1>3, <2>1 DEF BlockVPNOwner, Lineage, Noticed, Live, AccessLeft
  <2>2. CASE row' = Ended(row)
    BY <1>0, <1>3, <2>2, EndedIs, MovesOn DEF BlockVPNOwner
  <2> QED
    BY <1>3, <2>1, <2>2 DEF BlockVPNOwner
<1>4. CASE UNCHANGED <<row, renewal, tick, lastLive>>
  BY <1>4 DEF Lineage, Noticed, Live, AccessLeft
<1>5. ASSUME NEW b \in BOOLEAN, SyncApply(b) PROVE Lineage' /\ Noticed'
  <2>1. UNCHANGED <<row, lastLive>> /\ (renewal' = renewal \/ renewal' = NoRenewal) /\ (tick' = tick \/ tick' = Asleep)
    BY <1>5 DEF SyncApply, storeVars
  <2>2. NoRenewal.gen = 0 /\ NoRenewal.pc = "idle" /\ Asleep.pc = "sleep" /\ Asleep.seen.gen = 0
    BY DEF NoRenewal, Asleep, NoList
  <2>3. Lineage'
    BY <1>0, <2>1, <2>2 DEF Lineage
  <2>4. Noticed'
    BY <1>0, <2>1, <2>2 DEF Noticed, Live, AccessLeft
  <2> QED
    BY <2>3, <2>4
<1>6. CASE TickList
  <2>1. UNCHANGED <<row, renewal, lastLive>>
    BY <1>6 DEF TickList, storeVars
  <2>2. Lineage'
    BY <1>0, <1>6, <2>1, TickListTypes DEF Lineage, SessionIsItsLogins
  <2>3. Noticed'
    BY <1>0, <1>6, <2>1, TickListTypes DEF Noticed, Live, AccessLeft
  <2> QED
    BY <2>2, <2>3
<1>7. CASE TickScan
  <2>1. tick'.pc \in {"sleep", "refresh"} /\ tick'.seen.gen = 0 /\ tick.pc = "listed" /\ lastLive' = tick.seen.live
    BY <1>7, TickScanTypes DEF TickScan, NoList
  <2>2. \/ UNCHANGED renewal
        \/ /\ renewal'.pc = "redeem" /\ renewal'.gen = tick.seen.gen /\ renewal'.token = tick.seen.token
           /\ tick.seen.half
    BY <1>7 DEF TickScan
  <2>3. \/ row' = row /\ ~(tick.seen.over /\ tick.seen.gen = row.gen)
        \/ row'.gen = row.gen + 1 /\ row'.state = "over"
    BY <1>0, <1>7, EndedIs DEF TickScan
  <2>4. Lineage'
    BY <1>0, <2>1, <2>2, <2>3 DEF Lineage
  <2>5. Noticed'
    BY <1>0, <2>1, <2>2, <2>3 DEF Noticed, Lineage
  <2> QED
    BY <2>4, <2>5
<1>8. ASSUME NEW b \in BOOLEAN, RedeemOk(b) PROVE Lineage' /\ Noticed'
  <2>1. UNCHANGED <<row, tick, lastLive>> /\ renewal.pc = "redeem"
    BY <1>8 DEF RedeemOk, storeVars
  <2> QED
    BY <1>0, <1>8, <2>1, RedeemOkIs DEF Lineage, Noticed, Live, AccessLeft
<1>9. ASSUME NEW g \in Groups, ClaimsOk(g) PROVE Lineage' /\ Noticed'
  <2>1. UNCHANGED <<row, tick, lastLive>> /\ renewal.pc = "claims"
    BY <1>9 DEF ClaimsOk, storeVars
  <2> QED
    BY <1>0, <1>9, <2>1, ClaimsOkIs DEF Lineage, Noticed, Live, AccessLeft
<1>10. ASSUME NEW pc \in {"transient", "lapse"}, Goto(pc), renewal.pc \in {"redeem", "claims"},
              UNCHANGED <<row, tick, lastLive>>
       PROVE Lineage' /\ Noticed'
  BY <1>0, <1>10, GotoTypes DEF Lineage, Noticed, Live, AccessLeft
<1>11. ASSUME NEW b \in BOOLEAN, RenewVPNSession(b) PROVE Lineage' /\ Noticed'
  <2>1. UNCHANGED <<tick, lastLive>> /\ renewal'.gen = 0 /\ renewal'.pc \in {"idle", "refresh"}
    BY <1>11, GotoTypes DEF RenewVPNSession, NoRenewal
  <2>2. row' = row \/ row'.gen = row.gen + 1
    BY <1>11, RenewTypes DEF RenewVPNSession
  <2> QED
    BY <1>0, <2>1, <2>2 DEF Lineage, Noticed, Live, AccessLeft
<1>12. CASE MarkVPNSessionTransient
  <2>1. UNCHANGED <<tick, lastLive>> /\ renewal'.gen = 0 /\ renewal'.pc \in {"idle", "refresh"}
    BY <1>12, GotoTypes DEF MarkVPNSessionTransient, NoRenewal
  <2>2. CASE row' = row
    BY <1>0, <2>1, <2>2 DEF Lineage, Noticed, Live, AccessLeft
  <2>3. CASE row' # row
    <3>1. Current /\ renewal.pc = "transient" /\ row' = [row EXCEPT !.transient = TRUE]
      BY <1>12, <2>3 DEF MarkVPNSessionTransient
    <3>2. lastLive # {}
      BY <3>1 DEF Noticed, Current
    <3>3. row'.state = row.state /\ row'.gen = row.gen /\ row'.login = row.login
      BY <1>0, <3>1 DEF RowType
    <3> QED
      BY <1>0, <2>1, <3>2, <3>3 DEF Lineage, Noticed
  <2> QED
    BY <2>2, <2>3
<1>13. CASE LapseVPNSession
  <2>1. UNCHANGED <<tick, lastLive>> /\ renewal'.gen = 0 /\ renewal'.pc = "refresh"
    BY <1>13, GotoTypes DEF LapseVPNSession
  <2>2. row' = row \/ row'.gen = row.gen + 1
    BY <1>0, <1>13, EndedIs DEF LapseVPNSession
  <2> QED
    BY <1>0, <2>1, <2>2 DEF Lineage, Noticed, Live, AccessLeft
<1>14. CASE Clock
  <2>1. tick'.pc # "listed" /\ tick'.seen = tick.seen
    BY <1>0, <1>14 DEF Clock, TickType
  <2>2. renewal'.pc = renewal.pc /\ renewal'.gen = renewal.gen /\ renewal'.token = renewal.token
    BY <1>0, <1>14 DEF Clock, RenewalType
  <2>3. row'.state = row.state /\ row'.gen = row.gen /\ row'.login = row.login
    BY <1>14, AgedTypes DEF Clock
  <2>4. lastLive # {} => lastLive' # {}
    BY <1>14 DEF Clock
  <2> QED
    BY <1>0, <2>1, <2>2, <2>3, <2>4 DEF Lineage, Noticed
<1>15. CASE Crash
  <2>1. renewal'.gen = 0 /\ renewal'.pc = "idle" /\ tick'.pc = "sleep" /\ tick'.seen.gen = 0 /\ UNCHANGED row
    BY <1>15 DEF Crash, NoRenewal, Asleep, NoList
  <2> QED
    BY <1>0, <2>1 DEF Lineage, Noticed
<1> QED
  <2>1. CASE Handler
    BY <2>1, <1>1, <1>2, <1>3, <1>4 DEF Handler, UnblockVPNOwner, Reload, EnrolCheck, CreateWGDevice,
       RevokeWGDevice, storeVars
  <2>2. CASE Sync \/ LeaseTick
    BY <2>2, <1>4, <1>5, <1>6, <1>7 DEF Sync, SyncRead, LeaseTick, storeVars
  <2>3. CASE RenewLease
    BY <2>3, <1>8, <1>9, <1>10, <1>11, <1>12, <1>13 DEF RenewLease, RedeemFails, RedeemRefused, ClaimsFail,
       ClaimsRefused, storeVars
  <2>4. CASE Environment
    BY <2>4, <1>4, <1>14, <1>15 DEF Environment, AccountChanges, storeVars
  <2> QED
    BY <2>1, <2>2, <2>3, <2>4 DEF Next

-----------------------------------------------------------------------------
(* Spent and Capped.                                                       *)

(* Which steps change what a sync has read and what the endpoint was told. *)
LEMMA EndpointSteps ==
    ASSUME Types, Next
    PROVE  \/ UNCHANGED <<ep, sync>>
           \/ \E who \in waiting : SyncRead(who)
           \/ \E b \in BOOLEAN : SyncApply(b)
           \/ Clock \/ Crash
<1>1. CASE Handler
  BY <1>1 DEF Handler, LoginVPNSession, EndSession, BlockVPNOwner, UnblockVPNOwner, Reload, EnrolCheck,
     CreateWGDevice, RevokeWGDevice, syncVars
<1>2. CASE RenewLease \/ LeaseTick
  BY <1>2 DEF RenewLease, LeaseTick, TickList, TickScan, RedeemOk, RedeemFails, RedeemRefused, RenewVPNSession,
     ClaimsOk, ClaimsFail, ClaimsRefused, MarkVPNSessionTransient, LapseVPNSession, syncVars
<1> QED
  BY <1>1, <1>2 DEF Next, Sync, Environment, AccountChanges, syncVars

(* Which steps change the account and the time since it lost its right.    *)
LEMMA BarredSteps ==
    ASSUME Types, Next
    PROVE  \/ UNCHANGED barred /\ idp'.account = idp.account
           \/ \E a \in Groups \cup {Disabled} : AccountChanges(a)
           \/ Clock
<1>1. CASE Handler
  <2>1. UNCHANGED barred
    BY <1>1 DEF Handler, LoginVPNSession, EndSession, BlockVPNOwner, UnblockVPNOwner, Reload, EnrolCheck,
       CreateWGDevice, RevokeWGDevice
  <2>2. LoginVPNSession \/ UNCHANGED idp
    BY <1>1 DEF Handler, EndSession, BlockVPNOwner, UnblockVPNOwner, Reload, EnrolCheck,
       CreateWGDevice, RevokeWGDevice
  <2> QED
    BY <2>1, <2>2, LoginTypes
<1>2. CASE RenewLease
  <2>1. ASSUME NEW b \in BOOLEAN, RedeemOk(b) PROVE UNCHANGED barred /\ idp'.account = idp.account
    BY <2>1, RedeemOkIs DEF RedeemOk
  <2>2. ASSUME NEW b \in BOOLEAN, RedeemFails(b) PROVE UNCHANGED barred /\ idp'.account = idp.account
    <3>1. renewal.token \in Token /\ (b => renewal.token.serial < MaxSerial /\ idp' = Rotated(renewal.token))
          /\ (~b => idp' = idp)
      BY <2>2 DEF RedeemFails, Types, RenewalType
    <3> QED
      BY <2>2, <3>1, RotatedTypes DEF RedeemFails
  <2>3. ASSUME NEW b \in BOOLEAN, RedeemRefused(b) PROVE UNCHANGED barred /\ idp'.account = idp.account
    BY <2>3 DEF RedeemRefused, Types
  <2>4. CASE \/ \E b \in BOOLEAN : RenewVPNSession(b)
             \/ \E g \in Groups : ClaimsOk(g)
             \/ ClaimsFail \/ ClaimsRefused \/ MarkVPNSessionTransient \/ LapseVPNSession
    BY <2>4 DEF RenewVPNSession, ClaimsOk, ClaimsFail, ClaimsRefused, MarkVPNSessionTransient, LapseVPNSession
  <2> QED
    BY <1>2, <2>1, <2>2, <2>3, <2>4 DEF RenewLease
<1>3. CASE Sync \/ LeaseTick \/ Crash
  BY <1>3 DEF Sync, SyncRead, SyncApply, LeaseTick, TickList, TickScan, Crash
<1> QED
  BY <1>1, <1>2, <1>3 DEF Next, Environment

(* Which steps a renewal with an answer of the provider comes from.        *)
LEMMA RenewalSteps ==
    ASSUME Types, Next
    PROVE  \/ UNCHANGED renewal
           \/ renewal'.pc \notin {"claims", "commit"}
           \/ \E b \in BOOLEAN : RedeemOk(b)
           \/ \E g \in Groups : ClaimsOk(g)
           \/ Clock
<1>1. CASE RenewLease
  <2>1. ASSUME NEW pc \in {"transient", "lapse"}, Goto(pc) PROVE renewal'.pc \notin {"claims", "commit"}
    BY <2>1, GotoTypes
  <2>2. ToRefresh \/ renewal' = NoRenewal => renewal'.pc \notin {"claims", "commit"}
    BY GotoTypes DEF NoRenewal
  <2> QED
    BY <1>1, <2>1, <2>2 DEF RenewLease, RedeemFails, RedeemRefused, RenewVPNSession, ClaimsFail, ClaimsRefused,
       MarkVPNSessionTransient, LapseVPNSession
<1>2. CASE Handler \/ Sync \/ TickList
  BY <1>2 DEF Handler, LoginVPNSession, EndSession, BlockVPNOwner, UnblockVPNOwner, Reload, EnrolCheck,
     CreateWGDevice, RevokeWGDevice, Sync, SyncRead, SyncApply, TickList, NoRenewal
<1>3. CASE TickScan
  BY <1>3 DEF TickScan
<1>4. CASE Environment
  BY <1>4 DEF Environment, AccountChanges, Crash, NoRenewal
<1> QED
  BY <1>1, <1>2, <1>3, <1>4 DEF Next, LeaseTick

(* Time that passes shortens what is left by as much as it adds.           *)
LEMMA Passing ==
    ASSUME NEW x \in Nat, NEW b \in Nat, NEW c \in Nat, NEW m \in Nat, x > 0 => b + x <= m
    PROVE  /\ c <= b => (x > 0 => c + x <= m)
           /\ c = 0 \/ c <= b + 1 => (Less(x) > 0 => c + Less(x) <= m)
  BY SMT DEF Less

(* No step uses up more of the bound than the time that passes.            *)
LEMMA SpentStep ==
    ASSUME Types, Types', SessionIsItsLogins, Spent, Next
    PROVE  Spent'
<1>0. /\ barred \in Nat /\ Bound \in Nat /\ Bound = Timeout + Lease + Grace
      /\ Timeout \in Nat /\ Lease \in Nat /\ Grace \in Nat
      /\ row.lease \in Nat /\ row.grace \in Nat /\ renewal.left \in Nat /\ renewal.left <= Timeout
      /\ ep.until \in Nat /\ sync.cfg.until \in Nat
      /\ barred' \in Nat /\ row'.lease \in Nat /\ row'.lease <= Lease /\ row'.grace \in Nat
      /\ row'.grace <= Lease + Grace
  BY Constants DEF Types, RowType, RenewalType, CfgType, SyncType
<1>1. (idp.account \in Enrol => barred = 0)' /\ (barred' <= barred \/ Clock)
  <2>1. CASE UNCHANGED barred /\ idp'.account = idp.account
    BY <1>0, <2>1 DEF Spent
  <2>2. ASSUME NEW a \in Groups \cup {Disabled}, AccountChanges(a)
        PROVE  (idp.account \in Enrol => barred = 0)' /\ barred' <= barred
    BY <1>0, <2>2 DEF AccountChanges, Spent, Types
  <2>3. CASE Clock
    BY <2>3 DEF Clock
  <2> QED
    BY <2>1, <2>2, <2>3, BarredSteps
<1>2. CASE Clock
  <2>1. barred' = 0 \/ barred' <= barred + 1
    BY <1>0, <1>2 DEF Clock, Earlier
  <2>2. /\ row'.groups = row.groups /\ row'.lease = Less(row.lease) /\ row'.grace = Less(row.grace)
    BY <1>2, AgedTypes DEF Clock
  <2>3. renewal'.pc = renewal.pc /\ renewal'.groups = renewal.groups /\ renewal'.left = Less(renewal.left)
        /\ (renewal.pc \in {"claims", "commit"} => renewal.left > 0)
    BY <1>2 DEF Clock, Types, RenewalType
  <2>4. ep'.devs = ep.devs /\ ep'.until = Less(ep.until)
    BY <1>2 DEF Clock, Types, CfgType
  <2>5. sync'.cfg.devs = sync.cfg.devs /\ sync'.cfg.until = Less(sync.cfg.until)
    BY <1>2 DEF Clock, Types, CfgType, SyncType
  <2>6. (renewal.pc \in {"claims", "commit"} /\ renewal.groups \in Enrol => barred + renewal.left <= Timeout)'
    <3>1. ASSUME renewal.pc \in {"claims", "commit"}, renewal.groups \in Enrol
          PROVE  barred' + renewal'.left <= Timeout
      <4>1. renewal.left > 0 /\ barred + renewal.left <= Timeout
        BY <2>3, <3>1 DEF Spent
      <4>2. renewal'.left = renewal.left - 1
        BY <1>0, <2>3, <4>1 DEF Less
      <4> QED
        BY <1>0, <2>1, <4>1, <4>2
    <3> QED
      BY <2>3, <3>1
  <2>7. ASSUME NEW x \in Nat, Fits(x) PROVE Less(x) > 0 => barred' + Less(x) <= Bound
    BY <1>0, <2>1, <2>7, Passing DEF Fits
  <2> QED
    BY <1>0, <1>1, <2>2, <2>4, <2>5, <2>6, <2>7 DEF Spent, Fits
<1>3. CASE ~Clock
  <2>1. barred' <= barred
    BY <1>1, <1>3
  <2>2. ASSUME NEW x \in Nat, Fits(x) PROVE Fits(x)'
    <3>1. x > 0 => barred' + x <= Bound
      BY <1>0, <2>1, <2>2, Passing DEF Fits
    <3> QED
      BY <3>1 DEF Fits, Bound
  <2>3. (renewal.pc \in {"claims", "commit"} /\ renewal.groups \in Enrol => barred + renewal.left <= Timeout)'
    <3>1. CASE UNCHANGED renewal
      BY <1>0, <2>1, <3>1 DEF Spent
    <3>2. ASSUME NEW b \in BOOLEAN, RedeemOk(b) PROVE renewal'.groups \in Enrol => barred' + renewal'.left <= Timeout
      BY <1>0, <2>1, <3>2, RedeemOkIs DEF Spent
    <3>3. ASSUME NEW g \in Groups, ClaimsOk(g) PROVE renewal'.groups \in Enrol => barred' + renewal'.left <= Timeout
      <4>1. renewal.pc = "claims"
        BY <3>3 DEF ClaimsOk
      <4> QED
        BY <1>0, <2>1, <3>3, <4>1, ClaimsOkIs DEF Spent
    <3> QED
      BY <1>3, <3>1, <3>2, <3>3, RenewalSteps
  <2>4. (row.groups \in Enrol => Fits(row.lease) /\ Fits(row.grace))'
    <3>1. CASE UNCHANGED row
      BY <1>0, <2>2, <3>1 DEF Spent
    <3>2. CASE LoginVPNSession
      <4>1. barred = 0
        BY <3>2 DEF LoginVPNSession, Spent
      <4> QED
        BY <1>0, <2>1, <4>1 DEF Fits
    <3>3. CASE Ends
      BY <3>3, EndedIs, Constants DEF Ends, Types
    <3>4. ASSUME NEW b \in BOOLEAN, RenewVPNSession(b), Current, ~b
          PROVE  (row.groups \in Enrol => Fits(row.lease) /\ Fits(row.grace))'
      <4>1. row'.groups = renewal.groups /\ renewal.pc = "commit"
        BY <3>4, RenewTypes DEF RenewVPNSession
      <4>2. row'.groups \in Enrol => barred' <= Timeout
        BY <1>0, <2>1, <4>1 DEF Spent
      <4> QED
        BY <1>0, <4>2 DEF Fits
    <3>5. CASE Marks
      BY <1>0, <2>2, <3>5, MarkedIs DEF Spent
    <3> QED
      BY <1>3, <3>1, <3>2, <3>3, <3>4, <3>5, RowSteps
  <2>5. (ep.devs # {} => Fits(ep.until))' /\ (sync.cfg.devs # {} => Fits(sync.cfg.until))'
    <3>1. CASE UNCHANGED <<ep, sync>>
      BY <1>0, <2>2, <3>1 DEF Spent
    <3>2. ASSUME NEW who \in waiting, SyncRead(who)
          PROVE  (ep.devs # {} => Fits(ep.until))' /\ (sync.cfg.devs # {} => Fits(sync.cfg.until))'
      <4>1. ep' = ep /\ sync'.cfg = WgDevices
        BY <3>2 DEF SyncRead
      <4>2. sync.cfg.devs' # {} => Fits(WgDevices.until)
        <5>1. AccessLeft(row) \in Nat /\ (AccessLeft(row) <= row.lease \/ AccessLeft(row) <= row.grace)
          BY AccessLeftIs, Constants DEF Types
        <5>2. WgDevices.until \in Nat /\ WgDevices.until <= AccessLeft(row)
              /\ (WgDevices.devs # {} => row.groups \in Enrol)
          BY WgDevicesIs, Constants DEF CfgType
        <5> QED
          BY <1>0, <4>1, <5>1, <5>2 DEF Spent, Fits
      <4>3. WgDevices.until \in Nat
        BY WgDevicesIs, Constants DEF CfgType
      <4> QED
        BY <1>0, <2>2, <4>1, <4>2, <4>3 DEF Spent
    <3>3. ASSUME NEW b \in BOOLEAN, SyncApply(b)
          PROVE  (ep.devs # {} => Fits(ep.until))' /\ (sync.cfg.devs # {} => Fits(sync.cfg.until))'
      <4>1. (ep' = Down \/ ep' = sync.cfg) /\ sync'.cfg.devs = {} /\ Down.devs = {}
        BY <3>3 DEF SyncApply, NoSync, Down
      <4> QED
        BY <1>0, <2>2, <4>1 DEF Spent
    <3>4. CASE Crash
      BY <3>4 DEF Crash, NoSync, Down
    <3> QED
      BY <1>3, <3>1, <3>2, <3>3, <3>4, EndpointSteps
  <2> QED
    BY <1>1, <2>3, <2>4, <2>5 DEF Spent
<1> QED
  BY <1>2, <1>3

(* No step moves a deadline past the hard limit of the last login.         *)
LEMMA CappedStep ==
    ASSUME Types, Capped, Next
    PROVE  Capped'
<1>0. /\ ep.until \in Nat /\ sync.cfg.until \in Nat /\ row.hard \in Nat /\ row.hard <= Hard /\ Hard \in Nat
  BY Constants DEF Types, RowType, CfgType, SyncType
<1>1. CASE Clock
  <2>1. ep'.until = Less(ep.until)
    BY <1>1 DEF Clock, Types, CfgType
  <2>2. sync'.cfg.until = Less(sync.cfg.until)
    BY <1>1 DEF Clock, Types, CfgType, SyncType
  <2>3. row'.state = row.state /\ row'.hard = Less(row.hard)
    BY <1>1, AgedTypes DEF Clock
  <2> QED
    BY <1>0, <2>1, <2>2, <2>3 DEF Capped, Less
<1>2. CASE ~Clock
  <2>1. \/ row'.hard = Hard
        \/ row'.state = row.state /\ row'.hard = row.hard
        \/ row'.state = "over"
    <3>1. CASE LoginVPNSession
      BY <3>1, LoginTypes
    <3>2. CASE Ends
      BY <3>2, EndedIs DEF Ends, Types
    <3>3. ASSUME NEW b \in BOOLEAN, RenewVPNSession(b), Current, ~b PROVE row'.state = row.state /\ row'.hard = row.hard
      BY <3>3, RenewTypes DEF RenewVPNSession
    <3>4. CASE Marks
      BY <3>4, MarkedIs
    <3> QED
      BY <1>2, <3>1, <3>2, <3>3, <3>4, RowSteps
  <2>2. CASE UNCHANGED <<ep, sync>>
    BY <1>0, <2>1, <2>2 DEF Capped
  <2>3. ASSUME NEW who \in waiting, SyncRead(who) PROVE Capped'
    <3>1. ep' = ep /\ sync'.cfg = WgDevices /\ row' = row
      BY <2>3 DEF SyncRead, storeVars
    <3>2. AccessLeft(row) \in Nat /\ AccessLeft(row) <= row.hard
      BY AccessLeftIs, Constants DEF Types
    <3>3. WgDevices.until \in Nat /\ WgDevices.until <= AccessLeft(row)
      BY WgDevicesIs, Constants DEF CfgType
    <3> QED
      BY <1>0, <3>1, <3>2, <3>3 DEF Capped
  <2>4. ASSUME NEW b \in BOOLEAN, SyncApply(b) PROVE Capped'
    <3>1. (ep' = Down \/ ep' = sync.cfg) /\ sync'.cfg.until = 0 /\ Down.until = 0 /\ row' = row
      BY <2>4 DEF SyncApply, NoSync, Down, storeVars
    <3> QED
      BY <1>0, <3>1 DEF Capped
  <2>5. CASE Crash
    BY <1>0, <2>5 DEF Crash, NoSync, Down, Capped
  <2> QED
    BY <1>2, <2>2, <2>3, <2>4, <2>5, EndpointSteps
<1> QED
  BY <1>1, <1>2

-----------------------------------------------------------------------------
(* Told.                                                                   *)

(* The access of a session runs down with its deadlines.                   *)
LEMMA AccessAges ==
    ASSUME Types, Clock
    PROVE  /\ AccessLeft(row') = Less(AccessLeft(row))
           /\ AccessLeft(row) \in Nat
           /\ Authorized' = IF Less(AccessLeft(row)) > 0 THEN Authorized ELSE {}
<1>0. row.lease \in Nat /\ row.grace \in Nat /\ row.hard \in Nat
  BY Constants DEF Types, RowType
<1>1. /\ row'.lease = Less(row.lease) /\ row'.grace = Less(row.grace) /\ row'.hard = Less(row.hard)
      /\ row'.transient = row.transient /\ row'.state = row.state /\ row'.groups = row.groups
      /\ UNCHANGED <<blocked, dev>>
  BY AgedTypes DEF Clock
<1>2. AccessLeft(row') = Less(AccessLeft(row))
  BY <1>0, <1>1 DEF AccessLeft, Earlier, Less
<1>3. AccessLeft(row) \in Nat
  BY <1>0 DEF AccessLeft, Earlier
<1>4. Less(AccessLeft(row)) > 0 => AccessLeft(row) > 0
  BY <1>3 DEF Less
<1>5. CASE Less(AccessLeft(row)) > 0
  <2>1. Live(row') <=> Live(row)
    BY <1>1, <1>2, <1>4, <1>5 DEF Live
  <2> QED
    BY <1>1, <1>2, <1>3, <1>5, <2>1 DEF Authorized
<1>6. CASE ~(Less(AccessLeft(row)) > 0)
  <2>1. ~Live(row')
    BY <1>2, <1>6 DEF Live
  <2> QED
    BY <1>2, <1>3, <1>6, <2>1 DEF Authorized
<1> QED
  BY <1>2, <1>3, <1>5, <1>6

(* A configuration that says what the store says goes on saying it.        *)
LEMMA SameAges ==
    ASSUME Types, Clock, NEW c \in CfgType, NEW d \in CfgType, Same(c),
           d.devs = c.devs, d.groups = c.groups, d.until = Less(c.until)
    PROVE  Admits(d) = Authorized' /\ (Admits(d) # {} => d.until = AccessLeft(row') /\ d.groups = row'.groups)
<1>1. row'.groups = row.groups /\ c.until \in Nat
  BY AgedTypes, Constants DEF Clock, CfgType
<1>2. CASE Admits(c) = {}
  <2>1. Authorized' = {}
    BY <1>2, AccessAges DEF Same
  <2>2. Admits(d) = {}
    BY <1>1, <1>2 DEF Admits, Less
  <2> QED
    BY <2>1, <2>2
<1>3. CASE Admits(c) # {}
  <2>1. c.devs = Authorized /\ c.until = AccessLeft(row) /\ c.groups = row.groups
    BY <1>3 DEF Same, Admits
  <2> QED
    BY <1>1, <2>1, AccessAges DEF Admits
<1> QED
  BY <1>2, <1>3

(* Every change of the store is told: who makes it waits for a sync, and   *)
(* what is done without one changes nothing that the endpoint admits.      *)
LEMMA ToldStep ==
    ASSUME Types, Types', SessionIsItsLogins, Lineage, Noticed, Told, Next
    PROVE  Told'
<1>1. ASSUME UNCHANGED <<ep, sync, waiting>>, Authorized' = Authorized,
             Authorized # {} => AccessLeft(row') = AccessLeft(row) /\ row'.groups = row.groups
      PROVE  Told'
  <2>1. Same(ep) => Same(ep)'
    BY <1>1 DEF Same, Admits
  <2>2. Same(sync.cfg) => Same(sync.cfg)'
    BY <1>1 DEF Same, Admits
  <2> QED
    BY <1>1, <2>1, <2>2 DEF Told
<1>2. ASSUME UNCHANGED <<ep, sync>>, waiting' # {} PROVE Told'
  BY <1>2 DEF Told
<1>3. ASSUME UNCHANGED <<ep, sync, waiting, row, blocked, dev>> PROVE Told'
  <2>1. Authorized' = Authorized
    BY <1>3 DEF Authorized, Live, AccessLeft
  <2> QED
    BY <1>1, <1>3, <2>1
<1>4. CASE LoginVPNSession \/ EndSession \/ BlockVPNOwner \/ Reload
  BY <1>2, <1>4 DEF LoginVPNSession, EndSession, BlockVPNOwner, Reload, Refresh
<1>5. CASE UnblockVPNOwner
  <2>1. UNCHANGED <<ep, sync, waiting, row, dev>> /\ blocked
    BY <1>5 DEF UnblockVPNOwner, syncVars
  <2>2. row.state # "active"
    BY <2>1 DEF SessionIsItsLogins
  <2>3. Authorized = {} /\ Authorized' = {}
    BY <2>1, <2>2 DEF Authorized, Live
  <2> QED
    BY <1>1, <2>1, <2>3
<1>6. ASSUME NEW d \in Device, EnrolCheck(d) \/ CreateWGDevice(d) \/ RevokeWGDevice(d) PROVE Told'
  <2>1. CASE waiting' # {}
    BY <1>2, <1>6, <2>1 DEF EnrolCheck, CreateWGDevice, RevokeWGDevice, syncVars
  <2>2. CASE waiting' = {}
    <3>1. UNCHANGED <<ep, sync, waiting, row, blocked>>
      BY <1>6, <2>2 DEF EnrolCheck, CreateWGDevice, RevokeWGDevice, syncVars, Refresh
    <3>2. \A e \in Device : dev'[e] = "on" <=> dev[e] = "on"
      BY <1>6, <2>2 DEF EnrolCheck, CreateWGDevice, RevokeWGDevice, Refresh, Types
    <3>3. Authorized' = Authorized
      BY <3>1, <3>2 DEF Authorized, Live, AccessLeft
    <3> QED
      BY <1>1, <3>1, <3>3
  <2> QED
    BY <2>1, <2>2
<1>7. ASSUME NEW who \in waiting, SyncRead(who) PROVE Told'
  <2>1. sync'.cfg = WgDevices /\ sync'.pc = "apply" /\ UNCHANGED <<ep, row, blocked, dev>>
    BY <1>7 DEF SyncRead, storeVars
  <2>2. Same(sync.cfg)'
    <3>1. Authorized' = Authorized /\ AccessLeft(row)' = AccessLeft(row)
      BY <2>1 DEF Authorized, Live, AccessLeft
    <3> QED
      BY <2>1, <3>1, WgDevicesIs DEF Same, Admits
  <2> QED
    BY <2>1, <2>2, WgDevicesIs DEF Told
<1>8. ASSUME NEW b \in BOOLEAN, SyncApply(b) PROVE Told'
  <2>1. /\ sync.pc = "apply" /\ sync'.pc = "idle" /\ ~sync'.cfg.up /\ sync'.cfg.until = 0
        /\ UNCHANGED <<waiting, row, blocked, dev>>
    BY <1>8 DEF SyncApply, NoSync, Down, storeVars
  <2>2. CASE b
    BY <1>8, <2>1, <2>2 DEF SyncApply, Down, Told
  <2>3. CASE ~b
    <3>1. ep' = sync.cfg
      BY <1>8, <2>3 DEF SyncApply
    <3>2. Authorized' = Authorized /\ AccessLeft(row)' = AccessLeft(row)
      BY <2>1 DEF Authorized, Live, AccessLeft
    <3>3. Same(sync.cfg) => Same(ep)'
      BY <2>1, <3>1, <3>2 DEF Same, Admits
    <3> QED
      BY <2>1, <3>1, <3>3 DEF Told
  <2> QED
    BY <2>2, <2>3
<1>9. CASE TickScan
  <2>1. UNCHANGED <<ep, sync, blocked, dev>> /\ tick.pc = "listed"
    BY <1>9 DEF TickScan
  <2>2. CASE waiting' # {}
    BY <1>2, <2>1, <2>2
  <2>3. CASE waiting' = {}
    <3>1. UNCHANGED waiting /\ tick.seen.live = lastLive
      BY <1>9, <2>3 DEF TickScan, Refresh
    <3>2. CASE row' = row
      BY <1>3, <2>1, <3>1, <3>2
    <3>3. CASE row' # row
      <4>1. tick.seen.over /\ tick.seen.gen = row.gen /\ row.gen < MaxGen /\ row' = Ended(row)
        BY <1>9, <3>3, TickScanRow
      <4>2. ~Live(row')
        BY <4>1, EndedIs DEF Live, Types
      <4>3. CASE lastLive = {}
        <5>1. ~Live(row)
          BY <2>1, <4>1, <4>3 DEF Noticed
        <5>2. Authorized = {} /\ Authorized' = {}
          BY <4>2, <5>1 DEF Authorized
        <5> QED
          BY <1>1, <2>1, <3>1, <5>2
      <4>4. CASE lastLive # {}
        <5>1. FALSE
          BY <2>1, <3>1, <4>1, <4>4 DEF Noticed
        <5> QED
          BY <5>1
      <4> QED
        BY <4>3, <4>4
    <3> QED
      BY <3>2, <3>3
  <2> QED
    BY <2>2, <2>3
<1>10. CASE TickList \/ \E a \in Groups \cup {Disabled} : AccountChanges(a)
  BY <1>3, <1>10 DEF TickList, AccountChanges, storeVars, syncVars
<1>11. CASE RenewLease
  <2>1. CASE UNCHANGED <<ep, sync>> /\ waiting' # {}
    BY <1>2, <2>1
  <2>2. CASE UNCHANGED <<ep, sync, waiting, row, blocked, dev>>
    BY <1>3, <2>2
  <2> QED
    BY <1>11, <2>1, <2>2 DEF RenewLease, RedeemOk, RedeemFails, RedeemRefused, RenewVPNSession, ClaimsOk, ClaimsFail,
       ClaimsRefused, MarkVPNSessionTransient, LapseVPNSession, ToRefresh, Refresh, storeVars, syncVars
<1>12. CASE Clock
  <2>1. ep'.devs = ep.devs /\ ep'.groups = ep.groups /\ ep'.until = Less(ep.until) /\ ep'.up = ep.up
    BY <1>12 DEF Clock, Types, CfgType
  <2>2. /\ sync'.cfg.devs = sync.cfg.devs /\ sync'.cfg.groups = sync.cfg.groups
        /\ sync'.cfg.until = Less(sync.cfg.until) /\ sync'.cfg.up = sync.cfg.up /\ sync'.pc = sync.pc
    BY <1>12 DEF Clock, Types, CfgType, SyncType
  <2>3. ep \in CfgType /\ ep' \in CfgType /\ sync.cfg \in CfgType /\ sync'.cfg \in CfgType
    BY DEF Types, SyncType
  <2>4. Same(ep) => Same(ep)'
    BY <1>12, <2>1, <2>3, SameAges DEF Same, Admits
  <2>5. Same(sync.cfg) => Same(sync.cfg)'
    BY <1>12, <2>2, <2>3, SameAges DEF Same, Admits
  <2>6. waiting' = waiting
    BY <1>12 DEF Clock
  <2> QED
    BY <2>1, <2>2, <2>4, <2>5, <2>6 DEF Told, Less
<1>13. CASE Crash
  BY <1>13 DEF Crash, Told, NoSync, Down
<1> QED
  BY <1>4, <1>5, <1>6, <1>7, <1>8, <1>9, <1>10, <1>11, <1>12, <1>13
     DEF Next, Handler, Sync, LeaseTick, Environment

-----------------------------------------------------------------------------
(* The theorems.                                                           *)

(* The invariant holds when quicgate starts.                               *)
LEMMA InitIInv == Init => IInv
<1> SUFFICES ASSUME Init PROVE IInv
  OBVIOUS
<1>1. idp.account \in Enrol /\ idp.good = NoToken
      /\ idp \in [account : Groups \cup {Disabled}, good : Token]
  <2>1. (CHOOSE g \in Enrol : TRUE) \in Enrol
    BY LeaseAssumption
  <2> QED
    BY <2>1, Constants, Empties DEF Init
<1>2. Types
  <2>1. row.lease <= row.hard /\ row.grace <= row.hard /\ barred \in 0..Bound
    BY Constants DEF Init, NoRow
  <2>2. dev \in [Device -> {"none", "checked", "on", "revoked"}]
    BY DEF Init
  <2>3. blocked \in BOOLEAN /\ waiting \subseteq {"handler", "renewal", "tick"}
    BY DEF Init
  <2> QED
    BY <1>1, <2>1, <2>2, <2>3, Empties DEF Init, Types
<1>3. Counted
  <2>1. Owned = {}
    BY DEF Init, Owned
  <2> QED
    BY <2>1, FS_EmptySet, Constants DEF Counted
<1>4. SessionIsItsLogins /\ Lineage /\ Noticed
  BY DEF Init, SessionIsItsLogins, Lineage, Noticed, NoRow, NoRenewal, Asleep, NoList
<1>5. Spent /\ Capped /\ Told
  BY Constants DEF Init, Spent, Capped, Told, NoRow, NoRenewal, NoSync, Down
<1> QED
  BY <1>2, <1>3, <1>4, <1>5 DEF IInv

(* Every step keeps it.                                                    *)
LEMMA NextIInv == IInv /\ [Next]_vars => IInv'
<1>1. ASSUME IInv, Next PROVE IInv'
  <2>1. Types /\ Counted /\ SessionIsItsLogins /\ Lineage /\ Noticed /\ Spent /\ Capped /\ Told
    BY <1>1 DEF IInv
  <2>2. Types' /\ Counted'
    BY <1>1, <2>1, TypesStep, CountedStep
  <2>3. SessionIsItsLogins' /\ Lineage' /\ Noticed'
    BY <1>1, <2>1, SessionStep, TraceStep
  <2>4. Spent' /\ Capped' /\ Told'
    BY <1>1, <2>1, <2>2, SpentStep, CappedStep, ToldStep
  <2> QED
    BY <2>2, <2>3, <2>4 DEF IInv
<1>2. ASSUME IInv, UNCHANGED vars PROVE IInv'
  <2>1. Types'
    BY <1>2, TypesStep DEF IInv
  <2>2. UNCHANGED <<idp, row, blocked, dev, renewal, tick, lastLive, waiting, sync, ep, barred>>
    BY <1>2 DEF vars, storeVars, syncVars
  <2>3. Counted' /\ SessionIsItsLogins' /\ Lineage'
    BY <1>2, <2>2 DEF IInv, Counted, Owned, SessionIsItsLogins, Lineage
  <2>4. Noticed' /\ Spent' /\ Capped'
    BY <1>2, <2>2 DEF IInv, Noticed, Live, AccessLeft, Spent, Fits, Bound, Capped
  <2>5. Told'
    BY <1>2, <2>2 DEF IInv, Told, Same, Admits, Authorized, Live, AccessLeft
  <2> QED
    BY <2>1, <2>3, <2>4, <2>5 DEF IInv
<1> QED
  BY <1>1, <1>2

(* The inductive invariant.                                                *)
LEMMA Invariance == Spec => []IInv
  BY InitIInv, NextIInv, PTL DEF Spec

(* Every variable has its type, no deadline is further away than the       *)
(* settings allow, and no owner has more devices than the limit: for any   *)
(* settings.                                                               *)
THEOREM TypeCorrect == Spec => []TypeOK
<1>1. IInv => TypeOK
  BY DEF IInv, Types, Counted, TypeOK, RowType, RenewalType, TickType, SyncType, CfgType
<1> QED
  BY <1>1, Invariance, PTL

(* An active session holds a refresh token of its own last login and is    *)
(* nobody's who is blocked, whatever renewal, end, block or login crossed. *)
THEOREM SessionIsItsLoginsHolds == Spec => []SessionIsItsLogins
<1>1. IInv => SessionIsItsLogins
  BY DEF IInv
<1> QED
  BY <1>1, Invariance, PTL

(* Access ends within a lease, the grace and the time of one renewal after *)
(* the right to it, and by the hard limit of the last login.               *)
THEOREM AccessIsBoundedHolds == Spec => []AccessIsBounded
<1>1. IInv => AccessIsBounded
  <2> SUFFICES ASSUME IInv, Admitted # {} PROVE barred < Bound /\ (row.state = "active" => ep.until <= row.hard)
    BY DEF AccessIsBounded
  <2>1. ep.devs # {} /\ ep.until > 0 /\ ep.until \in Nat /\ barred \in Nat /\ Bound \in Nat
    BY Constants DEF Admitted, IInv, Types, CfgType
  <2>2. barred + ep.until <= Bound
    BY <2>1 DEF IInv, Spent, Fits
  <2> QED
    BY <2>1, <2>2 DEF IInv, Capped
<1> QED
  BY <1>1, Invariance, PTL

(* Once nothing is under way, the endpoint admits exactly what the         *)
(* database authorizes, or nobody after a failed sync.                     *)
THEOREM EndpointFollowsStoreHolds == Spec => []EndpointFollowsStore
<1>1. IInv => EndpointFollowsStore
  <2> SUFFICES ASSUME IInv, Settled
               PROVE  /\ Admitted = IF ep.up THEN Authorized ELSE {}
                      /\ Admitted # {} => ep.until = AccessLeft(row) /\ ep.groups = row.groups
    BY DEF EndpointFollowsStore
  <2>1. CASE ep.up
    BY <2>1 DEF IInv, Told, Settled, Same, Admits, Admitted
  <2>2. CASE ~ep.up
    BY <2>2 DEF IInv, Told, Admitted
  <2> QED
    BY <2>1, <2>2
<1> QED
  BY <1>1, Invariance, PTL

(* Only a login makes a session active again or moves its hard limit, and  *)
(* a lease grows only with a login or by the renewal that began from this  *)
(* very row.                                                               *)
THEOREM OnlyLoginRevivesHolds == Spec => OnlyLoginRevives
<1> DEFINE Moves == \/ row'.login = row.login + 1
                    \/ /\ row'.state = "active" => row.state = "active"
                       /\ row'.hard <= row.hard
                       /\ row'.lease > row.lease \/ row'.grace > row.grace =>
                            renewal.pc = "commit" /\ renewal.gen = row.gen /\ row'.gen = row.gen + 1
<1>1. IInv /\ [Next]_vars => [Moves]_vars
  <2> SUFFICES ASSUME Types, Next PROVE Moves
    BY DEF IInv
  <2>0. row.lease \in Nat /\ row.grace \in Nat /\ row.hard \in Nat
    BY Constants DEF Types, RowType
  <2>1. CASE UNCHANGED row
    BY <2>0, <2>1
  <2>2. CASE LoginVPNSession
    BY <2>2, LoginTypes
  <2>3. CASE Ends
    BY <2>0, <2>3, EndedIs DEF Ends, Types
  <2>4. ASSUME NEW b \in BOOLEAN, RenewVPNSession(b), Current, ~b PROVE Moves
    BY <2>0, <2>4, RenewTypes DEF RenewVPNSession, Current
  <2>5. CASE Marks
    BY <2>0, <2>5, MarkedIs
  <2>6. CASE Clock
    BY <2>0, <2>6, AgedTypes DEF Clock, Less
  <2> QED
    BY <2>1, <2>2, <2>3, <2>4, <2>5, <2>6, RowSteps
<1> QED
  BY <1>1, Invariance, PTL DEF Spec, OnlyLoginRevives
=============================================================================
