----------------------------- MODULE WgManager ------------------------------
(***************************************************************************)
(* The WireGuard endpoint: Manager in internal/wg/manager.go with the      *)
(* admission of forwarded flows in internal/wg/forward.go.  Apply makes    *)
(* the endpoint match a configuration, in place or with a controlled reset *)
(* (a new device and stack instance); an expiry timer ends what a device   *)
(* has open when its authorization ends.  What a peer has open is tracked  *)
(* under it, so that removing the peer closes it: forwarded flows of       *)
(* devices, connections to quicgate's listeners in the tunnel, and         *)
(* quicgate's own connections to sites.                                    *)
(*                                                                         *)
(* A step is one section under m.mu, or one call that blocks without it.   *)
(* A packet that is inside the stack keeps the source address that its     *)
(* sender had when it came in, whatever is applied before it is looked at. *)
(***************************************************************************)
EXTENDS Naturals, FiniteSets, FiniteSetsExt

CONSTANTS
  Peer,        \* peer keys: "site:1", "device:7"
  NoPeer,
  Pub,         \* public keys
  Addr,        \* tunnel addresses
  Dst,         \* destinations of forwarded flows
  Configs,     \* configurations: each maps a peer to its settings, or NoPeer
  Thing,       \* flows, connections and dials (bound: how many there ever are)
  MaxPerPeer,  \* maxFlowsPerPeer
  MaxTotal,    \* maxFlowsTotal
  MaxPending,  \* maxPendingPerPeer
  MaxInst,     \* bound: stack instances
  MaxTime      \* bound: the clock

\* The settings of a peer.  until is 0 when its authorization does not end.
Settings == [site : BOOLEAN, pub : Pub, owns : SUBSET Addr, until : Nat, dsts : SUBSET Dst]

\* The store gives an address to one peer at a time, and a device never gets
\* another key; a site's key can be edited.  The authorization of a site does
\* not end (sitePeer).
ASSUME ConfigAssumption ==
  /\ NoPeer \notin Peer /\ NoPeer \notin Settings
  /\ Configs \subseteq [Peer -> Settings \cup {NoPeer}]
  /\ \A c \in Configs : \A p, q \in Peer :
       p # q /\ c[p] # NoPeer /\ c[q] # NoPeer => c[p].owns \cap c[q].owns = {}
  /\ \A b, c \in Configs : \A p \in Peer :
       (b[p] # NoPeer /\ c[p] # NoPeer /\ ~b[p].site)
          => ~c[p].site /\ b[p].pub = c[p].pub
  /\ \A c \in Configs : \A p \in Peer : c[p] # NoPeer /\ c[p].site => c[p].until = 0

ASSUME BoundsAssumption ==
  /\ {MaxPerPeer, MaxTotal, MaxPending} \subseteq Nat
  /\ MaxInst \in Nat /\ MaxTime \in Nat \ {0}
  /\ Pub # {} /\ Addr # {} /\ Dst # {}
  /\ IsFiniteSet(Thing)

VARIABLES
  now,        \* the clock
  inst,       \* m.inst: the running instance, 0 for none
  insts,      \* m.nextID
  peers,      \* m.peers
  owned,      \* inst.owned: who has owned each address in the instance
  timer,      \* m.expiry: when it fires, 0 for none
  fired,      \* a timer's function waits for the lock
  at,         \* where each thing is
  kind,       \* "flow", "conn" or "dial"
  in,         \* the instance it belongs to
  pub,        \* the public key of the peer at its other end
  addr,       \* the source address it came from
  dst,        \* the destination of a flow
  key,        \* the peer it is registered under
  reg,        \* m.flows: the registered things
  closed,     \* tracked.closed
  opening,    \* flows whose opening phase has not been settled
  pending     \* m.pending

clockVars == <<now, timer, fired>>
peerVars == <<inst, insts, peers, owned>>
idVars == <<kind, in, pub, addr, dst>>
trackVars == <<key, reg, closed>>
pendVars == <<opening, pending>>
vars == <<clockVars, peerVars, at, idVars, trackVars, pendVars>>

Absent == [p \in Peer |-> NoPeer]
Active(s) == s.until = 0 \/ now < s.until

(* Where things are: a flow waits in the stack, for its record, to be      *)
(* checked again, dials and relays; a connection waits to be accepted and  *)
(* attributed; a dial looks its site up, registers, dials and is           *)
(* confirmed.                                                              *)
FlowAt == {"queued", "record", "recheck", "dial", "relay", "end"}
ConnAt == {"queued", "taken", "open", "releasing"}
DialAt == {"looked", "dialling", "confirm", "open", "releasing"}

Init ==
  /\ now = 1
  /\ timer = 0
  /\ fired = FALSE
  /\ inst = 0
  /\ insts = 0
  /\ peers = Absent
  /\ owned = [a \in Addr |-> NoPeer]
  /\ at = [t \in Thing |-> "none"]
  /\ kind = [t \in Thing |-> "flow"]
  /\ in = [t \in Thing |-> 0]
  /\ pub = [t \in Thing |-> CHOOSE k \in Pub : TRUE]
  /\ addr = [t \in Thing |-> CHOOSE a \in Addr : TRUE]
  /\ dst = [t \in Thing |-> CHOOSE d \in Dst : TRUE]
  /\ key = [t \in Thing |-> NoPeer]
  /\ reg = {}
  /\ closed = {}
  /\ opening = {}
  /\ pending = [p \in Peer |-> 0]

GoTo(t, where) == at' = [at EXCEPT ![t] = where]

Tick ==
  /\ now < MaxTime
  /\ now' = now + 1
  /\ UNCHANGED <<timer, fired, peerVars, at, idVars, trackVars, pendVars>>

-----------------------------------------------------------------------------
(* Configuration.                                                          *)

\* closePeerLocked, for several peers: what they have is unregistered and
\* closed.
CloseThings(ts) ==
  /\ reg' = reg \ ts
  /\ closed' = closed \cup ts

\* needsReset, and the check for new keys in Apply: an address that one peer
\* has owned in this instance would go to another, or a peer has a new key.
NeedsReset_CurrentOwner(c) ==
  \E p \in Peer : c[p] # NoPeer /\
    \/ \E q \in Peer \ {p} : peers[q] # NoPeer /\ peers[q].owns \cap c[p].owns # {}
    \/ peers[p] # NoPeer /\ peers[p].pub # c[p].pub

NeedsReset(c) ==
  \E p \in Peer : c[p] # NoPeer /\
    \/ \E a \in c[p].owns : owned[a] \notin {p, NoPeer}
    \/ peers[p] # NoPeer /\ peers[p].pub # c[p].pub

\* reviewFlowsLocked: a flow that the configuration does not allow any more.
Disallowed(c, t) ==
  kind[t] = "flow" /\ (~Active(c[key[t]]) \/ dst[t] \notin c[key[t]].dsts)

\* scheduleExpiryLocked: when the next authorization among ps ends.
NextExpiry(ps) ==
  LET ends == {ps[p].until : p \in {q \in Peer : ps[q] # NoPeer /\ Active(ps[q])}} \ {0}
  IN IF ends = {} THEN 0 ELSE Min(ends)

\* The endpoint goes down, with everything that is open (stopLocked).
StopLocked ==
  /\ CloseThings(reg)
  /\ inst' = 0
  /\ peers' = Absent
  /\ owned' = [a \in Addr |-> NoPeer]
  /\ timer' = 0

\* Apply, when the device takes the configuration: a running instance is kept
\* or, when addresses change hands or the server's own settings change,
\* replaced; peers that are gone lose what they have, then flows that are not
\* allowed any more and devices that have expired do; the timer is armed.
Apply(c, server) ==
  LET reset == inst # 0 /\ (server \/ NeedsReset(c))
      fresh == inst = 0 \/ reset
      gone == {t \in reg : reset \/ c[key[t]] = NoPeer \/ ~Active(c[key[t]]) \/ Disallowed(c, t)}
  IN /\ fresh => insts < MaxInst
     /\ CloseThings(gone)
     /\ insts' = IF fresh THEN insts + 1 ELSE insts
     /\ inst' = insts'
     /\ peers' = c
     /\ owned' = [a \in Addr |->
                    IF \E p \in Peer : c[p] # NoPeer /\ a \in c[p].owns
                      THEN CHOOSE p \in Peer : c[p] # NoPeer /\ a \in c[p].owns
                      ELSE IF fresh THEN NoPeer ELSE owned[a]]
     /\ timer' = NextExpiry(c)
     /\ UNCHANGED <<now, fired, at, idVars, key, pendVars>>

\* Apply fails: the new instance does not start, or neither the changes nor
\* the whole configuration can be written.  Close at shutdown, and a reload
\* that finds the endpoint switched off, do the same.
Down ==
  /\ inst # 0
  /\ StopLocked
  /\ UNCHANGED <<now, fired, insts, at, idVars, key, pendVars>>

\* The timer fires: its function waits for the lock, and stopping the timer
\* does not stop it any more.
TimerFires ==
  /\ timer # 0 /\ now >= timer
  /\ ~fired
  /\ fired' = TRUE
  /\ UNCHANGED <<now, timer, peerVars, at, idVars, trackVars, pendVars>>

\* Its function, from the state of the moment it runs.
Expire_Late ==
  /\ fired
  /\ fired' = FALSE
  /\ CloseThings({t \in reg : peers[key[t]].until # 0 /\ now > peers[key[t]].until})
  /\ timer' = NextExpiry(peers)
  /\ UNCHANGED <<now, peerVars, at, idVars, key, pendVars>>

Expire ==
  /\ fired
  /\ fired' = FALSE
  /\ CloseThings({t \in reg : ~Active(peers[key[t]])})
  /\ timer' = NextExpiry(peers)
  /\ UNCHANGED <<now, peerVars, at, idVars, key, pendVars>>

-----------------------------------------------------------------------------
(* What comes out of the tunnel.                                           *)

\* WireGuard takes a packet of peer p that opens a flow or a connection, from
\* an address that is p's: it is inside the stack now.
Arrive(t, p, what, a, d) ==
  /\ at[t] = "none"
  /\ inst # 0
  /\ peers[p] # NoPeer
  /\ a \in peers[p].owns
  /\ kind' = [kind EXCEPT ![t] = what]
  /\ in' = [in EXCEPT ![t] = inst]
  /\ pub' = [pub EXCEPT ![t] = peers[p].pub]
  /\ addr' = [addr EXCEPT ![t] = a]
  /\ dst' = [dst EXCEPT ![t] = d]
  /\ GoTo(t, "queued")
  /\ UNCHANGED <<clockVars, peerVars, trackVars, pendVars>>

\* peerByAddrLocked: the active peers that own an address.
PeersByAddr(a) == {p \in Peer : peers[p] # NoPeer /\ Active(peers[p]) /\ a \in peers[p].owns}

Held(p) == {t \in reg : key[t] = p}
Room(p) == Cardinality(Held(p)) < MaxPerPeer /\ Cardinality(reg) < MaxTotal

\* admitLocked.
Register(t, p) ==
  /\ key' = [key EXCEPT ![t] = p]
  /\ reg' = reg \cup {t}
  /\ UNCHANGED closed

\* decideLocked: why a flow of an address may not be opened.
MayOpen(t, p) ==
  /\ p \in PeersByAddr(addr[t])
  /\ ~peers[p].site
  /\ dst[t] \in peers[p].dsts
  /\ Room(p)
  /\ pending[p] < MaxPending

\* admitFlow, first step: the flow is refused, or registered as a reservation.
Decide_AnyInstance(t) ==
  /\ at[t] = "queued" /\ kind[t] = "flow"
  /\ \/ /\ ~\E p \in Peer : MayOpen(t, p)
        /\ GoTo(t, "ended")
        /\ UNCHANGED <<trackVars, pendVars>>
     \/ \E p \in Peer :
          /\ MayOpen(t, p)
          /\ Register(t, p)
          /\ opening' = opening \cup {t}
          /\ pending' = [pending EXCEPT ![p] = @ + 1]
          /\ GoTo(t, "record")
  /\ UNCHANGED <<clockVars, peerVars, idVars>>

Decide(t) ==
  /\ at[t] = "queued" /\ kind[t] = "flow"
  /\ \/ /\ inst # in[t] \/ ~\E p \in Peer : MayOpen(t, p)
        /\ GoTo(t, "ended")
        /\ UNCHANGED <<trackVars, pendVars>>
     \/ \E p \in Peer :
          /\ inst = in[t]
          /\ MayOpen(t, p)
          /\ Register(t, p)
          /\ opening' = opening \cup {t}
          /\ pending' = [pending EXCEPT ![p] = @ + 1]
          /\ GoTo(t, "record")
  /\ UNCHANGED <<clockVars, peerVars, idVars>>

\* settleLocked: the opening phase is over; it counts once.
Settle(t) ==
  /\ opening' = opening \ {t}
  /\ pending' = IF t \in opening THEN [pending EXCEPT ![key[t]] = @ - 1] ELSE pending

\* Unregister, unless the manager has done so already.
Forget(t) ==
  /\ reg' = reg \ {t}
  /\ closed' = closed \cup {t}
  /\ UNCHANGED key

\* The record is written, or refused (module FlowLog): then the reservation
\* is given up.
Recorded(t, ok) ==
  /\ at[t] = "record"
  /\ IF ok
       THEN GoTo(t, "recheck") /\ UNCHANGED <<trackVars, pendVars>>
       ELSE GoTo(t, "ended") /\ Forget(t) /\ Settle(t)
  /\ UNCHANGED <<clockVars, peerVars, idVars>>

\* admitFlow, last step: the reservation must have survived.
Recheck(t) ==
  /\ at[t] = "recheck"
  /\ IF t \in closed \/ inst # in[t]
       THEN GoTo(t, "ended") /\ Forget(t) /\ Settle(t)
       ELSE GoTo(t, "dial") /\ UNCHANGED <<trackVars, pendVars>>
  /\ UNCHANGED <<clockVars, peerVars, idVars>>

\* The destination is dialled; a flow that is closed meanwhile has its dial
\* cancelled, and flowConns.add refuses its connection.
FlowDialled(t, ok) ==
  /\ at[t] = "dial"
  /\ Settle(t)
  /\ GoTo(t, IF ok /\ t \notin closed THEN "relay" ELSE "end")
  /\ UNCHANGED <<clockVars, peerVars, idVars, trackVars>>

\* A UDP flow whose tunnel endpoint cannot be created ends before it dials.
NoEndpoint(t) ==
  /\ at[t] = "dial"
  /\ GoTo(t, "end")
  /\ UNCHANGED <<clockVars, peerVars, idVars, trackVars, pendVars>>

\* A relay ends when the manager closes its connections ...
RelayCut_Registered(t) ==
  /\ at[t] = "relay" /\ t \in closed /\ t \in reg
  /\ GoTo(t, "end")
  /\ UNCHANGED <<clockVars, peerVars, idVars, trackVars, pendVars>>

RelayCut(t) ==
  /\ at[t] = "relay" /\ t \in closed
  /\ GoTo(t, "end")
  /\ UNCHANGED <<clockVars, peerVars, idVars, trackVars, pendVars>>

\* ... or by itself: a side ends it, or nothing moves any more.
RelayOver(t) ==
  /\ at[t] = "relay" /\ t \notin closed
  /\ GoTo(t, "end")
  /\ UNCHANGED <<clockVars, peerVars, idVars, trackVars, pendVars>>

\* The flow's goroutine unregisters it.
EndFlow_NotSettled(t) ==
  /\ at[t] = "end"
  /\ Forget(t)
  /\ GoTo(t, "ended")
  /\ UNCHANGED <<clockVars, peerVars, idVars, pendVars>>

EndFlow(t) ==
  /\ at[t] = "end"
  /\ Forget(t)
  /\ Settle(t)
  /\ GoTo(t, "ended")
  /\ UNCHANGED <<clockVars, peerVars, idVars>>

-----------------------------------------------------------------------------
(* Connections to quicgate's listeners in the tunnel: peerListener.Accept. *)

\* The stack's listener returns a connection, as long as its instance runs.
Take(t) ==
  /\ at[t] = "queued" /\ kind[t] = "conn"
  /\ GoTo(t, IF inst = in[t] THEN "taken" ELSE "ended")
  /\ UNCHANGED <<clockVars, peerVars, idVars, trackVars, pendVars>>

\* It is registered under the peer that has its source address now.
Attribute(t) ==
  /\ at[t] = "taken"
  /\ \/ /\ \A p \in PeersByAddr(addr[t]) : ~Room(p)
        /\ GoTo(t, "ended")
        /\ UNCHANGED trackVars
     \/ \E p \in PeersByAddr(addr[t]) :
          /\ Room(p)
          /\ Register(t, p)
          /\ GoTo(t, "open")
  /\ UNCHANGED <<clockVars, peerVars, idVars, pendVars>>

-----------------------------------------------------------------------------
(* Connections to sites: DialContext.                                      *)

\* The site and the instance are looked up ...
Look(t, p) ==
  /\ at[t] = "none"
  /\ inst # 0 /\ peers[p] # NoPeer /\ peers[p].site
  /\ kind' = [kind EXCEPT ![t] = "dial"]
  /\ in' = [in EXCEPT ![t] = inst]
  /\ pub' = [pub EXCEPT ![t] = peers[p].pub]
  /\ key' = [key EXCEPT ![t] = p]
  /\ GoTo(t, "looked")
  /\ UNCHANGED <<clockVars, peerVars, addr, dst, reg, closed, pendVars>>

SameSite(t) == inst = in[t] /\ peers[key[t]] # NoPeer /\ peers[key[t]].pub = pub[t]

\* ... the attempt is registered ...
RegisterDial(t) ==
  /\ at[t] = "looked"
  /\ IF SameSite(t) /\ Room(key[t])
       THEN Register(t, key[t]) /\ GoTo(t, "dialling")
       ELSE GoTo(t, "ended") /\ UNCHANGED trackVars
  /\ UNCHANGED <<clockVars, peerVars, idVars, pendVars>>

\* ... the site is dialled (an attempt that fails is released) ...
SiteDialled(t, ok) ==
  /\ at[t] = "dialling"
  /\ IF ok
       THEN GoTo(t, "confirm") /\ UNCHANGED closed
       ELSE GoTo(t, IF t \in closed THEN "ended" ELSE "releasing") /\ closed' = closed \cup {t}
  /\ UNCHANGED <<clockVars, peerVars, idVars, key, reg, pendVars>>

\* ... and the connection counts, unless the site went away.
Confirm(t) ==
  /\ at[t] = "confirm"
  /\ IF t \notin closed /\ SameSite(t)
       THEN GoTo(t, "open") /\ UNCHANGED trackVars
       ELSE GoTo(t, "ended") /\ Forget(t)
  /\ UNCHANGED <<clockVars, peerVars, idVars, pendVars>>

-----------------------------------------------------------------------------
(* The end of a tracked connection.                                        *)

\* release: the flag first, without the lock, ...
Release(t) ==
  /\ at[t] = "open" /\ t \notin closed
  /\ closed' = closed \cup {t}
  /\ GoTo(t, "releasing")
  /\ UNCHANGED <<clockVars, peerVars, idVars, key, reg, pendVars>>

\* ... then the entry.
ReleaseEntry(t) ==
  /\ at[t] = "releasing"
  /\ reg' = reg \ {t}
  /\ GoTo(t, "ended")
  /\ UNCHANGED <<clockVars, peerVars, idVars, key, closed, pendVars>>

\* The manager has closed it.
Cut(t) ==
  /\ at[t] = "open" /\ t \in closed
  /\ GoTo(t, "ended")
  /\ UNCHANGED <<clockVars, peerVars, idVars, trackVars, pendVars>>

-----------------------------------------------------------------------------

\* What a thing's own goroutines do.
Progress(t) ==
  \/ Decide(t)
  \/ \E ok \in BOOLEAN : Recorded(t, ok) \/ FlowDialled(t, ok) \/ SiteDialled(t, ok)
  \/ Recheck(t)
  \/ NoEndpoint(t)
  \/ RelayCut(t)
  \/ EndFlow(t)
  \/ Take(t)
  \/ Attribute(t)
  \/ RegisterDial(t)
  \/ Confirm(t)
  \/ ReleaseEntry(t)
  \/ Cut(t)

Next ==
  \/ Tick
  \/ \E c \in Configs, server \in BOOLEAN : Apply(c, server)
  \/ Down
  \/ TimerFires
  \/ Expire
  \/ \E t \in Thing :
       \/ Progress(t)
       \/ RelayOver(t)
       \/ Release(t)
       \/ \E p \in Peer : Look(t, p)
       \/ \E p \in Peer, a \in Addr, d \in Dst : Arrive(t, p, "flow", a, d)
       \/ \E p \in Peer, a \in Addr : Arrive(t, p, "conn", a, CHOOSE d \in Dst : TRUE)

Spec == Init /\ [][Next]_vars

(* Goroutines are scheduled; records, dials and accepts have deadlines or  *)
(* end with what they wait for.  The timer fires.                          *)
Fairness ==
  /\ WF_vars(TimerFires)
  /\ WF_vars(Expire)
  /\ \A t \in Thing : WF_vars(Progress(t))

FairSpec == Spec /\ Fairness

-----------------------------------------------------------------------------
(* Properties.                                                             *)

(* Every variable has its type; a thing is registered under a peer, and a  *)
(* pending count is never given back twice.                                *)
TypeOK ==
  /\ now \in 0..MaxTime
  /\ timer \in Nat
  /\ fired \in BOOLEAN
  /\ inst \in 0..MaxInst
  /\ insts \in 0..MaxInst
  /\ peers \in [Peer -> Settings \cup {NoPeer}]
  /\ owned \in [Addr -> Peer \cup {NoPeer}]
  /\ at \in [Thing -> {"none", "ended"} \cup FlowAt \cup ConnAt \cup DialAt]
  /\ kind \in [Thing -> {"flow", "conn", "dial"}]
  /\ in \in [Thing -> 0..MaxInst]
  /\ pub \in [Thing -> Pub]
  /\ addr \in [Thing -> Addr]
  /\ dst \in [Thing -> Dst]
  /\ key \in [Thing -> Peer \cup {NoPeer}]
  /\ \A t \in reg : t \in Thing /\ key[t] # NoPeer
  /\ closed \subseteq Thing
  /\ opening \subseteq Thing
  /\ pending \in [Peer -> Nat]

\* What may carry bytes: admitted, and not closed by the manager.
Live(t) == at[t] \in {"record", "recheck", "dial", "relay", "dialling", "confirm", "open"}
             /\ t \notin closed

(* A flow or a dial that is not closed is registered, so that revoking its *)
(* peer finds it, belongs to the running instance and to the very peer     *)
(* (the same public key) it is registered under, and a                     *)
(* flow goes where the applied configuration allows that device to go: no  *)
(* packet that was queued, recorded or dialled while the configuration     *)
(* changed opens anything under a newer owner of its address (S2, S39,     *)
(* S40, S42; Apply, admitFlow, DialContext).                               *)
OpenIsAuthorized ==
  \A t \in Thing : Live(t) /\ kind[t] # "conn" =>
    /\ t \in reg
    /\ inst # 0 /\ in[t] = inst
    /\ peers[key[t]] # NoPeer
    /\ peers[key[t]].pub = pub[t]
    /\ kind[t] = "flow" => dst[t] \in peers[key[t]].dsts

(* Once the due expiry timer has run, nothing of a device whose            *)
(* authorization has ended is open: whatever was admitted in the last      *)
(* moment, by any path, is closed, and a renewal keeps its connections     *)
(* (QG-02; scheduleExpiryLocked).                                          *)
ExpiredHaveNothing ==
  (timer = 0 \/ now < timer) => \A t \in reg : Active(peers[key[t]])

(* The budgets hold (S49): what one peer has open, what all of them have,  *)
(* and the flows of one peer that are being opened, whose count is exact   *)
(* on every way out of an admission: nothing that has ended still counts.  *)
Budgets ==
  /\ Cardinality(reg) <= MaxTotal
  /\ \A p \in Peer :
       /\ Cardinality(Held(p)) <= MaxPerPeer
       /\ pending[p] = Cardinality({t \in opening : key[t] = p})
       /\ pending[p] <= MaxPending
  /\ \A t \in opening \cup reg : at[t] \notin {"none", "ended"}

(* "An address never changes owner inside a running stack instance" (S40). *)
AddressKeepsOwner ==
  [][inst' = inst => \A a \in Addr : owned[a] # NoPeer => owned'[a] = owned[a]]_vars

(* Everything the manager has closed comes to its end.                     *)
ClosedEnds == \A t \in Thing : t \in closed ~> at[t] = "ended"

(* "A new key is a new peer (S39): what the old key holder still has in    *)
(* flight must not meet the new one's configuration" (Apply): a connection *)
(* is served as the peer that opened it.                                   *)
ConnIsItsPeers ==
  \A t \in Thing : Live(t) /\ kind[t] = "conn" =>
    peers[key[t]] # NoPeer /\ peers[key[t]].pub = pub[t]

=============================================================================
