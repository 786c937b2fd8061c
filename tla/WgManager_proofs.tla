-------------------------- MODULE WgManager_proofs --------------------------
(***************************************************************************)
(* Proofs that the invariants of WgManager hold for any peers, addresses,  *)
(* configurations, budgets and number of things that are open.             *)
(*                                                                         *)
(* The inductive invariant has a part for the endpoint as a whole (Table:  *)
(* what is configured and who has owned each address; Armed: the expiry    *)
(* timer is early enough), a part for each thing (Local: how far it is,    *)
(* where it is registered and under whom) and the counts (RegCount,        *)
(* PendCount).  A step of a thing's own goroutines leaves the others and   *)
(* the endpoint alone, so that only its own Local and the counts are at    *)
(* stake; a step of the manager only ever closes things.                   *)
(***************************************************************************)
EXTENDS WgManager, FiniteSetTheorems, WellFoundedInduction, TLAPS

\* TypeOK with pending counts that might be negative.
Types ==
  /\ now \in 0..MaxTime
  /\ timer \in Nat
  /\ fired \in BOOLEAN
  /\ inst \in 0..MaxInst
  /\ insts \in 0..MaxInst
  /\ peers \in [Peer -> Settings \cup {NoPeer}]
  /\ owned \in [Addr -> Peer \cup {NoPeer}]
  /\ at \in [Thing -> {"none", "ended"} \cup FlowAt \cup ConnAt \cup DialAt]
  /\ kind \in [Thing -> {"flow", "conn", "dial"}]
  /\ in \in [Thing -> 0..MaxInst]
  /\ pub \in [Thing -> Pub]
  /\ addr \in [Thing -> Addr]
  /\ dst \in [Thing -> Dst]
  /\ key \in [Thing -> Peer \cup {NoPeer}]
  /\ reg \subseteq Thing
  /\ closed \subseteq Thing
  /\ opening \subseteq Thing
  /\ pending \in [Peer -> Int]

\* The endpoint is down, or runs the last instance with a configuration whose
\* addresses are their owners'.
Table ==
  /\ inst = 0 \/ inst = insts
  /\ inst = 0 => peers = Absent
  /\ inst # 0 => peers \in Configs
  /\ \A p \in Peer : peers[p] # NoPeer => \A a \in peers[p].owns : owned[a] = p

\* The timer fires no later than the next authorization ends.
InTime(s) == timer # 0 /\ timer <= s.until
Armed ==
  \A p \in Peer : peers[p] # NoPeer /\ peers[p].until # 0 /\ now < peers[p].until => InTime(peers[p])

FlowStages == {"record", "recheck", "dial", "relay", "end"}
DialStages == {"looked", "dialling", "confirm"}
Unregistered == {"none", "queued", "taken", "looked"}

\* Which steps a thing of each kind is at, and in which of them it may be
\* registered, closed or still opening.
Staged(t) ==
  /\ at[t] \in FlowStages => kind[t] = "flow"
  /\ at[t] \in DialStages => kind[t] = "dial" /\ key[t] \in Peer
  /\ at[t] = "looked" => \A c \in Configs : c[key[t]] # NoPeer => c[key[t]].site
  /\ at[t] = "taken" => kind[t] = "conn"
  /\ at[t] = "queued" => kind[t] # "dial"
  /\ at[t] \in {"open", "releasing"} => kind[t] # "flow"
  /\ t \in reg => at[t] \notin Unregistered \cup {"ended"}
  /\ t \in closed => at[t] \notin Unregistered
  /\ t \in reg /\ t \in closed => at[t] = "releasing"
  /\ t \in opening => at[t] \in {"record", "recheck", "dial", "end"} /\ key[t] \in Peer
  /\ Live(t) => t \in reg
  /\ in[t] <= insts

\* A flow that waits in the running instance: if the device that owned its
\* address when it came in is still configured, it has the key it came under.
Waits(t) ==
  at[t] = "queued" /\ kind[t] = "flow" /\ inst # 0 /\ in[t] = inst =>
    /\ owned[addr[t]] \in Peer
    /\ \A c \in Configs :
         c[owned[addr[t]]] # NoPeer /\ ~c[owned[addr[t]]].site => c[owned[addr[t]]].pub = pub[t]

\* What is registered belongs to a configured peer, whose end is in time, and
\* is what that peer may have.
Entitled(t) ==
  t \in reg =>
    /\ key[t] \in Peer
    /\ inst # 0
    /\ peers[key[t]] # NoPeer
    /\ peers[key[t]].until = 0 \/ InTime(peers[key[t]])
    /\ kind[t] # "conn" => in[t] = inst /\ peers[key[t]].pub = pub[t]
    /\ kind[t] = "flow" => dst[t] \in peers[key[t]].dsts

Local(t) == Staged(t) /\ Waits(t) /\ Entitled(t)

RegCount ==
  /\ Cardinality(reg) <= MaxTotal
  /\ \A p \in Peer : Cardinality(Held(p)) <= MaxPerPeer

OpeningOf(p) == {t \in opening : key[t] = p}
PendCount ==
  \A p \in Peer : pending[p] = Cardinality(OpeningOf(p)) /\ pending[p] <= MaxPending

IInv ==
  /\ Types
  /\ Table
  /\ Armed
  /\ \A t \in Thing : Local(t)
  /\ RegCount
  /\ PendCount

-----------------------------------------------------------------------------
(* A set of natural numbers has a least element.                           *)
LEMMA Least == ASSUME NEW T \in SUBSET Nat, T # {} PROVE \E x \in T : \A y \in T : x <= y
<1>1. IsWellFoundedOn(OpToRel(<, Nat), Nat)
  BY NatLessThanWellFounded
<1>2. PICK x \in T : \A y \in T : ~(<<y, x>> \in OpToRel(<, Nat))
  BY <1>1, WFMin
<1>3. \A y \in T : ~(y < x)
  BY <1>2 DEF OpToRel
<1> QED
  BY <1>3

(* The expiry timer is armed for the first authorization that ends.        *)
LEMMA NextExpiryIsFirst ==
    ASSUME NEW c \in [Peer -> Settings \cup {NoPeer}], now \in Nat
    PROVE  /\ NextExpiry(c) \in Nat
           /\ \A p \in Peer : c[p] # NoPeer /\ c[p].until # 0 /\ now < c[p].until
                => NextExpiry(c) # 0 /\ NextExpiry(c) <= c[p].until
<1> DEFINE ends == {c[p].until : p \in {q \in Peer : c[q] # NoPeer /\ Active(c[q])}} \ {0}
<1>1. ends \in SUBSET Nat /\ 0 \notin ends
  BY DEF Settings
<1>2. CASE ends = {}
  <2>1. NextExpiry(c) = 0
    BY <1>2 DEF NextExpiry
  <2>2. ASSUME NEW p \in Peer, c[p] # NoPeer, c[p].until # 0, now < c[p].until PROVE c[p].until \in ends
    BY <2>2 DEF Active
  <2> QED
    BY <1>2, <2>1, <2>2
<1>3. CASE ends # {}
  <2>1. PICK x \in ends : \A y \in ends : x <= y
    BY <1>1, <1>3, Least
  <2>2. Min(ends) \in ends /\ \A y \in ends : Min(ends) <= y
    BY <2>1 DEF Min
  <2>3. NextExpiry(c) = Min(ends)
    BY <1>3 DEF NextExpiry
  <2>4. ASSUME NEW p \in Peer, c[p] # NoPeer, c[p].until # 0, now < c[p].until PROVE c[p].until \in ends
    BY <2>4 DEF Active
  <2> QED
    BY <1>1, <2>2, <2>3, <2>4
<1> QED
  BY <1>2, <1>3

-----------------------------------------------------------------------------
(* Sets of things are finite, and so are the parts that are counted.       *)
LEMMA ThingsFinite ==
    ASSUME NEW S \in SUBSET Thing
    PROVE  IsFiniteSet(S) /\ Cardinality(S) \in Nat
  BY BoundsAssumption, FS_Subset, FS_CardinalityType

(* Unregistering things keeps the budgets.                                 *)
LEMMA RegShrinks ==
    ASSUME Types, RegCount, reg' \subseteq reg, \A u \in reg' : key'[u] = key[u]
    PROVE  RegCount'
<1>1. ASSUME NEW S \in SUBSET Thing, NEW T \in SUBSET S, NEW n \in Nat, Cardinality(S) <= n
      PROVE  Cardinality(T) <= n
  <2>1. IsFiniteSet(S) /\ Cardinality(S) \in Nat /\ Cardinality(T) \in Nat
    BY ThingsFinite
  <2>2. Cardinality(T) <= Cardinality(S)
    BY <2>1, FS_Subset
  <2> QED
    BY <1>1, <2>1, <2>2
<1>2. Cardinality(reg') <= MaxTotal
  BY <1>1, BoundsAssumption DEF Types, RegCount
<1>3. ASSUME NEW p \in Peer PROVE Cardinality(Held(p)') <= MaxPerPeer
  <2>1. Held(p)' \in SUBSET Held(p) /\ Held(p) \in SUBSET Thing
    BY DEF Held, Types
  <2>2. Cardinality(Held(p)) <= MaxPerPeer
    BY DEF RegCount
  <2> QED
    BY <1>1, <2>1, <2>2, BoundsAssumption
<1> QED
  BY <1>2, <1>3 DEF RegCount

(* Registering one more thing where there is room keeps the budgets.       *)
LEMMA RegGrows ==
    ASSUME Types, RegCount, NEW t \in Thing, NEW p \in Peer, t \notin reg, Room(p), Register(t, p)
    PROVE  RegCount'
<1>1. /\ key' = [key EXCEPT ![t] = p] /\ reg' = reg \cup {t} /\ reg \in SUBSET Thing
      /\ \A u \in reg : key'[u] = key[u]
  BY DEF Register, Types
<1>2. Cardinality(reg') <= MaxTotal
  <2>1. Cardinality(reg \cup {t}) = Cardinality(reg) + 1 /\ Cardinality(reg) \in Nat
    BY <1>1, ThingsFinite, FS_AddElement
  <2> QED
    BY <1>1, <2>1, BoundsAssumption DEF Room
<1>3. ASSUME NEW q \in Peer PROVE Cardinality(Held(q)') <= MaxPerPeer
  <2>0. Held(q) \in SUBSET Thing /\ t \notin Held(q)
    BY <1>1 DEF Held
  <2>1. CASE q = p
    <3>1. Held(q)' = Held(q) \cup {t}
      BY <1>1, <2>1 DEF Held, Types
    <3>2. Cardinality(Held(q) \cup {t}) = Cardinality(Held(q)) + 1 /\ Cardinality(Held(q)) \in Nat
      BY <2>0, ThingsFinite, FS_AddElement
    <3> QED
      BY <2>1, <3>1, <3>2, BoundsAssumption DEF Room
  <2>2. CASE q # p
    <3>1. Held(q)' = Held(q)
      BY <1>1, <2>2 DEF Held, Types
    <3> QED
      BY <3>1 DEF RegCount
  <2> QED
    BY <2>1, <2>2
<1> QED
  BY <1>2, <1>3 DEF RegCount

(* The pending counts stay when no opening thing is touched.               *)
LEMMA PendStays ==
    ASSUME PendCount, UNCHANGED pendVars, \A u \in opening : key'[u] = key[u]
    PROVE  PendCount'
<1>1. ASSUME NEW p \in Peer PROVE OpeningOf(p)' = OpeningOf(p)
  BY DEF OpeningOf, pendVars
<1> QED
  BY <1>1 DEF PendCount, pendVars

(* The end of an opening phase is counted once.                            *)
LEMMA PendSettles ==
    ASSUME Types, PendCount, NEW t \in Thing, t \in opening => key[t] \in Peer, key' = key, Settle(t)
    PROVE  PendCount' /\ pending' \in [Peer -> Int]
<1>1. CASE t \notin opening
  <2>1. UNCHANGED pendVars
    BY <1>1 DEF Settle, pendVars
  <2> QED
    BY <2>1, PendStays DEF Types, pendVars
<1>2. CASE t \in opening
  <2>1. /\ opening' = opening \ {t} /\ pending' = [pending EXCEPT ![key[t]] = @ - 1]
        /\ key[t] \in Peer
    BY <1>2 DEF Settle
  <2>2. ASSUME NEW p \in Peer
        PROVE  pending'[p] = Cardinality(OpeningOf(p)') /\ pending'[p] <= MaxPending
    <3>0. /\ OpeningOf(p) \in SUBSET Thing /\ pending[p] = Cardinality(OpeningOf(p))
          /\ pending[p] <= MaxPending
      BY DEF OpeningOf, Types, PendCount
    <3>1. CASE p = key[t]
      <4>1. OpeningOf(p)' = OpeningOf(p) \ {t} /\ t \in OpeningOf(p)
        BY <1>2, <2>1, <3>1 DEF OpeningOf
      <4>2. /\ Cardinality(OpeningOf(p) \ {t}) = Cardinality(OpeningOf(p)) - 1
            /\ Cardinality(OpeningOf(p)) \in Nat
        BY <3>0, <4>1, ThingsFinite, FS_RemoveElement
      <4>3. pending'[p] = pending[p] - 1
        BY <2>1, <3>1 DEF Types
      <4> QED
        BY <3>0, <4>1, <4>2, <4>3, BoundsAssumption
    <3>2. CASE p # key[t]
      <4>1. OpeningOf(p)' = OpeningOf(p)
        BY <2>1, <3>2 DEF OpeningOf
      <4>2. pending'[p] = pending[p]
        BY <2>1, <3>2 DEF Types
      <4> QED
        BY <3>0, <4>1, <4>2
    <3> QED
      BY <3>1, <3>2
  <2> QED
    BY <2>1, <2>2 DEF PendCount, Types
<1> QED
  BY <1>1, <1>2

(* A reservation adds one to the count of its peer.                        *)
LEMMA PendGrows ==
    ASSUME Types, PendCount, NEW t \in Thing, NEW p \in Peer, t \notin opening, pending[p] < MaxPending,
           key' = [key EXCEPT ![t] = p], opening' = opening \cup {t},
           pending' = [pending EXCEPT ![p] = @ + 1]
    PROVE  PendCount' /\ pending' \in [Peer -> Int]
<1>1. \A u \in opening : key'[u] = key[u]
  BY DEF Types
<1>2. ASSUME NEW q \in Peer
      PROVE  pending'[q] = Cardinality(OpeningOf(q)') /\ pending'[q] <= MaxPending
  <2>0. /\ OpeningOf(q) \in SUBSET Thing /\ pending[q] = Cardinality(OpeningOf(q))
        /\ pending[q] <= MaxPending /\ t \notin OpeningOf(q)
    BY DEF OpeningOf, Types, PendCount
  <2>1. CASE q = p
    <3>1. OpeningOf(q)' = OpeningOf(q) \cup {t}
      BY <1>1, <2>1 DEF OpeningOf, Types
    <3>2. /\ Cardinality(OpeningOf(q) \cup {t}) = Cardinality(OpeningOf(q)) + 1
          /\ Cardinality(OpeningOf(q)) \in Nat
      BY <2>0, ThingsFinite, FS_AddElement
    <3>3. pending'[q] = pending[q] + 1
      BY <2>1 DEF Types
    <3> QED
      BY <2>0, <2>1, <3>1, <3>2, <3>3, BoundsAssumption
  <2>2. CASE q # p
    <3>1. OpeningOf(q)' = OpeningOf(q)
      BY <1>1, <2>2 DEF OpeningOf, Types
    <3>2. pending'[q] = pending[q]
      BY <2>2 DEF Types
    <3> QED
      BY <2>0, <3>1, <3>2
  <2> QED
    BY <2>1, <2>2
<1> QED
  BY <1>2 DEF PendCount, Types

-----------------------------------------------------------------------------
(* Steps of a thing's own goroutines.                                      *)

\* The step touches no other thing, and nothing of the endpoint.
Alone(t) ==
  /\ UNCHANGED <<now, timer, inst, insts, peers, owned>>
  /\ \A u \in Thing \ {t} :
       /\ at'[u] = at[u] /\ kind'[u] = kind[u] /\ in'[u] = in[u] /\ pub'[u] = pub[u]
       /\ addr'[u] = addr[u] /\ dst'[u] = dst[u] /\ key'[u] = key[u]
       /\ (u \in reg' <=> u \in reg) /\ (u \in closed' <=> u \in closed)
       /\ (u \in opening' <=> u \in opening)

(* What is true of the endpoint and of the other things stays true.        *)
LEMMA AloneKeeps ==
    ASSUME IInv, NEW t \in Thing, Alone(t), Local(t)'
    PROVE  Table' /\ Armed' /\ \A u \in Thing : Local(u)'
<1>1. Table' /\ Armed'
  BY DEF IInv, Table, Armed, InTime, Alone
<1>2. ASSUME NEW u \in Thing \ {t} PROVE Local(u)'
  <2>1. Local(u)
    BY DEF IInv
  <2> QED
    BY <2>1 DEF Alone, Local, Staged, Waits, Entitled, InTime, Live
<1> QED
  BY <1>1, <1>2

\* The step leaves what identifies the thing, its peer's key and the clock
\* alone, and registers nothing: it goes on or gives something back.
Onward(t, where) ==
  /\ GoTo(t, where)
  /\ UNCHANGED <<clockVars, peerVars, idVars, key>>
  /\ reg' \in {reg, reg \ {t}}
  /\ closed' \in {closed, closed \cup {t}}
  /\ Settle(t) \/ UNCHANGED pendVars

(* Such a step keeps everything but, perhaps, what is said of the stage.   *)
LEMMA OnwardKeeps ==
    ASSUME IInv, NEW t \in Thing, Onward(t, at'[t]), at[t] # "none", at'[t] # "queued",
           at'[t] \in {"none", "ended"} \cup FlowAt \cup ConnAt \cup DialAt, Staged(t)'
    PROVE  IInv'
<1>0. Local(t)
  BY DEF IInv
<1>1. RegCount'
  <2>1. reg' \subseteq reg /\ \A u \in reg' : key'[u] = key[u]
    BY DEF Onward
  <2> QED
    BY <2>1, RegShrinks DEF IInv
<1>2. PendCount' /\ pending' \in [Peer -> Int]
  <2>1. CASE Settle(t)
    BY <1>0, <2>1, PendSettles DEF IInv, Onward, Local, Staged
  <2>2. CASE UNCHANGED pendVars
    BY <2>2, PendStays DEF IInv, Onward, Types, pendVars
  <2> QED
    BY <2>1, <2>2 DEF Onward
<1>3. Types'
  <2>1. opening' \subseteq Thing
    BY DEF Onward, Settle, pendVars, IInv, Types
  <2> QED
    BY <1>2, <2>1 DEF Onward, GoTo, IInv, Types, clockVars, peerVars, idVars
<1>4. Alone(t)
  BY DEF Alone, Onward, GoTo, Settle, IInv, Types, clockVars, peerVars, idVars, pendVars
<1>5. Local(t)'
  BY <1>0 DEF Local, Waits, Entitled, InTime, Onward, clockVars, peerVars, idVars
<1>6. Table' /\ Armed' /\ \A u \in Thing : Local(u)'
  BY <1>4, <1>5, AloneKeeps
<1> QED
  BY <1>1, <1>2, <1>3, <1>6 DEF IInv

(* Flows: the record, the second check, the dial, the relay and the end.   *)
LEMMA FlowSteps ==
    ASSUME IInv, NEW t \in Thing, NEW ok \in BOOLEAN,
           \/ Recorded(t, ok) \/ Recheck(t) \/ FlowDialled(t, ok) \/ NoEndpoint(t)
           \/ RelayCut(t) \/ RelayOver(t) \/ EndFlow(t)
    PROVE  IInv'
<1>0. Local(t) /\ at \in [Thing -> {"none", "ended"} \cup FlowAt \cup ConnAt \cup DialAt]
  BY DEF IInv, Types
<1> USE <1>0 DEF Local, Staged, Live, FlowStages, DialStages, Unregistered, Onward, GoTo, Forget,
      Settle, trackVars, pendVars, idVars, peerVars, FlowAt, ConnAt, DialAt
<1>1. CASE Recorded(t, ok)
  <2>1. Onward(t, at'[t]) /\ at[t] # "none" /\ at'[t] \in {"recheck", "ended"} /\ Staged(t)'
    BY <1>1 DEF Recorded
  <2> QED
    BY <2>1, OnwardKeeps
<1>2. CASE Recheck(t)
  <2>1. Onward(t, at'[t]) /\ at[t] # "none" /\ at'[t] \in {"dial", "ended"} /\ Staged(t)'
    BY <1>2 DEF Recheck
  <2> QED
    BY <2>1, OnwardKeeps
<1>3. CASE FlowDialled(t, ok)
  <2>1. Onward(t, at'[t]) /\ at[t] # "none" /\ at'[t] \in {"relay", "end"} /\ Staged(t)'
    BY <1>3 DEF FlowDialled
  <2> QED
    BY <2>1, OnwardKeeps
<1>4. CASE NoEndpoint(t) \/ RelayCut(t) \/ RelayOver(t)
  <2>1. Onward(t, at'[t]) /\ at[t] # "none" /\ at'[t] = "end" /\ Staged(t)'
    BY <1>4 DEF NoEndpoint, RelayCut, RelayOver
  <2> QED
    BY <2>1, OnwardKeeps
<1>5. CASE EndFlow(t)
  <2>1. Onward(t, at'[t]) /\ at[t] # "none" /\ at'[t] = "ended" /\ Staged(t)'
    BY <1>5 DEF EndFlow
  <2> QED
    BY <2>1, OnwardKeeps
<1> QED
  BY <1>1, <1>2, <1>3, <1>4, <1>5

(* Connections and dials once they are registered, and a connection that   *)
(* is accepted.                                                            *)
LEMMA ConnSteps ==
    ASSUME IInv, NEW t \in Thing, NEW ok \in BOOLEAN,
           \/ Take(t) \/ SiteDialled(t, ok) \/ Confirm(t)
           \/ Release(t) \/ ReleaseEntry(t) \/ Cut(t)
    PROVE  IInv'
<1>0. Local(t) /\ at \in [Thing -> {"none", "ended"} \cup FlowAt \cup ConnAt \cup DialAt]
  BY DEF IInv, Types
<1> USE <1>0 DEF Local, Staged, Live, FlowStages, DialStages, Unregistered, Onward, GoTo, Forget,
      trackVars, pendVars, idVars, peerVars, FlowAt, ConnAt, DialAt
<1>1. CASE Take(t)
  <2>1. Onward(t, at'[t]) /\ at[t] # "none" /\ at'[t] \in {"taken", "ended"} /\ Staged(t)'
    BY <1>1 DEF Take
  <2> QED
    BY <2>1, OnwardKeeps
<1>2. CASE SiteDialled(t, ok)
  <2>1. Onward(t, at'[t]) /\ at[t] # "none" /\ at'[t] \in {"confirm", "releasing", "ended"} /\ Staged(t)'
    BY <1>2 DEF SiteDialled
  <2> QED
    BY <2>1, OnwardKeeps
<1>3. CASE Confirm(t)
  <2>1. Onward(t, at'[t]) /\ at[t] # "none" /\ at'[t] \in {"open", "ended"} /\ Staged(t)'
    BY <1>3 DEF Confirm
  <2> QED
    BY <2>1, OnwardKeeps
<1>4. CASE Release(t)
  <2>1. Onward(t, at'[t]) /\ at[t] # "none" /\ at'[t] = "releasing" /\ Staged(t)'
    BY <1>4 DEF Release
  <2> QED
    BY <2>1, OnwardKeeps
<1>5. CASE ReleaseEntry(t) \/ Cut(t)
  <2>1. Onward(t, at'[t]) /\ at[t] # "none" /\ at'[t] = "ended" /\ Staged(t)'
    BY <1>5 DEF ReleaseEntry, Cut
  <2> QED
    BY <2>1, OnwardKeeps
<1> QED
  BY <1>1, <1>2, <1>3, <1>4, <1>5

(* A thing is registered: it is entitled to be, and the budgets hold.      *)
LEMMA RegisterKeeps ==
    ASSUME IInv, NEW t \in Thing, NEW p \in Peer, NEW where \in FlowAt \cup ConnAt \cup DialAt,
           at[t] \in Unregistered, Room(p), Register(t, p), GoTo(t, where), where # "queued",
           UNCHANGED <<clockVars, peerVars, idVars>>,
           \/ UNCHANGED pendVars
           \/ /\ pending[p] < MaxPending
              /\ opening' = opening \cup {t}
              /\ pending' = [pending EXCEPT ![p] = @ + 1],
           Staged(t)', Entitled(t)'
    PROVE  IInv'
<1>0. Local(t) /\ t \notin reg /\ t \notin opening
  BY DEF IInv, Local, Staged, Unregistered
<1>1. RegCount'
  BY <1>0, RegGrows DEF IInv
<1>2. PendCount' /\ pending' \in [Peer -> Int] /\ opening' \subseteq Thing
  <2>1. CASE UNCHANGED pendVars
    <3>1. \A u \in opening : key'[u] = key[u]
      BY <1>0 DEF Register, IInv, Types
    <3> QED
      BY <2>1, <3>1, PendStays DEF IInv, Types, pendVars
  <2>2. CASE ~UNCHANGED pendVars
    BY <1>0, <2>2, PendGrows DEF IInv, Register, Types
  <2> QED
    BY <2>1, <2>2
<1>3. Types'
  BY <1>2 DEF Register, GoTo, IInv, Types, clockVars, peerVars, idVars
<1>4. Alone(t)
  BY DEF Alone, Register, GoTo, IInv, Types, clockVars, peerVars, idVars, pendVars
<1>5. Local(t)'
  <2>1. at'[t] # "queued"
    BY DEF GoTo, IInv, Types
  <2> QED
    BY <2>1 DEF Local, Waits
<1>6. Table' /\ Armed' /\ \A u \in Thing : Local(u)'
  BY <1>4, <1>5, AloneKeeps
<1> QED
  BY <1>1, <1>2, <1>3, <1>6 DEF IInv

(* A peer that is active now is one the timer knows of.                    *)
LEMMA ActiveInTime ==
    ASSUME IInv, NEW p \in Peer, peers[p] # NoPeer, Active(peers[p])
    PROVE  peers[p].until = 0 \/ InTime(peers[p])
  BY DEF IInv, Armed, Active

(* admitFlow's first step: a flow is registered under the peer whose       *)
(* packet it was.                                                          *)
LEMMA DecideKeeps ==
    ASSUME IInv, NEW t \in Thing, Decide(t)
    PROVE  IInv'
<1>0. Local(t) /\ at[t] = "queued" /\ kind[t] = "flow" /\ inst \in Nat
      /\ at \in [Thing -> {"none", "ended"} \cup FlowAt \cup ConnAt \cup DialAt]
  BY DEF IInv, Types, Decide
<1>1. CASE GoTo(t, "ended") /\ UNCHANGED <<trackVars, pendVars>>
  <2>1. Onward(t, at'[t]) /\ at[t] # "none" /\ at'[t] = "ended" /\ Staged(t)'
    BY <1>0, <1>1 DEF Decide, Onward, GoTo, Local, Staged, Live, FlowStages, DialStages, Unregistered,
         trackVars, pendVars, idVars, peerVars
  <2> QED
    BY <2>1, OnwardKeeps
<1>2. ASSUME NEW p \in Peer, inst = in[t], MayOpen(t, p), Register(t, p),
             opening' = opening \cup {t}, pending' = [pending EXCEPT ![p] = @ + 1],
             GoTo(t, "record")
      PROVE  IInv'
  <2>1. /\ peers[p] # NoPeer /\ Active(peers[p]) /\ addr[t] \in peers[p].owns
        /\ ~peers[p].site /\ dst[t] \in peers[p].dsts /\ Room(p) /\ pending[p] < MaxPending
    BY <1>2 DEF MayOpen, PeersByAddr
  <2>2. inst # 0 /\ peers \in Configs /\ owned[addr[t]] = p
    BY <2>1 DEF IInv, Table, Absent
  <2>3. peers[p].pub = pub[t]
    BY <1>0, <1>2, <2>1, <2>2 DEF Local, Waits
  <2>4. peers[p].until = 0 \/ InTime(peers[p])
    BY <2>1, ActiveInTime
  <2>5. /\ key'[t] = p /\ at'[t] = "record" /\ t \in reg'
        /\ UNCHANGED <<clockVars, peerVars, idVars, closed>>
    BY <1>2, <1>0 DEF Register, GoTo, IInv, Types, Decide
  <2>6. Entitled(t)'
    BY <1>0, <1>2, <2>1, <2>2, <2>3, <2>4, <2>5 DEF Entitled, InTime, clockVars, peerVars, idVars
  <2>7. Staged(t)'
    BY <1>0, <2>5 DEF Local, Staged, Live, FlowStages, DialStages, Unregistered, idVars, peerVars
  <2> QED
    BY <1>0, <1>2, <2>1, <2>5, <2>6, <2>7, RegisterKeeps DEF FlowAt, Unregistered
<1> QED
  BY <1>1, <1>2 DEF Decide

(* peerListener.Accept: a connection is registered under the peer that has *)
(* its address now.                                                        *)
LEMMA AttributeKeeps ==
    ASSUME IInv, NEW t \in Thing, Attribute(t)
    PROVE  IInv'
<1>0. Local(t) /\ at[t] = "taken"
      /\ at \in [Thing -> {"none", "ended"} \cup FlowAt \cup ConnAt \cup DialAt]
  BY DEF IInv, Types, Attribute
<1>1. CASE GoTo(t, "ended") /\ UNCHANGED trackVars
  <2>1. Onward(t, at'[t]) /\ at[t] # "none" /\ at'[t] = "ended" /\ Staged(t)'
    BY <1>0, <1>1 DEF Attribute, Onward, GoTo, Local, Staged, Live, FlowStages, DialStages, Unregistered,
         trackVars, pendVars, idVars, peerVars
  <2> QED
    BY <2>1, OnwardKeeps
<1>2. ASSUME NEW p \in PeersByAddr(addr[t]), Room(p), Register(t, p), GoTo(t, "open")
      PROVE  IInv'
  <2>1. p \in Peer /\ peers[p] # NoPeer /\ Active(peers[p])
    BY DEF PeersByAddr
  <2>2. inst # 0
    BY <2>1 DEF IInv, Table, Absent
  <2>3. peers[p].until = 0 \/ InTime(peers[p])
    BY <2>1, ActiveInTime
  <2>4. /\ key'[t] = p /\ at'[t] = "open" /\ t \in reg' /\ kind[t] = "conn"
        /\ UNCHANGED <<clockVars, peerVars, idVars, closed, pendVars>>
    BY <1>2, <1>0 DEF Register, GoTo, IInv, Types, Attribute, Local, Staged
  <2>5. Entitled(t)'
    BY <1>2, <2>1, <2>2, <2>3, <2>4 DEF Entitled, InTime, clockVars, peerVars, idVars
  <2>6. Staged(t)'
    BY <1>0, <2>4 DEF Local, Staged, Live, FlowStages, DialStages, Unregistered, idVars, peerVars, pendVars
  <2> QED
    BY <1>0, <1>2, <2>1, <2>4, <2>5, <2>6, RegisterKeeps DEF ConnAt, Unregistered
<1> QED
  BY <1>1, <1>2 DEF Attribute

(* DialContext: the attempt is registered while the site is the same.      *)
LEMMA RegisterDialKeeps ==
    ASSUME IInv, NEW t \in Thing, RegisterDial(t)
    PROVE  IInv'
<1>0. Local(t) /\ at[t] = "looked" /\ key[t] \in Peer /\ kind[t] = "dial"
      /\ at \in [Thing -> {"none", "ended"} \cup FlowAt \cup ConnAt \cup DialAt]
  BY DEF IInv, Types, RegisterDial, Local, Staged, DialStages
<1>1. CASE GoTo(t, "ended") /\ UNCHANGED trackVars
  <2>1. Onward(t, at'[t]) /\ at[t] # "none" /\ at'[t] = "ended" /\ Staged(t)'
    BY <1>0, <1>1 DEF RegisterDial, Onward, GoTo, Local, Staged, Live, FlowStages, DialStages, Unregistered,
         trackVars, pendVars, idVars, peerVars
  <2> QED
    BY <2>1, OnwardKeeps
<1>2. ASSUME SameSite(t), Room(key[t]), Register(t, key[t]), GoTo(t, "dialling")
      PROVE  IInv'
  <2>1. peers[key[t]] # NoPeer /\ inst # 0 /\ inst = in[t] /\ peers[key[t]].pub = pub[t]
    BY <1>0, <1>2 DEF SameSite, IInv, Table, Absent
  <2>2. peers[key[t]].until = 0 \/ InTime(peers[key[t]])
    <3>1. peers \in Configs /\ peers[key[t]].site
      BY <1>0, <2>1 DEF IInv, Table, Local, Staged
    <3> QED
      BY <1>0, <2>1, <3>1, ConfigAssumption
  <2>4. /\ key'[t] = key[t] /\ at'[t] = "dialling" /\ t \in reg'
        /\ UNCHANGED <<clockVars, peerVars, idVars, closed, pendVars>>
    BY <1>2, <1>0 DEF Register, GoTo, IInv, Types, RegisterDial
  <2>5. Entitled(t)'
    BY <1>0, <2>1, <2>2, <2>4 DEF Entitled, InTime, clockVars, peerVars, idVars
  <2>6. Staged(t)'
    BY <1>0, <2>4 DEF Local, Staged, Live, FlowStages, DialStages, Unregistered, idVars, peerVars, pendVars
  <2> QED
    BY <1>0, <1>2, <2>4, <2>5, <2>6, RegisterKeeps DEF DialAt, Unregistered
<1> QED
  BY <1>1, <1>2 DEF RegisterDial

(* A packet comes in from the tunnel: its address is its peer's now.       *)
LEMMA ArriveKeeps ==
    ASSUME IInv, NEW t \in Thing, NEW p \in Peer, NEW what \in {"flow", "conn"},
           NEW a \in Addr, NEW d \in Dst, Arrive(t, p, what, a, d)
    PROVE  IInv'
<1>0. /\ Local(t) /\ at[t] = "none" /\ inst # 0 /\ peers[p] # NoPeer /\ a \in peers[p].owns
      /\ peers \in Configs /\ peers[p] \in Settings /\ owned[a] = p
  BY DEF IInv, Types, Arrive, Table
<1>1. Types'
  BY <1>0 DEF Arrive, GoTo, IInv, Types, Settings, clockVars, peerVars, trackVars, pendVars, FlowAt
<1>2. Alone(t)
  BY DEF Alone, Arrive, GoTo, IInv, Types, clockVars, peerVars, trackVars, pendVars
<1>3. /\ at'[t] = "queued" /\ kind'[t] = what /\ in'[t] = inst /\ pub'[t] = peers[p].pub
      /\ addr'[t] = a /\ UNCHANGED <<clockVars, peerVars, trackVars, pendVars>>
  BY DEF Arrive, GoTo, IInv, Types
<1>4. ASSUME NEW c \in Configs, c[p] # NoPeer, ~c[p].site PROVE c[p].pub = peers[p].pub
  BY <1>0, <1>4, ConfigAssumption
<1>5. Staged(t)'
  BY <1>0, <1>3 DEF Local, Staged, Live, FlowStages, DialStages, Unregistered, IInv, Table, Types,
       peerVars, trackVars, pendVars
<1>6. Waits(t)'
  BY <1>0, <1>3, <1>4 DEF Waits, peerVars
<1>7. Entitled(t)'
  BY <1>0, <1>3 DEF Local, Staged, Unregistered, Entitled, trackVars
<1>8. RegCount' /\ PendCount'
  BY <1>3, RegShrinks, PendStays DEF IInv, trackVars
<1> QED
  BY <1>1, <1>2, <1>5, <1>6, <1>7, <1>8, AloneKeeps DEF IInv, Local

(* DialContext looks a site up.                                            *)
LEMMA LookKeeps ==
    ASSUME IInv, NEW t \in Thing, NEW p \in Peer, Look(t, p)
    PROVE  IInv'
<1>0. /\ Local(t) /\ at[t] = "none" /\ inst # 0 /\ peers[p] # NoPeer /\ peers[p].site
      /\ peers \in Configs /\ peers[p] \in Settings /\ t \notin reg /\ t \notin opening
  BY DEF IInv, Types, Look, Table, Local, Staged, Unregistered
<1>1. Types'
  BY <1>0 DEF Look, GoTo, IInv, Types, Settings, clockVars, peerVars, trackVars, pendVars, DialAt
<1>2. Alone(t)
  BY DEF Alone, Look, GoTo, IInv, Types, clockVars, peerVars, pendVars
<1>3. /\ at'[t] = "looked" /\ kind'[t] = "dial" /\ in'[t] = inst /\ key'[t] = p
      /\ UNCHANGED <<clockVars, peerVars, reg, closed, pendVars>>
      /\ \A u \in Thing \ {t} : key'[u] = key[u]
  BY DEF Look, GoTo, IInv, Types
<1>4. ASSUME NEW c \in Configs, c[p] # NoPeer PROVE c[p].site
  BY <1>0, <1>4, ConfigAssumption
<1>5. Staged(t)'
  BY <1>0, <1>3, <1>4 DEF Local, Staged, Live, FlowStages, DialStages, Unregistered, IInv, Table, Types,
       peerVars, pendVars
<1>6. Waits(t)' /\ Entitled(t)'
  BY <1>0, <1>3 DEF Waits, Entitled
<1>7. RegCount' /\ PendCount'
  BY <1>0, <1>3, RegShrinks, PendStays DEF IInv, Types
<1> QED
  BY <1>1, <1>2, <1>5, <1>6, <1>7, AloneKeeps DEF IInv, Local

-----------------------------------------------------------------------------
(* Steps of the manager: they only close things.                           *)
LEMMA CloseKeeps ==
    ASSUME IInv, NEW ts \in SUBSET reg, CloseThings(ts), UNCHANGED <<at, idVars, key, pendVars>>,
           insts' >= insts, insts' \in Nat
    PROVE  /\ \A t \in Thing : Staged(t)'
           /\ RegCount' /\ PendCount'
           /\ reg' \subseteq Thing /\ closed' \subseteq Thing
<1>1. ASSUME NEW t \in Thing PROVE Staged(t)'
  <2>1. Local(t) /\ in[t] \in Nat /\ insts \in Nat
    BY DEF IInv, Types
  <2> QED
    BY <2>1 DEF Local, Staged, Live, CloseThings, idVars, pendVars, FlowStages, DialStages, Unregistered
<1>2. RegCount' /\ PendCount'
  BY RegShrinks, PendStays DEF IInv, CloseThings
<1> QED
  BY <1>1, <1>2 DEF CloseThings, IInv, Types

(* The clock and the timer.                                                *)
LEMMA TimeKeeps ==
    ASSUME IInv, Tick \/ TimerFires \/ Expire
    PROVE  IInv'
<1>1. CASE Tick
  <2>1. Types'
    BY <1>1, BoundsAssumption DEF IInv, Types, Tick, peerVars, idVars, trackVars, pendVars
  <2>2. Table' /\ RegCount' /\ PendCount'
    BY <1>1, RegShrinks, PendStays DEF IInv, Table, Tick, peerVars, trackVars
  <2>3. Armed'
    BY <1>1 DEF IInv, Types, Settings, Armed, InTime, Tick, peerVars
  <2>4. ASSUME NEW t \in Thing PROVE Local(t)'
    <3>1. Local(t)
      BY DEF IInv
    <3> QED
      BY <1>1, <3>1 DEF Local, Staged, Waits, Entitled, InTime, Live, Tick, peerVars, idVars, trackVars, pendVars
  <2> QED
    BY <2>1, <2>2, <2>3, <2>4 DEF IInv
<1>2. CASE TimerFires
  <2>1. Types'
    BY <1>2 DEF IInv, Types, TimerFires, peerVars, idVars, trackVars, pendVars
  <2>2. Table' /\ Armed' /\ RegCount' /\ PendCount'
    BY <1>2, RegShrinks, PendStays DEF IInv, Table, Armed, InTime, TimerFires, peerVars, trackVars
  <2>3. ASSUME NEW t \in Thing PROVE Local(t)'
    <3>1. Local(t)
      BY DEF IInv
    <3> QED
      BY <1>2, <3>1 DEF Local, Staged, Waits, Entitled, InTime, Live, TimerFires, peerVars, idVars, trackVars,
           pendVars
  <2> QED
    BY <2>1, <2>2, <2>3 DEF IInv
<1>3. CASE Expire
  <2> DEFINE ts == {t \in reg : ~Active(peers[key[t]])}
  <2>1. /\ CloseThings(ts) /\ timer' = NextExpiry(peers) /\ now \in Nat /\ fired' = FALSE
        /\ UNCHANGED <<now, peerVars, at, idVars, key, pendVars>> /\ insts \in Nat
    BY <1>3 DEF Expire, IInv, Types
  <2>2. (\A t \in Thing : Staged(t)') /\ RegCount' /\ PendCount' /\ reg' \subseteq Thing /\ closed' \subseteq Thing
    BY <2>1, CloseKeeps DEF peerVars
  <2>3. /\ timer' \in Nat
        /\ \A p \in Peer : peers[p] # NoPeer /\ peers[p].until # 0 /\ now < peers[p].until
             => timer' # 0 /\ timer' <= peers[p].until
    BY <2>1, NextExpiryIsFirst DEF IInv, Types
  <2>4. Types'
    BY <2>1, <2>2, <2>3 DEF IInv, Types, peerVars, idVars, pendVars
  <2>5. Table' /\ Armed'
    BY <2>1, <2>3 DEF IInv, Table, Armed, InTime, peerVars
  <2>6. ASSUME NEW t \in Thing PROVE Waits(t)' /\ Entitled(t)'
    <3>1. Local(t)
      BY DEF IInv
    <3>2. Waits(t)'
      BY <2>1, <3>1 DEF Local, Waits, peerVars, idVars
    <3>3. ASSUME t \in reg' PROVE t \in reg /\ Active(peers[key[t]])
      BY <2>1, <3>3 DEF CloseThings
    <3>4. Entitled(t)'
      BY <2>1, <2>3, <3>1, <3>3 DEF Local, Entitled, InTime, Active, peerVars, idVars
    <3> QED
      BY <3>2, <3>4
  <2> QED
    BY <2>2, <2>4, <2>5, <2>6 DEF IInv, Local
<1> QED
  BY <1>1, <1>2, <1>3

(* Apply cannot go on, or the endpoint is switched off.                    *)
LEMMA DownKeeps ==
    ASSUME IInv, Down
    PROVE  IInv'
<1>1. /\ CloseThings(reg) /\ inst' = 0 /\ peers' = Absent /\ owned' = [a \in Addr |-> NoPeer] /\ timer' = 0
      /\ UNCHANGED <<now, fired, insts, at, idVars, key, pendVars>> /\ insts \in Nat
  BY DEF Down, StopLocked, IInv, Types
<1>2. (\A t \in Thing : Staged(t)') /\ RegCount' /\ PendCount' /\ closed' \subseteq Thing /\ reg' = {}
  BY <1>1, CloseKeeps DEF CloseThings
<1>3. Types'
  <2>1. peers' \in [Peer -> Settings \cup {NoPeer}] /\ owned' \in [Addr -> Peer \cup {NoPeer}]
    BY <1>1 DEF Absent
  <2>2. 0 \in 0..MaxInst /\ 0 \in Nat /\ reg' \subseteq Thing
    BY <1>2, BoundsAssumption
  <2> QED
    BY <1>1, <1>2, <2>1, <2>2 DEF IInv, Types, idVars, pendVars
<1>4. Table' /\ Armed'
  <2>1. \A p \in Peer : peers'[p] = NoPeer
    BY <1>1 DEF Absent
  <2> QED
    BY <1>1, <2>1 DEF Table, Armed, Absent
<1>5. ASSUME NEW t \in Thing PROVE Waits(t)' /\ Entitled(t)'
  BY <1>1, <1>2 DEF Waits, Entitled
<1> QED
  BY <1>2, <1>3, <1>4, <1>5 DEF IInv, Local

(* What Apply leaves in the table of owners: the configured addresses are  *)
(* their peers', and in an instance that is kept no address changes hands. *)
LEMMA ApplyOwners ==
    ASSUME IInv, NEW c \in Configs, NEW server \in BOOLEAN, Apply(c, server)
    PROVE  /\ owned' \in [Addr -> Peer \cup {NoPeer}]
           /\ \A p \in Peer : c[p] # NoPeer => \A a \in c[p].owns : owned'[a] = p
           /\ (inst # 0 /\ ~server /\ ~NeedsReset(c))
                => \A a \in Addr : owned[a] # NoPeer => owned'[a] = owned[a]
<1> DEFINE Has(p, a) == c[p] # NoPeer /\ a \in c[p].owns
           fresh == inst = 0 \/ (inst # 0 /\ (server \/ NeedsReset(c)))
<1>0. c \in [Peer -> Settings \cup {NoPeer}]
  BY ConfigAssumption
<1>1. owned' = [a \in Addr |-> IF \E p \in Peer : Has(p, a) THEN CHOOSE p \in Peer : Has(p, a)
                               ELSE IF fresh THEN NoPeer ELSE owned[a]]
  BY DEF Apply
<1>2. ASSUME NEW a \in Addr, NEW p \in Peer, Has(p, a) PROVE owned'[a] = p
  <2>1. \A q \in Peer : Has(q, a) => q = p
    BY <1>2, ConfigAssumption
  <2>2. (CHOOSE q \in Peer : Has(q, a)) = p
    BY <1>2, <2>1
  <2> QED
    BY <1>1, <1>2, <2>2
<1>3. ASSUME NEW a \in Addr PROVE owned'[a] \in Peer \cup {NoPeer}
  <2>1. CASE \E p \in Peer : Has(p, a)
    BY <1>2, <2>1
  <2>2. CASE ~\E p \in Peer : Has(p, a)
    BY <1>1, <2>2 DEF IInv, Types
  <2> QED
    BY <2>1, <2>2
<1>4. owned' \in [Addr -> Peer \cup {NoPeer}]
  <2>1. owned' = [a \in Addr |-> owned'[a]]
    BY <1>1
  <2> QED
    BY <1>3, <2>1
<1>5. ASSUME NEW p \in Peer, c[p] # NoPeer, NEW a \in c[p].owns PROVE owned'[a] = p
  <2>1. a \in Addr
    BY <1>0, <1>5 DEF Settings
  <2> QED
    BY <1>2, <1>5, <2>1
<1>6. ASSUME inst # 0, ~server, ~NeedsReset(c), NEW a \in Addr, owned[a] # NoPeer
      PROVE  owned'[a] = owned[a]
  <2>1. CASE \E p \in Peer : Has(p, a)
    <3>1. PICK p \in Peer : Has(p, a)
      BY <2>1
    <3>2. owned[a] \in {p, NoPeer}
      BY <1>6, <3>1 DEF NeedsReset
    <3> QED
      BY <1>2, <1>6, <3>1, <3>2
  <2>2. CASE ~\E p \in Peer : Has(p, a)
    BY <1>1, <1>6, <2>2
  <2> QED
    BY <2>1, <2>2
<1> QED
  BY <1>4, <1>5, <1>6

(* Apply closes what the new configuration does not allow, and arms the    *)
(* timer for it.                                                           *)
LEMMA ApplyKeeps ==
    ASSUME IInv, NEW c \in Configs, NEW server \in BOOLEAN, Apply(c, server)
    PROVE  IInv'
<1> DEFINE reset == inst # 0 /\ (server \/ NeedsReset(c))
           fresh == inst = 0 \/ reset
           gone == {t \in reg : reset \/ c[key[t]] = NoPeer \/ ~Active(c[key[t]]) \/ Disallowed(c, t)}
<1>0. c \in [Peer -> Settings \cup {NoPeer}] /\ now \in Nat /\ insts \in Nat /\ inst \in Nat
  BY ConfigAssumption DEF IInv, Types
<1>1. /\ CloseThings(gone) /\ gone \in SUBSET reg
      /\ insts' = (IF fresh THEN insts + 1 ELSE insts) /\ inst' = insts' /\ peers' = c
      /\ fresh => insts < MaxInst
      /\ timer' = NextExpiry(c)
      /\ UNCHANGED <<now, fired, at, idVars, key, pendVars>>
  BY DEF Apply
<1>2. insts' \in 0..MaxInst /\ insts' >= insts /\ insts' \in Nat
  BY <1>0, <1>1, BoundsAssumption DEF IInv, Types
<1>3. (\A t \in Thing : Staged(t)') /\ RegCount' /\ PendCount' /\ reg' \subseteq Thing /\ closed' \subseteq Thing
  BY <1>1, <1>2, CloseKeeps
<1>4. /\ timer' \in Nat
      /\ \A p \in Peer : c[p] # NoPeer /\ c[p].until # 0 /\ now < c[p].until
           => timer' # 0 /\ timer' <= c[p].until
  BY <1>0, <1>1, NextExpiryIsFirst
<1>5. /\ owned' \in [Addr -> Peer \cup {NoPeer}]
      /\ \A p \in Peer : c[p] # NoPeer => \A a \in c[p].owns : owned'[a] = p
      /\ ~fresh => \A a \in Addr : owned[a] # NoPeer => owned'[a] = owned[a]
  BY ApplyOwners
<1>6. Types'
  BY <1>0, <1>1, <1>2, <1>3, <1>4, <1>5 DEF IInv, Types, idVars, pendVars
<1>7. inst' # 0
  BY <1>0, <1>1 DEF IInv, Table
<1>8. Table' /\ Armed'
  BY <1>1, <1>4, <1>5, <1>7 DEF Table, Armed, InTime
<1>9. ASSUME NEW t \in Thing PROVE Waits(t)'
  <2>0. Local(t) /\ in[t] \in Nat /\ addr[t] \in Addr
    BY DEF IInv, Types
  <2>1. CASE fresh
    <3>1. in'[t] # inst'
      BY <1>0, <1>1, <2>0, <2>1 DEF Local, Staged, idVars
    <3> QED
      BY <3>1 DEF Waits
  <2>2. CASE ~fresh
    <3>1. inst' = inst /\ inst # 0
      BY <1>0, <1>1, <2>2 DEF IInv, Table
    <3>2. owned[addr[t]] \in Peer => owned'[addr[t]] = owned[addr[t]]
      BY <1>5, <2>0, <2>2, ConfigAssumption
    <3> QED
      BY <1>1, <2>0, <3>1, <3>2 DEF Local, Waits, idVars
  <2> QED
    BY <2>1, <2>2
<1>10. ASSUME NEW t \in Thing PROVE Entitled(t)'
  <2> SUFFICES ASSUME t \in reg' PROVE Entitled(t)'
    BY DEF Entitled
  <2>0. Local(t) /\ t \in reg /\ t \notin gone
    BY <1>1 DEF IInv, CloseThings
  <2>1. /\ key[t] \in Peer /\ inst # 0 /\ ~reset /\ c[key[t]] # NoPeer /\ Active(c[key[t]])
        /\ ~Disallowed(c, t) /\ peers[key[t]] # NoPeer
    BY <2>0 DEF Local, Entitled
  <2>2. c[key[t]].until = 0 \/ (timer' # 0 /\ timer' <= c[key[t]].until)
    BY <1>4, <2>1 DEF Active
  <2>3. inst' = inst
    BY <1>1, <2>1 DEF IInv, Table
  <2>4. peers[key[t]].pub = c[key[t]].pub
    BY <2>1 DEF NeedsReset
  <2>5. kind[t] = "flow" => dst[t] \in c[key[t]].dsts
    BY <2>1 DEF Disallowed
  <2> QED
    BY <1>1, <2>0, <2>1, <2>2, <2>3, <2>4, <2>5 DEF Local, Entitled, InTime, idVars
<1> QED
  BY <1>3, <1>6, <1>8, <1>9, <1>10 DEF IInv, Local

-----------------------------------------------------------------------------
LEMMA InitIInv == Init => IInv
<1> SUFFICES ASSUME Init PROVE IInv
  OBVIOUS
<1>1. Types
  <2>1. /\ (CHOOSE k \in Pub : TRUE) \in Pub /\ (CHOOSE a \in Addr : TRUE) \in Addr
        /\ (CHOOSE d \in Dst : TRUE) \in Dst
    BY BoundsAssumption
  <2>2. peers \in [Peer -> Settings \cup {NoPeer}] /\ owned \in [Addr -> Peer \cup {NoPeer}]
    BY DEF Init, Absent
  <2>3. pub \in [Thing -> Pub] /\ addr \in [Thing -> Addr] /\ dst \in [Thing -> Dst]
    BY <2>1 DEF Init
  <2>4. now \in 0..MaxTime /\ inst \in 0..MaxInst /\ insts \in 0..MaxInst
    BY BoundsAssumption DEF Init
  <2>5. in \in [Thing -> 0..MaxInst] /\ pending \in [Peer -> Int]
    BY BoundsAssumption DEF Init
  <2>6. /\ at \in [Thing -> {"none", "ended"} \cup FlowAt \cup ConnAt \cup DialAt]
        /\ kind \in [Thing -> {"flow", "conn", "dial"}] /\ key \in [Thing -> Peer \cup {NoPeer}]
    BY DEF Init
  <2> QED
    BY <2>2, <2>3, <2>4, <2>5, <2>6 DEF Init, Types
<1>2. Table /\ Armed
  <2>1. \A p \in Peer : peers[p] = NoPeer
    BY DEF Init, Absent
  <2> QED
    BY <2>1 DEF Init, Table, Armed
<1>3. ASSUME NEW t \in Thing PROVE Local(t)
  BY DEF Init, Local, Staged, Waits, Entitled, Live, FlowStages, DialStages, Unregistered
<1>4. RegCount /\ PendCount
  <2>1. reg = {} /\ opening = {} /\ \A p \in Peer : Held(p) = {} /\ OpeningOf(p) = {} /\ pending[p] = 0
    BY DEF Init, Held, OpeningOf
  <2> QED
    BY <2>1, FS_EmptySet, BoundsAssumption DEF RegCount, PendCount
<1> QED
  BY <1>1, <1>2, <1>3, <1>4 DEF IInv

(* No step of the manager, a flow, a connection or a dial breaks IInv.     *)
LEMMA StepIInv == IInv /\ [Next]_vars => IInv'
<1> SUFFICES ASSUME IInv, [Next]_vars PROVE IInv'
  OBVIOUS
<1>1. CASE Tick \/ TimerFires \/ Expire
  BY <1>1, TimeKeeps
<1>2. ASSUME NEW c \in Configs, NEW server \in BOOLEAN, Apply(c, server) PROVE IInv'
  BY <1>2, ApplyKeeps
<1>3. CASE Down
  BY <1>3, DownKeeps
<1>4. ASSUME NEW t \in Thing, Progress(t) PROVE IInv'
  BY <1>4, FlowSteps, ConnSteps, DecideKeeps, AttributeKeeps, RegisterDialKeeps DEF Progress
<1>5. ASSUME NEW t \in Thing, RelayOver(t) \/ Release(t) PROVE IInv'
  BY <1>5, FlowSteps, ConnSteps
<1>6. ASSUME NEW t \in Thing, NEW p \in Peer, Look(t, p) PROVE IInv'
  BY <1>6, LookKeeps
<1>7. ASSUME NEW t \in Thing, NEW p \in Peer, NEW a \in Addr, NEW d \in Dst, Arrive(t, p, "flow", a, d)
      PROVE  IInv'
  BY <1>7, ArriveKeeps
<1>8. ASSUME NEW t \in Thing, NEW p \in Peer, NEW a \in Addr, Arrive(t, p, "conn", a, CHOOSE d \in Dst : TRUE)
      PROVE  IInv'
  <2>1. (CHOOSE d \in Dst : TRUE) \in Dst
    BY BoundsAssumption
  <2> QED
    BY <1>8, <2>1, ArriveKeeps
<1>9. CASE UNCHANGED vars
  <2>1. Types' /\ Table' /\ Armed'
    BY <1>9 DEF IInv, Types, Table, Armed, InTime, vars, clockVars, peerVars, idVars, trackVars, pendVars
  <2>2. RegCount' /\ PendCount'
    BY <1>9, RegShrinks, PendStays DEF IInv, vars, trackVars, pendVars
  <2>3. ASSUME NEW t \in Thing PROVE Local(t)'
    <3>1. Local(t)
      BY DEF IInv
    <3> QED
      BY <1>9, <3>1 DEF Local, Staged, Waits, Entitled, InTime, Live, vars, clockVars, peerVars, idVars,
           trackVars, pendVars
  <2> QED
    BY <2>1, <2>2, <2>3 DEF IInv
<1> QED
  BY <1>1, <1>2, <1>3, <1>4, <1>5, <1>6, <1>7, <1>8, <1>9 DEF Next

LEMMA Invariance == Spec => []IInv
BY InitIInv, StepIInv, PTL DEF Spec

-----------------------------------------------------------------------------
(* The type invariant: whatever is registered is registered under a peer,  *)
(* and no pending count is given back twice.                               *)
THEOREM TypeCorrect == Spec => []TypeOK
<1>1. IInv => TypeOK
  <2> SUFFICES ASSUME IInv PROVE TypeOK
    OBVIOUS
  <2>1. ASSUME NEW p \in Peer PROVE pending[p] \in Nat
    BY ThingsFinite DEF IInv, PendCount, OpeningOf, Types
  <2>2. pending \in [Peer -> Nat]
    BY <2>1 DEF IInv, Types
  <2>3. \A t \in reg : t \in Thing /\ key[t] # NoPeer
    BY ConfigAssumption DEF IInv, Types, Local, Entitled
  <2> QED
    BY <2>2, <2>3 DEF IInv, Types, TypeOK
<1> QED
  BY <1>1, Invariance, PTL

(* A flow or a dial that may carry bytes is registered in the running      *)
(* instance, under the very peer whose packet it was or whose site it      *)
(* looked up, and a flow goes where the applied configuration lets that    *)
(* device go: for any configurations in any order.                         *)
THEOREM OpenIsAuthorizedHolds == Spec => []OpenIsAuthorized
<1>1. IInv => OpenIsAuthorized
  BY DEF IInv, OpenIsAuthorized, Local, Staged, Entitled
<1> QED
  BY <1>1, Invariance, PTL

(* Once the due expiry timer has run, nothing of a device whose            *)
(* authorization has ended is registered.                                  *)
THEOREM ExpiredHaveNothingHolds == Spec => []ExpiredHaveNothing
<1>1. IInv => ExpiredHaveNothing
  <2> SUFFICES ASSUME IInv, timer = 0 \/ now < timer, NEW t \in reg PROVE Active(peers[key[t]])
    BY DEF ExpiredHaveNothing
  <2>1. t \in Thing /\ Entitled(t) /\ now \in Nat /\ timer \in Nat
    BY DEF IInv, Types, Local
  <2>2. key[t] \in Peer /\ peers[key[t]] \in Settings
    BY <2>1 DEF Entitled, IInv, Types
  <2> QED
    BY <2>1, <2>2 DEF Entitled, InTime, Active, Settings
<1> QED
  BY <1>1, Invariance, PTL

(* The budgets hold, and the pending counts are exact, on every way out of *)
(* an admission.                                                           *)
THEOREM BudgetsHold == Spec => []Budgets
<1>1. IInv => Budgets
  BY DEF IInv, Budgets, RegCount, PendCount, OpeningOf, Local, Staged, Unregistered, Types
<1> QED
  BY <1>1, Invariance, PTL

(* No address changes its owner inside a running instance of the stack.    *)
THEOREM AddressKeepsOwnerHolds == Spec => AddressKeepsOwner
<1> DEFINE Keeps == inst' = inst => \A a \in Addr : owned[a] # NoPeer => owned'[a] = owned[a]
<1>1. IInv /\ [Next]_vars => [Keeps]_vars
  <2> SUFFICES ASSUME IInv, Next, inst' = inst, NEW a \in Addr, owned[a] # NoPeer
               PROVE  owned'[a] = owned[a]
    BY DEF vars
  <2>1. ASSUME NEW c \in Configs, NEW server \in BOOLEAN, Apply(c, server) PROVE owned'[a] = owned[a]
    <3>1. inst # 0 /\ ~server /\ ~NeedsReset(c)
      BY <2>1 DEF Apply, IInv, Table, Types
    <3> QED
      BY <2>1, <3>1, ApplyOwners
  <2>2. CASE Down
    BY <2>2 DEF Down, StopLocked
  <2>3. CASE ~Down /\ ~\E c \in Configs, server \in BOOLEAN : Apply(c, server)
    <3>1. UNCHANGED owned
      BY <2>3 DEF Next, Progress, Tick, TimerFires, Expire, Arrive, Look, Decide, Recorded, Recheck,
           FlowDialled, NoEndpoint, RelayCut, RelayOver, EndFlow, Take, Attribute, RegisterDial,
           SiteDialled, Confirm, Release, ReleaseEntry, Cut, peerVars
    <3> QED
      BY <3>1
  <2> QED
    BY <2>1, <2>2, <2>3
<1> QED
  BY <1>1, Invariance, PTL DEF Spec, AddressKeepsOwner
=============================================================================
