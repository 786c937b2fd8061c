------------------------------ MODULE UdpAdmit ------------------------------
(***************************************************************************)
(* How the first datagram of a forwarded UDP flow reaches an admission:    *)
(* udpAdmitter, forwardUDP, udpWorker, admitUDP and the deny cache in      *)
(* internal/wg/forward.go.  The receive path must not wait: it drops a     *)
(* flow that was refused lately and queues any other for a worker, once at *)
(* a time and within the share of its source.  Every stack instance has an *)
(* admitter and workers of its own; the deny cache is the manager's, and   *)
(* Apply empties it.                                                       *)
(*                                                                         *)
(* A step is one section under udpAdmitter.mu, denyMu or m.mu.  What the   *)
(* manager does with a flow that was admitted is module WgManager.         *)
(***************************************************************************)
EXTENDS Naturals, FiniteSets, Sequences, SequencesExt

CONSTANTS
  Flow,       \* flowKey: the 4-tuples
  Src,        \* source addresses
  SrcOf,      \* the source address of a flow
  NoFlow,
  Policies,   \* configurations: each the flows that it allows
  Worker,     \* the workers of an instance (udpAdmitWorkers)
  PerSource,  \* udpAdmitPerSource
  QueueLen,   \* udpAdmitQueue
  CacheMax,   \* denyCacheMax
  DenyFor,    \* denyCacheFor, in ticks
  MaxInst     \* bound: stack instances

AdmitAssumption ==
  /\ SrcOf \in [Flow -> Src] /\ NoFlow \notin Flow
  /\ Policies \subseteq SUBSET Flow
  /\ {PerSource, QueueLen, CacheMax, DenyFor, MaxInst} \subseteq Nat \ {0}

Inst == 1..MaxInst

VARIABLES
  inst,      \* m.inst
  allowed,   \* the flows that the applied configuration allows
  denied,    \* m.denied: what is left of each entry's time, 0 when it is over
  why,       \* why the flow of an entry was refused
  handling,  \* per instance, the flows between the two steps of forwardUDP
  pending,   \* per instance, udpAdmitter.pending
  bySrc,     \* per instance, udpAdmitter.bySrc
  queue,     \* per instance, udpAdmitter.queue
  at,        \* where each worker is
  flow,      \* the flow a worker admits
  reason     \* why it was refused

cacheVars == <<denied, why>>
admitVars == <<handling, pending, bySrc, queue>>
workVars == <<at, flow, reason>>
vars == <<inst, allowed, cacheVars, admitVars, workVars>>

At == {"idle", "admit", "record", "lost", "refused", "settle", "gone"}
Reason == {"none", "policy", "busy", "away"}

Init ==
  /\ inst = 1
  /\ allowed \in Policies
  /\ denied = <<>>
  /\ why = <<>>
  /\ handling = [i \in Inst |-> {}]
  /\ pending = [i \in Inst |-> {}]
  /\ bySrc = [i \in Inst |-> [s \in Src |-> 0]]
  /\ queue = [i \in Inst |-> <<>>]
  /\ at = [x \in Inst \X Worker |-> "idle"]
  /\ flow = [x \in Inst \X Worker |-> NoFlow]
  /\ reason = [x \in Inst \X Worker |-> "none"]

\* Time passes for the entries of the deny cache.
Tick ==
  /\ \E k \in DOMAIN denied : denied[k] > 0
  /\ denied' = [k \in DOMAIN denied |-> IF denied[k] > 0 THEN denied[k] - 1 ELSE 0]
  /\ UNCHANGED <<inst, allowed, why, admitVars, workVars>>

\* Apply forgets the refusals and reviews the reservations.  With a reset a
\* new instance takes over, and nothing of the old one is kept.
Apply(ok, reset) ==
  /\ reset => inst < MaxInst
  /\ inst' = IF reset THEN inst + 1 ELSE inst
  /\ allowed' = ok
  /\ denied' = <<>>
  /\ why' = <<>>
  /\ at' = [x \in Inst \X Worker |->
              IF at[x] = "record" /\ (reset \/ flow[x] \notin ok) THEN "lost" ELSE at[x]]
  /\ UNCHANGED <<admitVars, flow, reason>>

-----------------------------------------------------------------------------
(* The receive path.  A peer's packets are handled one after the other.    *)

Live(k) == k \in DOMAIN denied /\ denied[k] > 0

\* recentlyDenied: a flow that was refused lately is dropped, an entry that
\* is over is removed.
Receive(k) ==
  /\ \A j \in handling[inst] : SrcOf[j] # SrcOf[k]
  /\ ~Live(k)
  /\ denied' = Restrict(denied, DOMAIN denied \ {k})
  /\ why' = Restrict(why, DOMAIN why \ {k})
  /\ handling' = [handling EXCEPT ![inst] = @ \cup {k}]
  /\ UNCHANGED <<inst, allowed, pending, bySrc, queue, workVars>>

\* enqueue.
Room(i, k) ==
  /\ k \notin pending[i]
  /\ bySrc[i][SrcOf[k]] < PerSource
  /\ Len(queue[i]) < QueueLen

Enqueue(i, k) ==
  /\ k \in handling[i]
  /\ handling' = [handling EXCEPT ![i] = @ \ {k}]
  /\ IF Room(i, k)
       THEN /\ queue' = [queue EXCEPT ![i] = Append(@, k)]
            /\ pending' = [pending EXCEPT ![i] = @ \cup {k}]
            /\ bySrc' = [bySrc EXCEPT ![i][SrcOf[k]] = @ + 1]
       ELSE UNCHANGED <<queue, pending, bySrc>>
  /\ UNCHANGED <<inst, allowed, cacheVars, workVars>>

-----------------------------------------------------------------------------
(* The workers of an instance.                                             *)

GoTo(x, where) == at' = [at EXCEPT ![x] = where]

\* A worker takes a request; after a reset it does so, or ends, as select
\* happens to choose.
TakeRequest(x) ==
  LET i == x[1] IN
  /\ at[x] = "idle"
  /\ queue[i] # <<>>
  /\ queue' = [queue EXCEPT ![i] = Tail(@)]
  /\ flow' = [flow EXCEPT ![x] = Head(queue[i])]
  /\ GoTo(x, "admit")
  /\ UNCHANGED <<inst, allowed, cacheVars, handling, pending, bySrc, reason>>

WorkerEnds(x) ==
  /\ at[x] = "idle"
  /\ x[1] < inst
  /\ GoTo(x, "gone")
  /\ UNCHANGED <<inst, allowed, cacheVars, admitVars, flow, reason>>

Refuse(x, r) ==
  /\ GoTo(x, "refused")
  /\ reason' = [reason EXCEPT ![x] = r]

\* admitFlow, first step: the decision, with the budgets.
Decide(x, busy) ==
  /\ at[x] = "admit"
  /\ IF x[1] # inst THEN Refuse(x, "away")
     ELSE IF flow[x] \notin allowed THEN Refuse(x, "policy")
     ELSE IF busy THEN Refuse(x, "busy")
     ELSE GoTo(x, "record") /\ UNCHANGED reason
  /\ UNCHANGED <<inst, allowed, cacheVars, admitVars, flow>>

\* Its last step, once the record is written or could not be: the endpoint
\* is created, unless the reservation was lost.
Admitted(x, written) ==
  /\ at[x] \in {"record", "lost"}
  /\ IF ~written THEN Refuse(x, "busy")
     ELSE IF at[x] = "lost" THEN Refuse(x, "away")
     ELSE GoTo(x, "settle") /\ UNCHANGED reason
  /\ UNCHANGED <<inst, allowed, cacheVars, admitVars, flow>>

\* noteDenied.
Full == Cardinality(DOMAIN denied) >= CacheMax
Over == {k \in DOMAIN denied : denied[k] = 0}

NoteDenied(x) ==
  LET k == flow[x]
      kept == DOMAIN denied \ (IF Full THEN Over ELSE {})
      fits == Cardinality(kept) < CacheMax
      keys == IF fits THEN kept \cup {k} ELSE kept
  IN /\ at[x] = "refused"
     /\ denied' = [j \in keys |-> IF j = k /\ fits THEN DenyFor ELSE denied[j]]
     /\ why' = [j \in keys |-> IF j = k /\ fits THEN reason[x] ELSE why[j]]
     /\ GoTo(x, "settle")
     /\ UNCHANGED <<inst, allowed, admitVars, flow, reason>>

\* settle: the worker is through with the flow.
Settle(x) ==
  LET i == x[1]
      s == SrcOf[flow[x]]
  IN /\ at[x] = "settle"
     /\ pending' = [pending EXCEPT ![i] = @ \ {flow[x]}]
     /\ bySrc' = [bySrc EXCEPT ![i][s] = IF @ <= 1 THEN 0 ELSE @ - 1]
     /\ flow' = [flow EXCEPT ![x] = NoFlow]
     /\ reason' = [reason EXCEPT ![x] = "none"]
     /\ GoTo(x, "idle")
     /\ UNCHANGED <<inst, allowed, cacheVars, handling, queue>>

Work(x) ==
  \/ TakeRequest(x)
  \/ \E b \in BOOLEAN : Decide(x, b) \/ Admitted(x, b)
  \/ NoteDenied(x)
  \/ Settle(x)

Next ==
  \/ Tick
  \/ \E ok \in Policies, reset \in BOOLEAN : Apply(ok, reset)
  \/ \E k \in Flow : Receive(k) \/ \E i \in Inst : Enqueue(i, k)
  \/ \E x \in Inst \X Worker : Work(x) \/ WorkerEnds(x)

Spec == Init /\ [][Next]_vars

(* Workers are goroutines: they are scheduled, and an admission ends       *)
(* because its record does (module FlowLog).                               *)
FairSpec == Spec /\ \A x \in Inst \X Worker : WF_vars(Work(x))

-----------------------------------------------------------------------------
(* Properties.                                                             *)

(* Every variable has its type; the deny cache never holds more than       *)
(* denyCacheMax flows.                                                     *)
TypeOK ==
  /\ inst \in Inst
  /\ allowed \subseteq Flow
  /\ DOMAIN denied \subseteq Flow /\ DOMAIN why = DOMAIN denied
  /\ Cardinality(DOMAIN denied) <= CacheMax
  /\ \A k \in DOMAIN denied : denied[k] \in 0..DenyFor /\ why[k] \in Reason
  /\ handling \in [Inst -> SUBSET Flow]
  /\ pending \in [Inst -> SUBSET Flow]
  /\ bySrc \in [Inst -> [Src -> Nat]]
  /\ \A i \in Inst : Range(queue[i]) \subseteq Flow
  /\ at \in [Inst \X Worker -> At]
  /\ flow \in [Inst \X Worker -> Flow \cup {NoFlow}]
  /\ reason \in [Inst \X Worker -> Reason]

(* A flow is asked for once at a time: the pending flows of an instance    *)
(* are exactly those that wait in the queue or that one worker has, and a  *)
(* source's count is exactly how many of them are its own, within its      *)
(* share, so no datagram burst, reload or reset leaks a share (enqueue,    *)
(* settle).                                                                *)
SharesExact ==
  \A i \in Inst :
    LET with(k) == {w \in Worker : flow[<<i, w>>] = k}
        waiting(k) == {n \in DOMAIN queue[i] : queue[i][n] = k}
    IN /\ \A k \in Flow : Cardinality(with(k)) + Cardinality(waiting(k))
                            = IF k \in pending[i] THEN 1 ELSE 0
       /\ \A s \in Src : /\ bySrc[i][s] = Cardinality({k \in pending[i] : SrcOf[k] = s})
                         /\ bySrc[i][s] <= PerSource
       /\ Len(queue[i]) <= QueueLen

(* A pending flow of the running instance is settled: its next datagram is *)
(* not dropped for ever because an earlier one is still being admitted.    *)
PendingSettles ==
  \A i \in Inst, k \in Flow : k \in pending[i] ~> (k \notin pending[i] \/ inst # i)

(* "A reload forgets the refusals, because it may have changed what is     *)
(* allowed": a flow that the configuration allows is not dropped because   *)
(* an earlier configuration, or an earlier stack instance, refused it.     *)
ReloadForgetsRefusals ==
  \A k \in Flow : Live(k) /\ k \in allowed => why[k] = "busy"

=============================================================================
