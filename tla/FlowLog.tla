------------------------------- MODULE FlowLog -------------------------------
(***************************************************************************)
(* The forwarder's flow log: flowLogger in internal/engine/vpnflow.go.     *)
(* "No record, no flow": an admission hands the record of the flow it      *)
(* wants to allow to the writer goroutine through a bounded queue and      *)
(* waits, for a bounded time, until it is written.  Admission and writer   *)
(* settle with compare-and-swap on the item's state what the log says      *)
(* about a record whose admission gives up.  While the log fails, one      *)
(* admission at a time probes it.                                          *)
(*                                                                         *)
(* A step is one atomic operation, one channel operation or one write.     *)
(* Every flow is admitted once; when it is over, or refused, the forwarder *)
(* (internal/wg/forward.go) writes one best-effort record about it.        *)
(***************************************************************************)
EXTENDS Naturals, Sequences, FiniteSets

CONSTANTS
  Flow,       \* the flows the policy allows
  QueueSize   \* the capacity of flowLogger.queue

ASSUME FlowLogAssumption == QueueSize \in Nat \ {0}

VARIABLES
  at,        \* where each flow's call of record is
  queue,     \* flowLogger.queue
  state,     \* flowItem.state of each flow's allow record
  done,      \* flowItem.done: "none" until the writer has sent its result
  failed,    \* flowLogger.failed
  probing,   \* flowLogger.probing
  prober,    \* the calls whose deferred probing.Store(false) is pending
  dropped,   \* what FlowLogDropped reports
  result,    \* what record returned for the flow: "none", "allow" or "refuse"
  writer,    \* where the writer is
  hand,      \* the item it has taken from the queue
  line,      \* the verdict it writes
  wrote,     \* the write succeeded
  \* history
  log,       \* the lines of each flow in the log file
  unsaid     \* flows whose late refusal could not be written

recordVars == <<at, prober, result>>
itemVars == <<state, done>>
writerVars == <<writer, hand, line, wrote>>
logVars == <<log, unsaid>>
vars == <<recordVars, queue, itemVars, failed, probing, dropped, writerVars, logVars>>

Verdict == {"allow", "deny", "end"}
Item == [flow : Flow, verdict : Verdict]
NoItem == [flow |-> "none", verdict |-> "none"]
AnItem(f, v) == [flow |-> f, verdict |-> v]

At == {"start", "probe", "enqueue", "wait", "expired", "abandon", "late",
       "mark", "final", "return", "returned", "over"}

Init ==
  /\ at = [f \in Flow |-> "start"]
  /\ queue = << >>
  /\ state = [f \in Flow |-> "queued"]
  /\ done = [f \in Flow |-> "none"]
  /\ failed = FALSE
  /\ probing = FALSE
  /\ prober = {}
  /\ dropped = 0
  /\ result = [f \in Flow |-> "none"]
  /\ writer = "idle"
  /\ hand = NoItem
  /\ line = "none"
  /\ wrote = FALSE
  /\ log = [f \in Flow |-> << >>]
  /\ unsaid = {}

GoTo(f, where) == at' = [at EXCEPT ![f] = where]

Answer(f, verdict) ==
  /\ result' = [result EXCEPT ![f] = verdict]
  /\ GoTo(f, "return")

-----------------------------------------------------------------------------
(* record, for an allowed flow.                                            *)

\* failed.Load(): a log that fails has to be probed.
Start(f) ==
  /\ at[f] = "start"
  /\ GoTo(f, IF failed THEN "probe" ELSE "enqueue")
  /\ UNCHANGED <<prober, result, queue, itemVars, failed, probing, dropped, writerVars, logVars>>

\* probing.CompareAndSwap: one call probes, the others refuse at once.
Probe(f) ==
  /\ at[f] = "probe"
  /\ IF probing
       THEN Answer(f, "refuse") /\ UNCHANGED <<probing, prober>>
       ELSE /\ probing' = TRUE
            /\ prober' = prober \cup {f}
            /\ GoTo(f, "enqueue")
            /\ UNCHANGED result
  /\ UNCHANGED <<queue, itemVars, failed, dropped, writerVars, logVars>>

\* A full queue refuses the flow, and counts it.
Enqueue(f) ==
  /\ at[f] = "enqueue"
  /\ IF Len(queue) < QueueSize
       THEN /\ queue' = Append(queue, AnItem(f, "allow"))
            /\ GoTo(f, "wait")
            /\ UNCHANGED <<result, dropped>>
       ELSE /\ dropped' = dropped + 1
            /\ Answer(f, "refuse")
            /\ UNCHANGED queue
  /\ UNCHANGED <<prober, itemVars, failed, probing, writerVars, logVars>>

\* The result arrives: in the first select, in the one after the timeout, or
\* because the writer has already settled the item.
TakeResult(f) ==
  /\ at[f] \in {"wait", "expired", "final"}
  /\ done[f] # "none"
  /\ Answer(f, IF done[f] = "ok" THEN "allow" ELSE "refuse")
  /\ UNCHANGED <<prober, queue, itemVars, failed, probing, dropped, writerVars, logVars>>

\* The wait is over, and then the result is still not there.
Expire(f) ==
  /\ at[f] = "wait"
  /\ GoTo(f, "expired")
  /\ UNCHANGED <<prober, result, queue, itemVars, failed, probing, dropped, writerVars, logVars>>

StillNothing(f) ==
  /\ at[f] = "expired"
  /\ done[f] = "none"
  /\ GoTo(f, "abandon")
  /\ UNCHANGED <<prober, result, queue, itemVars, failed, probing, dropped, writerVars, logVars>>

\* The two compare-and-swaps: the admission claims an item that the writer
\* has not claimed, or one that is being written; one that is written it
\* cannot claim, and it takes the result.
Abandon(f) ==
  /\ at[f] = "abandon"
  /\ IF state[f] = "queued"
       THEN state' = [state EXCEPT ![f] = "abandoned"] /\ GoTo(f, "mark")
       ELSE UNCHANGED state /\ GoTo(f, "late")
  /\ UNCHANGED <<prober, result, queue, done, failed, probing, dropped, writerVars, logVars>>

AbandonLate_Waits(f) ==
  /\ at[f] = "late"
  /\ GoTo(f, "final")
  /\ UNCHANGED <<prober, result, queue, itemVars, failed, probing, dropped, writerVars, logVars>>

AbandonLate(f) ==
  /\ at[f] = "late"
  /\ IF state[f] = "writing"
       THEN state' = [state EXCEPT ![f] = "abandonedLate"] /\ GoTo(f, "mark")
       ELSE UNCHANGED state /\ GoTo(f, "final")
  /\ UNCHANGED <<prober, result, queue, done, failed, probing, dropped, writerVars, logVars>>

\* A log that is this slow counts as failing.
Mark(f) ==
  /\ at[f] = "mark"
  /\ failed' = TRUE
  /\ Answer(f, "refuse")
  /\ UNCHANGED <<prober, queue, itemVars, probing, dropped, writerVars, logVars>>

\* record returns; a probe ends with it, on every path.
Return_ProbeKept(f) ==
  /\ at[f] = "return"
  /\ GoTo(f, "returned")
  /\ prober' = prober \ {f}
  /\ probing' = IF f \in prober /\ result[f] = "allow" THEN FALSE ELSE probing
  /\ UNCHANGED <<result, queue, itemVars, failed, dropped, writerVars, logVars>>

Return(f) ==
  /\ at[f] = "return"
  /\ GoTo(f, "returned")
  /\ prober' = prober \ {f}
  /\ probing' = IF f \in prober THEN FALSE ELSE probing
  /\ UNCHANGED <<result, queue, itemVars, failed, dropped, writerVars, logVars>>

\* The forwarder's last record of the flow, best effort: it ended, or it was
\* refused (by the log, or because its device went away while the record was
\* written).  Deny records are suppressed above a rate (limited).
BestEffort(f, v, limited) ==
  /\ at[f] = "returned"
  /\ v \in IF result[f] = "allow" THEN {"end", "deny"} ELSE {"deny"}
  /\ limited => v = "deny"
  /\ GoTo(f, "over")
  /\ IF ~limited /\ Len(queue) < QueueSize
       THEN queue' = Append(queue, AnItem(f, v)) /\ UNCHANGED dropped
       ELSE dropped' = dropped + 1 /\ UNCHANGED queue
  /\ UNCHANGED <<prober, result, itemVars, failed, probing, writerVars, logVars>>

-----------------------------------------------------------------------------
(* run, the writer.                                                        *)

Waited == hand.verdict = "allow"

Take ==
  /\ writer = "idle"
  /\ queue # << >>
  /\ hand' = Head(queue)
  /\ queue' = Tail(queue)
  /\ writer' = "claim"
  /\ UNCHANGED <<recordVars, itemVars, failed, probing, dropped, line, wrote, logVars>>

\* The writer claims a record that an admission waits for; one that has been
\* abandoned is written as a refusal.
Claim_NotClaimed ==
  /\ writer = "claim"
  /\ line' = hand.verdict
  /\ state' = IF Waited THEN [state EXCEPT ![hand.flow] = "writing"] ELSE state
  /\ writer' = "write"
  /\ UNCHANGED <<recordVars, queue, done, failed, probing, dropped, hand, wrote, logVars>>

Claim ==
  /\ writer = "claim"
  /\ IF Waited /\ state[hand.flow] = "queued"
       THEN /\ state' = [state EXCEPT ![hand.flow] = "writing"]
            /\ line' = "allow"
       ELSE /\ UNCHANGED state
            /\ line' = IF Waited THEN "deny" ELSE hand.verdict
  /\ writer' = "write"
  /\ UNCHANGED <<recordVars, queue, done, failed, probing, dropped, hand, wrote, logVars>>

\* The write, and what a failed one is noted as.  A best-effort record is
\* then finished with.
Write_Uncounted(ok) ==
  /\ writer = "write"
  /\ wrote' = ok
  /\ log' = IF ok THEN [log EXCEPT ![hand.flow] = Append(@, line)] ELSE log
  /\ failed' = (failed \/ ~ok)
  /\ writer' = IF Waited THEN "settle" ELSE "idle"
  /\ UNCHANGED <<recordVars, queue, itemVars, probing, dropped, hand, line, unsaid>>

Write(ok) ==
  /\ writer = "write"
  /\ wrote' = ok
  /\ log' = IF ok THEN [log EXCEPT ![hand.flow] = Append(@, line)] ELSE log
  /\ failed' = (failed \/ ~ok)
  /\ dropped' = IF ok \/ Waited THEN dropped ELSE dropped + 1
  /\ writer' = IF Waited THEN "settle" ELSE "idle"
  /\ UNCHANGED <<recordVars, queue, itemVars, probing, hand, line, unsaid>>

\* A record written in time is the admission's, and switches admission back
\* on; one that was abandoned while it was written is followed by a refusal.
Settle ==
  /\ writer = "settle"
  /\ IF state[hand.flow] = "writing"
       THEN /\ state' = [state EXCEPT ![hand.flow] = "written"]
            /\ failed' = (failed /\ ~wrote)
            /\ writer' = "reply"
       ELSE /\ writer' = IF state[hand.flow] = "abandonedLate" /\ wrote THEN "late" ELSE "reply"
            /\ UNCHANGED <<state, failed>>
  /\ UNCHANGED <<recordVars, queue, done, probing, dropped, hand, line, wrote, logVars>>

\* The refusal that follows a late allow; its error is ignored.
LateRefusal(ok) ==
  /\ writer = "late"
  /\ log' = IF ok THEN [log EXCEPT ![hand.flow] = Append(@, "deny")] ELSE log
  /\ unsaid' = IF ok THEN unsaid ELSE unsaid \cup {hand.flow}
  /\ writer' = "reply"
  /\ UNCHANGED <<recordVars, queue, itemVars, failed, probing, dropped, hand, line, wrote>>

Reply_AlwaysOk ==
  /\ writer = "reply"
  /\ done' = [done EXCEPT ![hand.flow] = "ok"]
  /\ writer' = "idle"
  /\ UNCHANGED <<recordVars, queue, state, failed, probing, dropped, hand, line, wrote, logVars>>

Reply ==
  /\ writer = "reply"
  /\ done' = [done EXCEPT ![hand.flow] = IF wrote THEN "ok" ELSE "error"]
  /\ writer' = "idle"
  /\ UNCHANGED <<recordVars, queue, state, failed, probing, dropped, hand, line, wrote, logVars>>

-----------------------------------------------------------------------------

\* What a call of record does without waiting for anything but its timer.
Record(f) ==
  \/ Start(f)
  \/ Probe(f)
  \/ Enqueue(f)
  \/ TakeResult(f)
  \/ Expire(f)
  \/ StillNothing(f)
  \/ Abandon(f)
  \/ AbandonLate(f)
  \/ Mark(f)
  \/ Return(f)

Next ==
  \/ \E f \in Flow : Record(f)
  \/ \E f \in Flow, v \in Verdict, limited \in BOOLEAN : BestEffort(f, v, limited)
  \/ Take
  \/ Claim
  \/ \E ok \in BOOLEAN : Write(ok) \/ LateRefusal(ok)
  \/ Settle
  \/ Reply

Spec == Init /\ [][Next]_vars

(* The Go scheduler runs the admissions, and the writer between its        *)
(* writes; a write to the disk may hang forever, so Write and LateRefusal  *)
(* are not fair, and neither is anything that makes a flow start.          *)
Fairness ==
  /\ \A f \in Flow : WF_vars(at[f] # "start" /\ Record(f))
  /\ WF_vars(Settle)
  /\ WF_vars(Reply)

FairSpec == Spec /\ Fairness

-----------------------------------------------------------------------------
(* Properties.                                                             *)

(* Every variable has its type; the queue stays within its capacity.       *)
TypeOK ==
  /\ at \in [Flow -> At]
  /\ queue \in Seq(Item) /\ Len(queue) <= QueueSize
  /\ state \in [Flow -> {"queued", "writing", "written", "abandoned", "abandonedLate"}]
  /\ done \in [Flow -> {"none", "ok", "error"}]
  /\ failed \in BOOLEAN
  /\ probing \in BOOLEAN
  /\ prober \subseteq Flow
  /\ dropped \in Nat
  /\ result \in [Flow -> {"none", "allow", "refuse"}]
  /\ writer \in {"idle", "claim", "write", "settle", "late", "reply"}
  /\ hand \in Item \cup {NoItem}
  /\ line \in Verdict \cup {"none"}
  /\ wrote \in BOOLEAN
  /\ log \in [Flow -> Seq(Verdict)]
  /\ unsaid \subseteq Flow

Says(f, v) == \E i \in DOMAIN log[f] : log[f][i] = v

(* "No record, no flow": a flow that is admitted has its allow line in the *)
(* log file, whatever the writer and the admission's timeout race for.     *)
NoRecordNoFlow ==
  \A f \in Flow : result[f] = "allow" => Says(f, "allow")

(* A flow that record refused, and that the log calls allowed, is called   *)
(* refused in the log as well once the writer is through with its record,  *)
(* unless the disk failed on that very line.                               *)
RefusedIsNotAllowed ==
  \A f \in Flow : (result[f] = "refuse" /\ done[f] # "none" /\ Says(f, "allow"))
                    => Says(f, "deny") \/ f \in unsaid

(* The probe of a failing log is held by exactly one call while probing is *)
(* set and by none otherwise, so no way out of record leaves the log       *)
(* closed for good or lets two calls wait for it.                          *)
OneProbe ==
  /\ probing <=> prober # {}
  /\ \A f, g \in prober : f = g

(* The flows about which the log does not tell the end, once everything    *)
(* has been written, are at most as many as the counter reports: nothing   *)
(* is lost without being counted.                                          *)
LossesCounted ==
  (queue = << >> /\ writer = "idle") =>
    Cardinality({f \in Flow : at[f] = "over" /\
                   (log[f] = << >> \/ log[f][Len(log[f])] = "allow")}) <= dropped

(* An admission blocks for a bounded time: it returns even when a write    *)
(* never does ("It blocks for at most the write wait").                    *)
AdmissionEnds ==
  \A f \in Flow : at[f] = "enqueue" ~> at[f] \in {"returned", "over"}

(* "A record whose admission gave up waiting is never left in the log as a *)
(* plain "allow": the log says the flow was refused (L-35)" (flowLogger).  *)
NeverLeftAllowed ==
  \A f \in Flow : (result[f] = "refuse" /\ done[f] # "none" /\ Says(f, "allow"))
                    => Says(f, "deny")

=============================================================================
