--------------------------- MODULE FlowLog_proofs ---------------------------
(***************************************************************************)
(* Proofs about FlowLog, for any set of flows and any queue.               *)
(*                                                                         *)
(* The inductive invariant says which of the two sides owns a record at    *)
(* each moment (Phases), that the record is in one place only (Work), and  *)
(* what the log says of it there (Lines).  On top of it, the losses are    *)
(* counted because the records of a flow are written in order (Ordered).   *)
(***************************************************************************)
EXTENDS FlowLog, FiniteSetTheorems, TLAPS

Early == {"start", "probe", "enqueue"}

\* The record of f waits for the writer.
Pending(f) ==
  /\ at[f] \notin Early
  /\ done[f] = "none"
  /\ state[f] \in {"queued", "abandoned"}
  /\ result[f] # "none" => state[f] = "abandoned"

\* The writer has a record that an admission waits for, or waited for.
InHand == writer # "idle" /\ hand.verdict = "allow"

\* Where the records are: an allow record is in the queue once, or with the
\* writer, and nobody has had the result.
Work ==
  /\ writer # "idle" => hand \in Item
  /\ writer \in {"settle", "late", "reply"} => hand.verdict = "allow"
  /\ writer = "write" => line \in Verdict
  /\ \A i \in 1..Len(queue) :
       queue[i].verdict = "allow" =>
         /\ Pending(queue[i].flow)
         /\ InHand => queue[i].flow # hand.flow
  /\ \A i, j \in 1..Len(queue) :
       queue[i].verdict = "allow" /\ queue[j].verdict = "allow" /\ queue[i].flow = queue[j].flow
         => i = j
  /\ InHand /\ writer = "claim" => Pending(hand.flow)

\* What the writer knows of the record it is writing.
Writing ==
  /\ InHand => done[hand.flow] = "none" /\ at[hand.flow] \notin Early
  /\ InHand /\ writer \in {"write", "settle"} =>
       /\ \/ state[hand.flow] \in {"writing", "abandonedLate"} /\ line = "allow"
          \/ state[hand.flow] = "abandoned" /\ line = "deny"
       /\ result[hand.flow] # "none" => state[hand.flow] # "writing"
  /\ writer = "write" /\ line = "allow" => hand.verdict = "allow"
  /\ writer = "late" => state[hand.flow] = "abandonedLate" /\ wrote
  /\ writer = "reply" =>
       /\ state[hand.flow] \in {"written", "abandoned", "abandonedLate"}
       /\ state[hand.flow] = "written" => result[hand.flow] = "none"

\* What an admission knows of its record.
Phases ==
  \A f \in Flow :
    /\ at[f] \in Early => state[f] = "queued" /\ done[f] = "none" /\ result[f] = "none"
    /\ at[f] \in {"wait", "expired", "abandon", "late", "final", "mark"} => result[f] = "none"
    /\ at[f] \in {"wait", "expired", "abandon"} => state[f] \in {"queued", "writing", "written"}
    /\ at[f] = "late" => state[f] \in {"writing", "written"}
    /\ at[f] = "final" => state[f] = "written"
    /\ at[f] = "mark" => state[f] \in {"abandoned", "abandonedLate"}
    /\ done[f] # "none" => state[f] \in {"written", "abandoned", "abandonedLate"}
    /\ result[f] = "refuse" => state[f] # "writing"
    /\ result[f] = "refuse" /\ state[f] = "written" => done[f] = "error"

\* What the log says of a record.
Lines ==
  /\ \A f \in Flow :
       /\ state[f] \in {"queued", "abandoned"} => ~Says(f, "allow")
       /\ result[f] = "allow" => Says(f, "allow")
       /\ done[f] = "ok" /\ state[f] = "written" => Says(f, "allow")
       /\ done[f] = "error" => ~Says(f, "allow")
       /\ done[f] # "none" /\ state[f] = "abandonedLate" /\ Says(f, "allow")
            => Says(f, "deny") \/ f \in unsaid
  /\ InHand /\ writer \in {"claim", "write"} => ~Says(hand.flow, "allow")
  /\ writer = "settle" => (Says(hand.flow, "allow") <=> wrote /\ line = "allow")
  /\ writer = "reply" =>
       /\ ~wrote => ~Says(hand.flow, "allow")
       /\ wrote /\ state[hand.flow] = "written" => Says(hand.flow, "allow")
       /\ state[hand.flow] = "abandonedLate" /\ Says(hand.flow, "allow")
            => Says(hand.flow, "deny") \/ hand.flow \in unsaid

IInv == TypeOK /\ Work /\ Writing /\ Phases /\ Lines /\ OneProbe

-----------------------------------------------------------------------------
(* Lines and items.                                                        *)

(* A write that leaves the file alone leaves what it says alone.           *)
LEMMA SaysSame == UNCHANGED log => \A f \in Flow, v \in Verdict : Says(f, v)' <=> Says(f, v)
  BY DEF Says

(* A line appended for one flow says that line's verdict of that flow, and *)
(* nothing else is said anew.                                              *)
LEMMA SaysAppend ==
  ASSUME NEW g \in Flow, NEW x \in Verdict, log \in [Flow -> Seq(Verdict)],
         log' = [log EXCEPT ![g] = Append(@, x)]
  PROVE  /\ log' \in [Flow -> Seq(Verdict)]
         /\ \A f \in Flow, v \in Verdict : Says(f, v)' <=> Says(f, v) \/ (f = g /\ v = x)
<1>1. log' \in [Flow -> Seq(Verdict)]
  OBVIOUS
<1>2. ASSUME NEW f \in Flow, NEW v \in Verdict
      PROVE  Says(f, v)' <=> Says(f, v) \/ (f = g /\ v = x)
  <2>1. CASE f # g
    BY <2>1 DEF Says
  <2>2. CASE f = g
    <3>1. log'[g] = Append(log[g], x) /\ log[g] \in Seq(Verdict)
      OBVIOUS
    <3>2. /\ Len(log'[g]) = Len(log[g]) + 1
          /\ DOMAIN log'[g] = 1..(Len(log[g]) + 1)
          /\ DOMAIN log[g] = 1..Len(log[g])
          /\ Len(log[g]) \in Nat
          /\ \A i \in 1..Len(log[g]) : log'[g][i] = log[g][i]
          /\ log'[g][Len(log[g]) + 1] = x
      BY <3>1
    <3>3. Says(g, v)' <=> \E i \in 1..(Len(log[g]) + 1) : log'[g][i] = v
      BY <3>2 DEF Says
    <3>4. Says(g, v) <=> \E i \in 1..Len(log[g]) : log[g][i] = v
      BY <3>2 DEF Says
    <3>5. ASSUME NEW i \in 1..(Len(log[g]) + 1)
          PROVE  i \in 1..Len(log[g]) \/ i = Len(log[g]) + 1
      BY <3>2
    <3>6. \A i \in 1..Len(log[g]) : i \in 1..(Len(log[g]) + 1)
      BY <3>2
    <3>7. Len(log[g]) + 1 \in 1..(Len(log[g]) + 1)
      BY <3>2
    <3>8. Says(g, v)' <=> Says(g, v) \/ v = x
      BY <3>2, <3>3, <3>4, <3>5, <3>6, <3>7
    <3> QED BY <2>2, <3>8
  <2> QED BY <2>1, <2>2
<1> QED BY <1>1, <1>2

(* A record joins the end of the queue.                                    *)
LEMMA QueueAppend ==
  ASSUME NEW f \in Flow, NEW v \in Verdict, queue \in Seq(Item), queue' = Append(queue, AnItem(f, v))
  PROVE  /\ queue' \in Seq(Item)
         /\ Len(queue') = Len(queue) + 1
         /\ Len(queue) \in Nat
         /\ \A i \in 1..Len(queue) : queue'[i] = queue[i] /\ queue[i] \in Item
         /\ queue'[Len(queue) + 1] = AnItem(f, v)
         /\ AnItem(f, v) \in Item
         /\ AnItem(f, v).flow = f /\ AnItem(f, v).verdict = v
<1>1. AnItem(f, v) \in Item /\ AnItem(f, v).flow = f /\ AnItem(f, v).verdict = v
  BY DEF AnItem, Item
<1>2. ASSUME NEW x \in Item, queue' = Append(queue, x)
      PROVE  /\ queue' \in Seq(Item)
             /\ Len(queue') = Len(queue) + 1
             /\ Len(queue) \in Nat
             /\ \A i \in 1..Len(queue) : queue'[i] = queue[i] /\ queue[i] \in Item
             /\ queue'[Len(queue) + 1] = x
  BY <1>2
<1> QED BY <1>1, <1>2

(* The first record leaves the queue.                                      *)
LEMMA QueueTake ==
  ASSUME queue \in Seq(Item), queue # << >>, queue' = Tail(queue)
  PROVE  /\ queue' \in Seq(Item)
         /\ Len(queue) \in Nat \ {0}
         /\ Len(queue') = Len(queue) - 1
         /\ Head(queue) = queue[1] /\ Head(queue) \in Item
         /\ \A i \in 1..Len(queue') : i + 1 \in 1..Len(queue) /\ queue'[i] = queue[i + 1]
  OBVIOUS

-----------------------------------------------------------------------------
(* The invariant.                                                          *)

(* A logger that has been started satisfies the invariant.                 *)
LEMMA InitInv == Init => IInv
<1> SUFFICES ASSUME Init PROVE IInv
  OBVIOUS
<1>1. TypeOK
  <2>1. queue \in Seq(Item) /\ Len(queue) <= QueueSize
    BY FlowLogAssumption DEF Init
  <2>2. log \in [Flow -> Seq(Verdict)]
    BY DEF Init
  <2> QED BY <2>1, <2>2 DEF Init, TypeOK, At
<1>2. Len(queue) = 0
  BY DEF Init
<1>3. Work /\ Writing
  BY <1>2 DEF Init, Work, Writing, InHand
<1>4. \A f \in Flow, v \in Verdict : ~Says(f, v)
  BY DEF Init, Says
<1>5. Phases /\ Lines /\ OneProbe
  BY <1>4 DEF Init, Phases, Lines, OneProbe, InHand, Early, Verdict
<1> QED BY <1>1, <1>3, <1>5 DEF IInv

(* The records in the queue, and the one the writer has, are about flows.  *)
LEMMA ItemsOfFlows ==
  ASSUME IInv
  PROVE  /\ \A i \in 1..Len(queue) : queue[i] \in Item /\ queue[i].flow \in Flow
         /\ writer # "idle" => hand.flow \in Flow
<1>1. \A i \in 1..Len(queue) : queue[i] \in Item
  BY DEF IInv, TypeOK
<1> QED BY <1>1 DEF IInv, Work, Item

(* No step of an admission that touches neither queue nor file breaks the  *)
(* invariant.                                                              *)
LEMMA RecordInv ==
  ASSUME IInv, NEW f \in Flow,
         \/ Start(f) \/ Probe(f) \/ TakeResult(f) \/ Expire(f) \/ StillNothing(f)
         \/ Abandon(f) \/ AbandonLate(f) \/ Mark(f) \/ Return(f)
  PROVE  IInv'
<1>1. UNCHANGED log
  BY DEF Start, Probe, TakeResult, Expire, StillNothing, Abandon, AbandonLate, Mark, Return, logVars
<1>2. \A g \in Flow, v \in Verdict : Says(g, v)' <=> Says(g, v)
  BY <1>1, SaysSame
<1>3. {"allow", "deny"} \subseteq Verdict
  BY DEF Verdict
<1>4. CASE Start(f)
  <2>1. TypeOK'
    BY <1>4 DEF IInv, TypeOK, At, Start, GoTo, Answer, itemVars, writerVars, logVars
  <2>2. Work'
    <3>1. \A g \in Flow : Pending(g) => Pending(g)'
      BY <1>4 DEF IInv, TypeOK, Pending, Phases, Early, Start, GoTo, Answer, itemVars, writerVars, logVars
    <3>2. UNCHANGED <<queue, writer, hand, line>> /\ (InHand' <=> InHand)
      BY <1>4 DEF InHand, Start, GoTo, Answer, itemVars, writerVars, logVars
    <3> QED BY <3>1, <3>2, ItemsOfFlows DEF IInv, Work, InHand
  <2>3. Writing'
    BY <1>4 DEF IInv, TypeOK, Work, Writing, InHand, Phases, Early, Item, Start, GoTo, Answer, itemVars, writerVars, logVars
  <2>4. Phases'
    BY <1>4 DEF IInv, TypeOK, Phases, Early, Start, GoTo, Answer, itemVars, writerVars, logVars
  <2>5. Lines'
    BY <1>2, <1>3, <1>4 DEF IInv, TypeOK, Work, Writing, InHand, Phases, Lines, Item, Start, GoTo, Answer, itemVars, writerVars, logVars
  <2>6. OneProbe'
    BY <1>4 DEF IInv, TypeOK, OneProbe, Start, GoTo, Answer, itemVars, writerVars, logVars
  <2> QED BY <2>1, <2>2, <2>3, <2>4, <2>5, <2>6 DEF IInv
<1>5. CASE Probe(f)
  <2>1. TypeOK'
    <3>1. CASE probing
      BY <1>5, <3>1 DEF IInv, TypeOK, At, Probe, GoTo, Answer, itemVars, writerVars, logVars
    <3>2. CASE ~probing
      BY <1>5, <3>2, ZenonT(60) DEF IInv, TypeOK, At, Probe, GoTo, Answer, itemVars, writerVars, logVars
    <3> QED BY <3>1, <3>2
  <2>2. Work'
    <3>1. \A g \in Flow : Pending(g) => Pending(g)'
      BY <1>5 DEF IInv, TypeOK, Pending, Phases, Early, Probe, GoTo, Answer, itemVars, writerVars, logVars
    <3>2. UNCHANGED <<queue, writer, hand, line>> /\ (InHand' <=> InHand)
      BY <1>5 DEF InHand, Probe, GoTo, Answer, itemVars, writerVars, logVars
    <3> QED BY <3>1, <3>2, ItemsOfFlows DEF IInv, Work, InHand
  <2>3. Writing'
    BY <1>5 DEF IInv, TypeOK, Work, Writing, InHand, Phases, Early, Item, Probe, GoTo, Answer, itemVars, writerVars, logVars
  <2>4. Phases'
    BY <1>5 DEF IInv, TypeOK, Phases, Early, Probe, GoTo, Answer, itemVars, writerVars, logVars
  <2>5. Lines'
    BY <1>2, <1>3, <1>5 DEF IInv, TypeOK, Work, Writing, InHand, Phases, Lines, Item, Probe, GoTo, Answer, itemVars, writerVars, logVars
  <2>6. OneProbe'
    BY <1>5 DEF IInv, TypeOK, OneProbe, Probe, GoTo, Answer, itemVars, writerVars, logVars
  <2> QED BY <2>1, <2>2, <2>3, <2>4, <2>5, <2>6 DEF IInv
<1>6. CASE TakeResult(f)
  <2>1. TypeOK'
    BY <1>6 DEF IInv, TypeOK, At, TakeResult, GoTo, Answer, itemVars, writerVars, logVars
  <2>2. Work'
    <3>1. \A g \in Flow : Pending(g) => Pending(g)'
      BY <1>6 DEF IInv, TypeOK, Pending, Phases, Early, TakeResult, GoTo, Answer, itemVars, writerVars, logVars
    <3>2. UNCHANGED <<queue, writer, hand, line>> /\ (InHand' <=> InHand)
      BY <1>6 DEF InHand, TakeResult, GoTo, Answer, itemVars, writerVars, logVars
    <3> QED BY <3>1, <3>2, ItemsOfFlows DEF IInv, Work, InHand
  <2>3. Writing'
    BY <1>6 DEF IInv, TypeOK, Work, Writing, InHand, Phases, Early, Item, TakeResult, GoTo, Answer, itemVars, writerVars, logVars
  <2>4. Phases'
    BY <1>6 DEF IInv, TypeOK, Phases, Early, TakeResult, GoTo, Answer, itemVars, writerVars, logVars
  <2>5. Lines'
    BY <1>2, <1>3, <1>6 DEF IInv, TypeOK, Work, Writing, InHand, Phases, Lines, Item, TakeResult, GoTo, Answer, itemVars, writerVars, logVars
  <2>6. OneProbe'
    BY <1>6 DEF IInv, TypeOK, OneProbe, TakeResult, GoTo, Answer, itemVars, writerVars, logVars
  <2> QED BY <2>1, <2>2, <2>3, <2>4, <2>5, <2>6 DEF IInv
<1>7. CASE Expire(f)
  <2>1. TypeOK'
    BY <1>7 DEF IInv, TypeOK, At, Expire, GoTo, Answer, itemVars, writerVars, logVars
  <2>2. Work'
    <3>1. \A g \in Flow : Pending(g) => Pending(g)'
      BY <1>7 DEF IInv, TypeOK, Pending, Phases, Early, Expire, GoTo, Answer, itemVars, writerVars, logVars
    <3>2. UNCHANGED <<queue, writer, hand, line>> /\ (InHand' <=> InHand)
      BY <1>7 DEF InHand, Expire, GoTo, Answer, itemVars, writerVars, logVars
    <3> QED BY <3>1, <3>2, ItemsOfFlows DEF IInv, Work, InHand
  <2>3. Writing'
    BY <1>7 DEF IInv, TypeOK, Work, Writing, InHand, Phases, Early, Item, Expire, GoTo, Answer, itemVars, writerVars, logVars
  <2>4. Phases'
    BY <1>7 DEF IInv, TypeOK, Phases, Early, Expire, GoTo, Answer, itemVars, writerVars, logVars
  <2>5. Lines'
    BY <1>2, <1>3, <1>7 DEF IInv, TypeOK, Work, Writing, InHand, Phases, Lines, Item, Expire, GoTo, Answer, itemVars, writerVars, logVars
  <2>6. OneProbe'
    BY <1>7 DEF IInv, TypeOK, OneProbe, Expire, GoTo, Answer, itemVars, writerVars, logVars
  <2> QED BY <2>1, <2>2, <2>3, <2>4, <2>5, <2>6 DEF IInv
<1>8. CASE StillNothing(f)
  <2>1. TypeOK'
    BY <1>8 DEF IInv, TypeOK, At, StillNothing, GoTo, Answer, itemVars, writerVars, logVars
  <2>2. Work'
    <3>1. \A g \in Flow : Pending(g) => Pending(g)'
      BY <1>8 DEF IInv, TypeOK, Pending, Phases, Early, StillNothing, GoTo, Answer, itemVars, writerVars, logVars
    <3>2. UNCHANGED <<queue, writer, hand, line>> /\ (InHand' <=> InHand)
      BY <1>8 DEF InHand, StillNothing, GoTo, Answer, itemVars, writerVars, logVars
    <3> QED BY <3>1, <3>2, ItemsOfFlows DEF IInv, Work, InHand
  <2>3. Writing'
    BY <1>8 DEF IInv, TypeOK, Work, Writing, InHand, Phases, Early, Item, StillNothing, GoTo, Answer, itemVars, writerVars, logVars
  <2>4. Phases'
    BY <1>8 DEF IInv, TypeOK, Phases, Early, StillNothing, GoTo, Answer, itemVars, writerVars, logVars
  <2>5. Lines'
    BY <1>2, <1>3, <1>8 DEF IInv, TypeOK, Work, Writing, InHand, Phases, Lines, Item, StillNothing, GoTo, Answer, itemVars, writerVars, logVars
  <2>6. OneProbe'
    BY <1>8 DEF IInv, TypeOK, OneProbe, StillNothing, GoTo, Answer, itemVars, writerVars, logVars
  <2> QED BY <2>1, <2>2, <2>3, <2>4, <2>5, <2>6 DEF IInv
<1>9. CASE Abandon(f)
  <2>1. TypeOK'
    BY <1>9 DEF IInv, TypeOK, At, Abandon, GoTo, Answer, itemVars, writerVars, logVars
  <2>2. Work'
    <3>1. \A g \in Flow : Pending(g) => Pending(g)'
      BY <1>9 DEF IInv, TypeOK, Pending, Phases, Early, Abandon, GoTo, Answer, itemVars, writerVars, logVars
    <3>2. UNCHANGED <<queue, writer, hand, line>> /\ (InHand' <=> InHand)
      BY <1>9 DEF InHand, Abandon, GoTo, Answer, itemVars, writerVars, logVars
    <3> QED BY <3>1, <3>2, ItemsOfFlows DEF IInv, Work, InHand
  <2>3. Writing'
    BY <1>9 DEF IInv, TypeOK, Work, Writing, InHand, Phases, Early, Item, Abandon, GoTo, Answer, itemVars, writerVars, logVars
  <2>4. Phases'
    BY <1>9 DEF IInv, TypeOK, Phases, Early, Abandon, GoTo, Answer, itemVars, writerVars, logVars
  <2>5. Lines'
    BY <1>2, <1>3, <1>9 DEF IInv, TypeOK, Work, Writing, InHand, Phases, Lines, Item, Abandon, GoTo, Answer, itemVars, writerVars, logVars
  <2>6. OneProbe'
    BY <1>9 DEF IInv, TypeOK, OneProbe, Abandon, GoTo, Answer, itemVars, writerVars, logVars
  <2> QED BY <2>1, <2>2, <2>3, <2>4, <2>5, <2>6 DEF IInv
<1>10. CASE AbandonLate(f)
  <2>1. TypeOK'
    BY <1>10 DEF IInv, TypeOK, At, AbandonLate, GoTo, Answer, itemVars, writerVars, logVars
  <2>2. Work'
    <3>1. \A g \in Flow : Pending(g) => Pending(g)'
      BY <1>10 DEF IInv, TypeOK, Pending, Phases, Early, AbandonLate, GoTo, Answer, itemVars, writerVars, logVars
    <3>2. UNCHANGED <<queue, writer, hand, line>> /\ (InHand' <=> InHand)
      BY <1>10 DEF InHand, AbandonLate, GoTo, Answer, itemVars, writerVars, logVars
    <3> QED BY <3>1, <3>2, ItemsOfFlows DEF IInv, Work, InHand
  <2>3. Writing'
    BY <1>10 DEF IInv, TypeOK, Work, Writing, InHand, Phases, Early, Item, AbandonLate, GoTo, Answer, itemVars, writerVars, logVars
  <2>4. Phases'
    BY <1>10 DEF IInv, TypeOK, Phases, Early, AbandonLate, GoTo, Answer, itemVars, writerVars, logVars
  <2>5. Lines'
    BY <1>2, <1>3, <1>10 DEF IInv, TypeOK, Work, Writing, InHand, Phases, Lines, Item, AbandonLate, GoTo, Answer, itemVars, writerVars, logVars
  <2>6. OneProbe'
    BY <1>10 DEF IInv, TypeOK, OneProbe, AbandonLate, GoTo, Answer, itemVars, writerVars, logVars
  <2> QED BY <2>1, <2>2, <2>3, <2>4, <2>5, <2>6 DEF IInv
<1>11. CASE Mark(f)
  <2>1. TypeOK'
    BY <1>11 DEF IInv, TypeOK, At, Mark, GoTo, Answer, itemVars, writerVars, logVars
  <2>2. Work'
    <3>1. \A g \in Flow : Pending(g) => Pending(g)'
      BY <1>11 DEF IInv, TypeOK, Pending, Phases, Early, Mark, GoTo, Answer, itemVars, writerVars, logVars
    <3>2. UNCHANGED <<queue, writer, hand, line>> /\ (InHand' <=> InHand)
      BY <1>11 DEF InHand, Mark, GoTo, Answer, itemVars, writerVars, logVars
    <3> QED BY <3>1, <3>2, ItemsOfFlows DEF IInv, Work, InHand
  <2>3. Writing'
    BY <1>11 DEF IInv, TypeOK, Work, Writing, InHand, Phases, Early, Item, Mark, GoTo, Answer, itemVars, writerVars, logVars
  <2>4. Phases'
    BY <1>11 DEF IInv, TypeOK, Phases, Early, Mark, GoTo, Answer, itemVars, writerVars, logVars
  <2>5. Lines'
    BY <1>2, <1>3, <1>11 DEF IInv, TypeOK, Work, Writing, InHand, Phases, Lines, Item, Mark, GoTo, Answer, itemVars, writerVars, logVars
  <2>6. OneProbe'
    BY <1>11 DEF IInv, TypeOK, OneProbe, Mark, GoTo, Answer, itemVars, writerVars, logVars
  <2> QED BY <2>1, <2>2, <2>3, <2>4, <2>5, <2>6 DEF IInv
<1>12. CASE Return(f)
  <2>1. TypeOK'
    BY <1>12 DEF IInv, TypeOK, At, Return, GoTo, Answer, itemVars, writerVars, logVars
  <2>2. Work'
    <3>1. \A g \in Flow : Pending(g) => Pending(g)'
      BY <1>12 DEF IInv, TypeOK, Pending, Phases, Early, Return, GoTo, Answer, itemVars, writerVars, logVars
    <3>2. UNCHANGED <<queue, writer, hand, line>> /\ (InHand' <=> InHand)
      BY <1>12 DEF InHand, Return, GoTo, Answer, itemVars, writerVars, logVars
    <3> QED BY <3>1, <3>2, ItemsOfFlows DEF IInv, Work, InHand
  <2>3. Writing'
    BY <1>12 DEF IInv, TypeOK, Work, Writing, InHand, Phases, Early, Item, Return, GoTo, Answer, itemVars, writerVars, logVars
  <2>4. Phases'
    BY <1>12 DEF IInv, TypeOK, Phases, Early, Return, GoTo, Answer, itemVars, writerVars, logVars
  <2>5. Lines'
    BY <1>2, <1>3, <1>12 DEF IInv, TypeOK, Work, Writing, InHand, Phases, Lines, Item, Return, GoTo, Answer, itemVars, writerVars, logVars
  <2>6. OneProbe'
    BY <1>12 DEF IInv, TypeOK, OneProbe, Return, GoTo, Answer, itemVars, writerVars, logVars
  <2> QED BY <2>1, <2>2, <2>3, <2>4, <2>5, <2>6 DEF IInv
<1> QED BY <1>4, <1>5, <1>6, <1>7, <1>8, <1>9, <1>10, <1>11, <1>12

(* A flow's record joins the queue, or a full queue refuses the flow.      *)
LEMMA EnqueueInv == ASSUME IInv, NEW f \in Flow, Enqueue(f) PROVE IInv'
<1> USE DEF Enqueue, GoTo, Answer, itemVars, writerVars, logVars
<1>1. \A g \in Flow, v \in Verdict : Says(g, v)' <=> Says(g, v)
  BY SaysSame
<1>2. {"allow", "deny"} \subseteq Verdict
  BY DEF Verdict
<1>3. queue \in Seq(Item) /\ Len(queue) \in Nat
  BY DEF IInv, TypeOK
<1>4. Writing' /\ Phases' /\ OneProbe'
  BY DEF IInv, TypeOK, Work, Writing, InHand, Phases, Early, OneProbe, Item
<1>5. Lines'
  BY <1>1, <1>2 DEF IInv, TypeOK, Work, Writing, InHand, Phases, Lines, Item
<1>6. \A g \in Flow : Pending(g) => Pending(g)' /\ g # f
  BY DEF IInv, TypeOK, Pending, Phases, Early
<1>7. CASE Len(queue) < QueueSize
  <2>1. queue' = Append(queue, AnItem(f, "allow"))
    BY <1>7
  <2>2. /\ queue' \in Seq(Item)
        /\ Len(queue') = Len(queue) + 1
        /\ \A i \in 1..Len(queue) : queue'[i] = queue[i]
        /\ queue'[Len(queue) + 1].flow = f
    BY <1>2, <1>3, <2>1, QueueAppend
  <2>3. TypeOK'
    <3>1. Len(queue') <= QueueSize
      BY <1>3, <1>7, <2>2, FlowLogAssumption
    <3> QED BY <1>7, <2>2, <3>1 DEF IInv, TypeOK, At
  <2>4. Pending(f)'
    BY <1>7 DEF IInv, TypeOK, Pending, Phases, Early
  <2>5. InHand => hand.flow # f
    BY DEF IInv, Writing, Early
  <2>6. ASSUME NEW i \in 1..Len(queue') PROVE i \in 1..Len(queue) \/ i = Len(queue) + 1
    BY <1>3, <2>2
  <2>7. \A i \in 1..Len(queue) : queue[i].verdict = "allow" => queue[i].flow # f
    BY <1>6, ItemsOfFlows DEF IInv, Work
  <2>8. UNCHANGED <<writer, hand, line>> /\ (InHand' <=> InHand)
    BY DEF InHand
  <2>9. ASSUME NEW i \in 1..Len(queue'), queue'[i].verdict = "allow"
        PROVE  Pending(queue[i].flow)' /\ (InHand => queue'[i].flow # hand.flow)
    BY <1>6, <2>2, <2>4, <2>5, <2>6, <2>9, ItemsOfFlows DEF IInv, Work
  <2>10. ASSUME NEW i \in 1..Len(queue'), NEW j \in 1..Len(queue'),
                queue'[i].verdict = "allow", queue'[j].verdict = "allow", queue'[i].flow = queue'[j].flow
         PROVE  i = j
    BY <2>2, <2>6, <2>7, <2>10 DEF IInv, Work
  <2>11. Work'
    BY <1>6, <2>8, <2>9, <2>10, ItemsOfFlows DEF IInv, Work, InHand
  <2> QED BY <1>4, <1>5, <2>3, <2>11 DEF IInv
<1>8. CASE ~(Len(queue) < QueueSize)
  <2>1. TypeOK'
    <3>1. dropped' \in Nat
      BY <1>8 DEF IInv, TypeOK
    <3> QED BY <1>8, <3>1 DEF IInv, TypeOK, At
  <2>2. UNCHANGED <<queue, writer, hand, line>> /\ (InHand' <=> InHand)
    BY <1>8 DEF InHand
  <2>3. Work'
    BY <1>6, <2>2, ItemsOfFlows DEF IInv, Work, InHand
  <2> QED BY <1>4, <1>5, <2>1, <2>3 DEF IInv
<1> QED BY <1>7, <1>8

(* A best-effort record joins the queue, or is counted as lost.            *)
LEMMA BestEffortInv ==
  ASSUME IInv, NEW f \in Flow, NEW v \in Verdict, NEW limited \in BOOLEAN, BestEffort(f, v, limited)
  PROVE  IInv'
<1> USE DEF BestEffort, GoTo, itemVars, writerVars, logVars
<1>1. \A g \in Flow, w \in Verdict : Says(g, w)' <=> Says(g, w)
  BY SaysSame
<1>2. {"allow", "deny"} \subseteq Verdict /\ v # "allow"
  BY DEF Verdict
<1>3. queue \in Seq(Item) /\ Len(queue) \in Nat
  BY DEF IInv, TypeOK
<1>4. Writing' /\ Phases' /\ OneProbe'
  BY DEF IInv, TypeOK, Work, Writing, InHand, Phases, Early, OneProbe, Item
<1>5. Lines'
  BY <1>1, <1>2 DEF IInv, TypeOK, Work, Writing, InHand, Phases, Lines, Item
<1>6. \A g \in Flow : Pending(g) => Pending(g)'
  BY DEF IInv, TypeOK, Pending, Phases, Early
<1>7. CASE ~limited /\ Len(queue) < QueueSize
  <2>1. queue' = Append(queue, AnItem(f, v))
    BY <1>7
  <2>2. /\ queue' \in Seq(Item)
        /\ Len(queue') = Len(queue) + 1
        /\ \A i \in 1..Len(queue) : queue'[i] = queue[i]
        /\ queue'[Len(queue) + 1].verdict # "allow"
    BY <1>2, <1>3, <2>1, QueueAppend
  <2>3. TypeOK'
    <3>1. Len(queue') <= QueueSize
      BY <1>3, <1>7, <2>2, FlowLogAssumption
    <3> QED BY <1>7, <2>2, <3>1 DEF IInv, TypeOK, At
  <2>4. ASSUME NEW i \in 1..Len(queue'), queue'[i].verdict = "allow"
        PROVE  i \in 1..Len(queue) /\ queue'[i] = queue[i]
    BY <1>3, <2>2, <2>4
  <2>5. UNCHANGED <<writer, hand, line>> /\ (InHand' <=> InHand)
    BY DEF InHand
  <2>6. Work'
    BY <1>6, <2>4, <2>5, ItemsOfFlows DEF IInv, Work, InHand
  <2> QED BY <1>4, <1>5, <2>3, <2>6 DEF IInv
<1>8. CASE ~(~limited /\ Len(queue) < QueueSize)
  <2>1. TypeOK'
    <3>1. dropped' \in Nat
      BY <1>8 DEF IInv, TypeOK
    <3> QED BY <1>8, <3>1 DEF IInv, TypeOK, At
  <2>2. UNCHANGED <<queue, writer, hand, line>> /\ (InHand' <=> InHand)
    BY <1>8 DEF InHand
  <2>3. Work'
    BY <1>6, <2>2, ItemsOfFlows DEF IInv, Work, InHand
  <2> QED BY <1>4, <1>5, <2>1, <2>3 DEF IInv
<1> QED BY <1>7, <1>8

(* The writer takes the first record: nobody else has it then.             *)
LEMMA TakeInv == ASSUME IInv, Take PROVE IInv'
<1> USE DEF Take, recordVars, itemVars, logVars
<1>1. \A g \in Flow, v \in Verdict : Says(g, v)' <=> Says(g, v)
  BY SaysSame
<1>2. {"allow", "deny"} \subseteq Verdict
  BY DEF Verdict
<1>3. queue \in Seq(Item) /\ queue # << >> /\ queue' = Tail(queue)
  BY DEF IInv, TypeOK
<1>4. /\ queue' \in Seq(Item)
      /\ Len(queue) \in Nat \ {0}
      /\ Len(queue') = Len(queue) - 1
      /\ hand' = queue[1] /\ hand' \in Item
      /\ \A i \in 1..Len(queue') : i + 1 \in 1..Len(queue) /\ queue'[i] = queue[i + 1]
  BY <1>3, QueueTake
<1>5. TypeOK'
  BY <1>4, FlowLogAssumption DEF IInv, TypeOK
<1>6. writer' = "claim" /\ hand' \in Item /\ hand'.flow \in Flow /\ (InHand' <=> hand'.verdict = "allow")
  BY <1>4 DEF InHand, Item
<1>7. \A g \in Flow : Pending(g)' <=> Pending(g)
  BY DEF Pending
<1>8. hand'.verdict = "allow" => Pending(hand'.flow)
  BY <1>4 DEF IInv, Work
<1>9. ASSUME NEW i \in 1..Len(queue'), queue'[i].verdict = "allow"
      PROVE  Pending(queue[i].flow)' /\ (InHand' => queue'[i].flow # hand'.flow)
  <2>1. i + 1 \in 1..Len(queue) /\ 1 \in 1..Len(queue) /\ i + 1 # 1 /\ queue'[i] = queue[i + 1]
    BY <1>4
  <2>2. queue'[i].flow \in Flow /\ Pending(queue'[i].flow)
    BY <1>9, <2>1, ItemsOfFlows DEF IInv, Work
  <2>3. InHand' => queue'[i].flow # hand'.flow
    BY <1>4, <1>6, <1>9, <2>1 DEF IInv, Work
  <2> QED BY <1>7, <2>2, <2>3
<1>10. ASSUME NEW i \in 1..Len(queue'), NEW j \in 1..Len(queue'),
              queue'[i].verdict = "allow", queue'[j].verdict = "allow", queue'[i].flow = queue'[j].flow
       PROVE  i = j
  <2>1. i + 1 = j + 1
    BY <1>4, <1>10 DEF IInv, Work
  <2> QED BY <2>1
<1>11. Work'
  BY <1>6, <1>7, <1>8, <1>9, <1>10 DEF Work
<1>12. Writing'
  BY <1>6, <1>8 DEF Pending, Writing
<1>13. Phases' /\ OneProbe'
  BY DEF IInv, Phases, OneProbe
<1>14. Lines'
  BY <1>1, <1>2, <1>6, <1>8 DEF IInv, TypeOK, Lines, Pending
<1> QED BY <1>5, <1>11, <1>12, <1>13, <1>14 DEF IInv

(* The writer claims the record, or finds it abandoned.                    *)
LEMMA ClaimInv == ASSUME IInv, Claim PROVE IInv'
<1> USE DEF Claim, Waited, recordVars, logVars
<1>1. \A g \in Flow, v \in Verdict : Says(g, v)' <=> Says(g, v)
  BY SaysSame
<1>2. {"allow", "deny"} \subseteq Verdict /\ hand \in Item /\ hand.flow \in Flow /\ hand.verdict \in Verdict
  BY DEF Verdict, IInv, Work, Item
<1>3. Waited => Pending(hand.flow)
  BY DEF IInv, Work, InHand
<1>4. TypeOK'
  BY <1>2 DEF IInv, TypeOK
<1>5. writer' = "write" /\ (InHand' <=> Waited) /\ (InHand <=> Waited) /\ UNCHANGED <<queue, hand>>
  BY DEF InHand
<1>6. \A g \in Flow : Pending(g) /\ (Waited => g # hand.flow) => Pending(g)'
  BY <1>2 DEF IInv, TypeOK, Pending
<1>7. Work'
  BY <1>2, <1>5, <1>6, ItemsOfFlows DEF IInv, Work
<1>8. Writing'
  BY <1>2, <1>3, <1>5 DEF IInv, TypeOK, Pending, Writing, Phases
<1>9. Phases' /\ OneProbe'
  BY <1>2, <1>3 DEF IInv, TypeOK, Pending, Phases, OneProbe, Early
<1>10. Lines'
  BY <1>1, <1>2, <1>3, <1>5 DEF IInv, TypeOK, Pending, Lines
<1> QED BY <1>4, <1>7, <1>8, <1>9, <1>10 DEF IInv

(* The line is written, or is not.                                         *)
LEMMA WriteInv == ASSUME IInv, NEW ok \in BOOLEAN, Write(ok) PROVE IInv'
<1> USE DEF Write, Waited, recordVars, itemVars
<1>1. /\ {"allow", "deny"} \subseteq Verdict
      /\ hand \in Item /\ hand.flow \in Flow /\ line \in Verdict
      /\ log \in [Flow -> Seq(Verdict)]
  BY DEF Verdict, IInv, TypeOK, Work, Item
<1>2. /\ log' \in [Flow -> Seq(Verdict)]
      /\ \A g \in Flow, v \in Verdict : Says(g, v)' <=> Says(g, v) \/ (ok /\ g = hand.flow /\ v = line)
  <2>1. CASE ok
    BY <1>1, <2>1, SaysAppend
  <2>2. CASE ~ok
    BY <1>1, <2>2, SaysSame
  <2> QED BY <2>1, <2>2
<1>3. TypeOK'
  <2>1. dropped' \in Nat
    BY DEF IInv, TypeOK
  <2> QED BY <1>2, <2>1 DEF IInv, TypeOK
<1>4. /\ writer' \in {"settle", "idle"} /\ (writer' = "settle" <=> Waited)
      /\ (InHand' <=> Waited) /\ (InHand <=> Waited) /\ UNCHANGED <<queue, hand>>
  BY DEF InHand
<1>5. \A g \in Flow : Pending(g)' <=> Pending(g)
  BY DEF Pending
<1>6. Work'
  BY <1>1, <1>4, <1>5, ItemsOfFlows DEF IInv, Work
<1>7. Writing'
  BY <1>1, <1>4 DEF IInv, TypeOK, Writing
<1>8. Phases' /\ OneProbe'
  BY DEF IInv, Phases, OneProbe
<1>9. line = "allow" => Waited /\ state[hand.flow] \in {"writing", "abandonedLate"}
  BY <1>4 DEF IInv, Writing
<1>10. Waited => done[hand.flow] = "none"
  BY <1>4 DEF IInv, Writing
<1>11. Lines'
  BY <1>1, <1>2, <1>4, <1>9, <1>10 DEF IInv, TypeOK, Lines
<1> QED BY <1>3, <1>6, <1>7, <1>8, <1>11 DEF IInv

(* The writer settles whose record it was.                                 *)
LEMMA SettleInv == ASSUME IInv, Settle PROVE IInv'
<1> USE DEF Settle, recordVars, logVars
<1>1. \A g \in Flow, v \in Verdict : Says(g, v)' <=> Says(g, v)
  BY SaysSame
<1>2. {"allow", "deny"} \subseteq Verdict /\ hand \in Item /\ hand.flow \in Flow /\ hand.verdict = "allow"
  BY DEF Verdict, IInv, Work, Item
<1>3. TypeOK'
  BY <1>2 DEF IInv, TypeOK
<1>4. writer' \in {"late", "reply"} /\ InHand' /\ InHand /\ UNCHANGED <<queue, hand>>
  BY <1>2 DEF InHand
<1>5. \A g \in Flow : Pending(g) /\ g # hand.flow => Pending(g)'
  BY <1>2 DEF IInv, TypeOK, Pending
<1>6. Work'
  BY <1>2, <1>4, <1>5, ItemsOfFlows DEF IInv, Work
<1>7. Writing'
  BY <1>2, <1>4 DEF IInv, TypeOK, Writing
<1>8. Phases' /\ OneProbe'
  BY <1>2, <1>4 DEF IInv, TypeOK, Writing, Phases, OneProbe, Early
<1>9. Lines'
  BY <1>1, <1>2, <1>4 DEF IInv, TypeOK, Writing, Lines
<1> QED BY <1>3, <1>6, <1>7, <1>8, <1>9 DEF IInv

(* The refusal that follows a late allow.                                  *)
LEMMA LateRefusalInv == ASSUME IInv, NEW ok \in BOOLEAN, LateRefusal(ok) PROVE IInv'
<1> USE DEF LateRefusal, recordVars, itemVars
<1>1. /\ {"allow", "deny"} \subseteq Verdict /\ "deny" \in Verdict
      /\ hand \in Item /\ hand.flow \in Flow /\ hand.verdict = "allow"
      /\ log \in [Flow -> Seq(Verdict)]
  BY DEF Verdict, IInv, TypeOK, Work, Item
<1>2. /\ log' \in [Flow -> Seq(Verdict)]
      /\ \A g \in Flow, v \in Verdict : Says(g, v)' <=> Says(g, v) \/ (ok /\ g = hand.flow /\ v = "deny")
  <2>1. CASE ok
    BY <1>1, <2>1, SaysAppend
  <2>2. CASE ~ok
    BY <1>1, <2>2, SaysSame
  <2> QED BY <2>1, <2>2
<1>3. TypeOK'
  BY <1>1, <1>2 DEF IInv, TypeOK
<1>4. writer' = "reply" /\ InHand' /\ InHand /\ UNCHANGED <<queue, hand>>
  BY <1>1 DEF InHand
<1>5. \A g \in Flow : Pending(g)' <=> Pending(g)
  BY DEF Pending
<1>6. Work'
  BY <1>1, <1>4, <1>5, ItemsOfFlows DEF IInv, Work
<1>7. Writing'
  BY <1>1, <1>4 DEF IInv, TypeOK, Writing
<1>8. Phases' /\ OneProbe'
  BY DEF IInv, Phases, OneProbe
<1>9. Lines'
  BY <1>1, <1>2, <1>4 DEF IInv, TypeOK, Writing, Lines
<1> QED BY <1>3, <1>6, <1>7, <1>8, <1>9 DEF IInv

(* The writer tells the admission.                                         *)
LEMMA ReplyInv == ASSUME IInv, Reply PROVE IInv'
<1> USE DEF Reply, recordVars, logVars
<1>1. \A g \in Flow, v \in Verdict : Says(g, v)' <=> Says(g, v)
  BY SaysSame
<1>2. {"allow", "deny"} \subseteq Verdict /\ hand \in Item /\ hand.flow \in Flow /\ hand.verdict = "allow"
  BY DEF Verdict, IInv, Work, Item
<1>3. TypeOK'
  BY <1>2 DEF IInv, TypeOK
<1>4. writer' = "idle" /\ ~InHand' /\ InHand /\ UNCHANGED <<queue, hand>>
  BY <1>2 DEF InHand
<1>5. \A g \in Flow : Pending(g) /\ g # hand.flow => Pending(g)'
  BY <1>2 DEF IInv, TypeOK, Pending
<1>6. Work'
  BY <1>2, <1>4, <1>5, ItemsOfFlows DEF IInv, Work
<1>7. Writing'
  BY <1>2, <1>4 DEF IInv, TypeOK, Writing
<1>8. Phases' /\ OneProbe'
  BY <1>2, <1>4 DEF IInv, TypeOK, Writing, Phases, OneProbe, Early
<1>9. Lines'
  BY <1>1, <1>2, <1>4 DEF IInv, TypeOK, Writing, Lines
<1> QED BY <1>3, <1>6, <1>7, <1>8, <1>9 DEF IInv

(* Every step keeps the invariant.                                         *)
LEMMA NextInv == IInv /\ [Next]_vars => IInv'
<1> SUFFICES ASSUME IInv, [Next]_vars PROVE IInv'
  OBVIOUS
<1>1. ASSUME NEW f \in Flow, Record(f) PROVE IInv'
  BY <1>1, RecordInv, EnqueueInv DEF Record
<1>2. ASSUME NEW f \in Flow, NEW v \in Verdict, NEW limited \in BOOLEAN, BestEffort(f, v, limited)
      PROVE  IInv'
  BY <1>2, BestEffortInv
<1>3. ASSUME NEW ok \in BOOLEAN, Write(ok) \/ LateRefusal(ok) PROVE IInv'
  BY <1>3, WriteInv, LateRefusalInv
<1>4. CASE Take \/ Claim \/ Settle \/ Reply
  BY <1>4, TakeInv, ClaimInv, SettleInv, ReplyInv
<1>5. CASE UNCHANGED vars
  <2>1. UNCHANGED <<at, prober, result, queue, state, done, failed, probing, dropped>>
    BY <1>5 DEF vars, recordVars, itemVars
  <2>2. UNCHANGED <<writer, hand, line, wrote, log, unsaid>>
    BY <1>5 DEF vars, writerVars, logVars
  <2>3. TypeOK' /\ Phases' /\ OneProbe' /\ Writing'
    BY <2>1, <2>2 DEF IInv, TypeOK, Phases, OneProbe, Writing, InHand
  <2>4. Work'
    BY <2>1, <2>2 DEF IInv, Work, InHand, Pending
  <2>5. Lines'
    BY <2>1, <2>2 DEF IInv, Lines, Says, InHand
  <2> QED BY <2>3, <2>4, <2>5 DEF IInv
<1> QED BY <1>1, <1>2, <1>3, <1>4, <1>5 DEF Next

(* The invariant holds throughout.                                         *)
LEMMA Invariance == Spec => []IInv
<1>1. Init => IInv
  BY InitInv
<1>2. IInv /\ [Next]_vars => IInv'
  BY NextInv
<1> QED BY <1>1, <1>2, PTL DEF Spec

-----------------------------------------------------------------------------
(* Losses.                                                                 *)

\* The log tells the end of f, or that it was refused.
Told(f) == log[f] # << >> /\ log[f][Len(log[f])] # "allow"

\* The best-effort record of f is still on its way to the file.
LastQueued(f) == \E i \in 1..Len(queue) : queue[i].verdict # "allow" /\ queue[i].flow = f
LastInHand(f) == writer \in {"claim", "write"} /\ hand.verdict # "allow" /\ hand.flow = f

\* A flow that is over, and about which nothing more will come.
Lost == {f \in Flow : at[f] = "over" /\ ~LastQueued(f) /\ ~LastInHand(f) /\ ~Told(f)}

\* The records of a flow are written in their order: its allow record is the
\* first that its log gets, and its best-effort record comes after it.
Ordered ==
  /\ \A f \in Flow : at[f] \in Early => log[f] = << >>
  /\ \A i \in 1..Len(queue) :
       IF queue[i].verdict = "allow"
       THEN log[queue[i].flow] = << >>
       ELSE /\ at[queue[i].flow] = "over"
            /\ \A j \in 1..Len(queue) :
                 queue[j].verdict = "allow" /\ queue[j].flow = queue[i].flow => j < i
  /\ writer \in {"claim", "write"} =>
       IF hand.verdict = "allow"
       THEN log[hand.flow] = << >>
       ELSE /\ at[hand.flow] = "over"
            /\ \A j \in 1..Len(queue) : queue[j].verdict = "allow" => queue[j].flow # hand.flow

LossInv == IsFiniteSet(Lost) /\ Cardinality(Lost) <= dropped

(* A count that grows by one for each flow that is newly lost stays ahead. *)
LEMMA LossGrows ==
  ASSUME LossInv, dropped \in Nat, dropped' \in Nat,
         \/ Lost' \subseteq Lost /\ dropped' >= dropped
         \/ \E x : Lost' \subseteq Lost \cup {x} /\ dropped' = dropped + 1
  PROVE  LossInv'
<1>1. IsFiniteSet(Lost) /\ Cardinality(Lost) \in Nat /\ Cardinality(Lost) <= dropped
  BY FS_CardinalityType DEF LossInv
<1>2. CASE Lost' \subseteq Lost /\ dropped' >= dropped
  <2>1. IsFiniteSet(Lost') /\ Cardinality(Lost') <= Cardinality(Lost)
    BY <1>1, <1>2, FS_Subset
  <2>2. Cardinality(Lost') \in Nat
    BY <2>1, FS_CardinalityType
  <2> QED BY <1>1, <1>2, <2>1, <2>2 DEF LossInv
<1>3. ASSUME NEW x, Lost' \subseteq Lost \cup {x}, dropped' = dropped + 1 PROVE LossInv'
  <2>1. IsFiniteSet(Lost \cup {x}) /\ Cardinality(Lost \cup {x}) <= Cardinality(Lost) + 1
    BY <1>1, FS_AddElement
  <2>2. IsFiniteSet(Lost') /\ Cardinality(Lost') <= Cardinality(Lost \cup {x})
    BY <1>3, <2>1, FS_Subset
  <2>3. Cardinality(Lost') \in Nat /\ Cardinality(Lost \cup {x}) \in Nat
    BY <2>1, <2>2, FS_CardinalityType
  <2> QED BY <1>1, <1>3, <2>1, <2>2, <2>3 DEF LossInv
<1> QED BY <1>2, <1>3

(* A logger that has been started has lost nothing.                        *)
LEMMA InitLoss == Init => Ordered /\ LossInv
<1> SUFFICES ASSUME Init PROVE Ordered /\ LossInv
  OBVIOUS
<1>1. Len(queue) = 0
  BY DEF Init
<1>2. Ordered
  BY <1>1 DEF Init, Ordered
<1>3. Lost = {}
  BY DEF Init, Lost
<1>4. dropped = 0
  BY DEF Init
<1> QED BY <1>2, <1>3, <1>4, FS_EmptySet DEF LossInv

(* A step of an admission that touches neither queue nor file.             *)
LEMMA RecordLoss ==
  ASSUME IInv, Ordered, LossInv, NEW f \in Flow,
         \/ Start(f) \/ Probe(f) \/ TakeResult(f) \/ Expire(f) \/ StillNothing(f)
         \/ Abandon(f) \/ AbandonLate(f) \/ Mark(f) \/ Return(f)
  PROVE  Ordered' /\ LossInv'
<1>1. UNCHANGED <<queue, writer, hand, log, dropped>>
  BY DEF Start, Probe, TakeResult, Expire, StillNothing, Abandon, AbandonLate, Mark, Return,
         writerVars, logVars
<1>2. PICK w : at' = [at EXCEPT ![f] = w] /\ w # "over" /\ (w \in Early => at[f] \in Early)
  BY DEF Start, Probe, TakeResult, Expire, StillNothing, Abandon, AbandonLate, Mark, Return,
         GoTo, Answer, Early
<1>3. at[f] # "over"
  BY DEF Start, Probe, TakeResult, Expire, StillNothing, Abandon, AbandonLate, Mark, Return
<1>4. \A g \in Flow : (at'[g] \in Early => at[g] \in Early) /\ (at'[g] = "over" <=> at[g] = "over")
  BY <1>2, <1>3 DEF IInv, TypeOK
<1>5. Ordered'
  BY <1>1, <1>4, ItemsOfFlows DEF Ordered
<1>6. Lost' = Lost
  BY <1>1, <1>4 DEF Lost, LastQueued, LastInHand, Told
<1> QED BY <1>1, <1>5, <1>6 DEF LossInv

(* An allow record joins the queue: it is the first about its flow.        *)
LEMMA EnqueueLoss ==
  ASSUME IInv, Ordered, LossInv, NEW f \in Flow, Enqueue(f)
  PROVE  Ordered' /\ LossInv'
<1>1. UNCHANGED <<writer, hand, log>> /\ at[f] = "enqueue"
  BY DEF Enqueue, writerVars, logVars
<1>2. queue \in Seq(Item) /\ Len(queue) \in Nat /\ dropped \in Nat /\ at \in [Flow -> At]
  BY DEF IInv, TypeOK
<1>3. \A g \in Flow : (at'[g] \in Early => at[g] \in Early) /\ (at'[g] = "over" <=> at[g] = "over")
  BY <1>1, <1>2 DEF Enqueue, GoTo, Answer, Early
<1>4. log[f] = << >>
  BY <1>1 DEF Ordered, Early
<1>5. CASE Len(queue) < QueueSize
  <2>1. queue' = Append(queue, AnItem(f, "allow")) /\ dropped' = dropped
    BY <1>5 DEF Enqueue
  <2>2. /\ Len(queue') = Len(queue) + 1
        /\ \A i \in 1..Len(queue) : queue'[i] = queue[i]
        /\ queue'[Len(queue) + 1].flow = f /\ queue'[Len(queue) + 1].verdict = "allow"
    BY <1>2, <2>1, QueueAppend DEF Verdict
  <2>3. ASSUME NEW i \in 1..Len(queue') PROVE i \in 1..Len(queue) \/ i = Len(queue) + 1
    BY <1>2, <2>2
  <2>4. \A i \in 1..Len(queue) : i \in 1..Len(queue')
    BY <1>2, <2>2
  <2>5. \A i \in 1..Len(queue) : queue[i].verdict # "allow" => queue[i].flow # f
    BY <1>1 DEF Ordered
  <2>6. writer \in {"claim", "write"} /\ hand.verdict # "allow" => hand.flow # f
    BY <1>1 DEF Ordered
  <2>7. ASSUME NEW i \in 1..Len(queue')
        PROVE  IF queue'[i].verdict = "allow"
               THEN log[queue'[i].flow] = << >>
               ELSE /\ at[queue'[i].flow] = "over"
                    /\ \A j \in 1..Len(queue') :
                         queue'[j].verdict = "allow" /\ queue'[j].flow = queue'[i].flow => j < i
    <3>1. CASE i = Len(queue) + 1
      BY <1>4, <2>2, <3>1
    <3>2. CASE i \in 1..Len(queue)
      BY <2>2, <2>3, <2>5, <3>2 DEF Ordered
    <3> QED BY <2>3, <3>1, <3>2
  <2>8. writer \in {"claim", "write"} =>
          IF hand.verdict = "allow"
          THEN log[hand.flow] = << >>
          ELSE /\ at[hand.flow] = "over"
               /\ \A j \in 1..Len(queue') : queue'[j].verdict = "allow" => queue'[j].flow # hand.flow
    BY <2>2, <2>3, <2>6 DEF Ordered
  <2>9. \A i \in 1..Len(queue') : queue'[i].flow \in Flow
    BY <2>2, <2>3, ItemsOfFlows
  <2>10. Ordered'
    BY <1>1, <1>3, <2>7, <2>8, <2>9, ItemsOfFlows DEF Ordered
  <2>11. \A g \in Flow : LastQueued(g)' <=> LastQueued(g)
    BY <2>2, <2>3, <2>4 DEF LastQueued
  <2>12. Lost' = Lost
    BY <1>1, <1>3, <2>11 DEF Lost, LastInHand, Told
  <2> QED BY <2>1, <2>10, <2>12 DEF LossInv
<1>6. CASE ~(Len(queue) < QueueSize)
  <2>1. queue' = queue /\ dropped' = dropped + 1
    BY <1>6 DEF Enqueue
  <2>2. Ordered'
    BY <1>1, <1>3, <2>1, ItemsOfFlows DEF Ordered
  <2>3. Lost' = Lost
    BY <1>1, <1>3, <2>1 DEF Lost, LastQueued, LastInHand, Told
  <2>4. dropped' \in Nat /\ dropped' >= dropped
    BY <1>2, <2>1
  <2> QED BY <1>2, <2>2, <2>3, <2>4, LossGrows
<1> QED BY <1>5, <1>6

(* A best-effort record joins the queue, or is lost and counted.           *)
LEMMA BestEffortLoss ==
  ASSUME IInv, Ordered, LossInv, NEW f \in Flow, NEW v \in Verdict, NEW limited \in BOOLEAN,
         BestEffort(f, v, limited)
  PROVE  Ordered' /\ LossInv'
<1>1. UNCHANGED <<writer, hand, log>> /\ at[f] = "returned" /\ v # "allow"
  BY DEF BestEffort, writerVars, logVars
<1>2. queue \in Seq(Item) /\ Len(queue) \in Nat /\ dropped \in Nat /\ at \in [Flow -> At]
  BY DEF IInv, TypeOK
<1>3. /\ \A g \in Flow : (at'[g] \in Early => at[g] \in Early) /\ (at[g] = "over" => at'[g] = "over")
      /\ \A g \in Flow : g # f => at'[g] = at[g]
      /\ at'[f] = "over"
  BY <1>1, <1>2 DEF BestEffort, GoTo, Early
<1>4. CASE ~limited /\ Len(queue) < QueueSize
  <2>1. queue' = Append(queue, AnItem(f, v)) /\ dropped' = dropped
    BY <1>4 DEF BestEffort
  <2>2. /\ Len(queue') = Len(queue) + 1
        /\ \A i \in 1..Len(queue) : queue'[i] = queue[i]
        /\ queue'[Len(queue) + 1].flow = f /\ queue'[Len(queue) + 1].verdict = v
    BY <1>2, <2>1, QueueAppend
  <2>3. ASSUME NEW i \in 1..Len(queue') PROVE i \in 1..Len(queue) \/ i = Len(queue) + 1
    BY <1>2, <2>2
  <2>4. Len(queue) + 1 \in 1..Len(queue') /\ \A i \in 1..Len(queue) : i \in 1..Len(queue') /\ i < Len(queue) + 1
    BY <1>2, <2>2
  <2>5. ASSUME NEW i \in 1..Len(queue')
        PROVE  IF queue'[i].verdict = "allow"
               THEN log[queue'[i].flow] = << >>
               ELSE /\ at'[queue'[i].flow] = "over"
                    /\ \A j \in 1..Len(queue') :
                         queue'[j].verdict = "allow" /\ queue'[j].flow = queue'[i].flow => j < i
    <3>1. CASE i = Len(queue) + 1
      BY <1>1, <1>3, <2>2, <2>3, <2>4, <3>1
    <3>2. CASE i \in 1..Len(queue)
      <4>1. queue'[i] = queue[i] /\ queue[i].flow \in Flow
        BY <2>2, <3>2, ItemsOfFlows
      <4>2. \A j \in 1..Len(queue') : queue'[j].verdict = "allow" => j \in 1..Len(queue) /\ queue'[j] = queue[j]
        BY <1>1, <2>2, <2>3
      <4> QED BY <1>3, <3>2, <4>1, <4>2 DEF Ordered
    <3> QED BY <2>3, <3>1, <3>2
  <2>6. writer \in {"claim", "write"} =>
          IF hand.verdict = "allow"
          THEN log[hand.flow] = << >>
          ELSE /\ at'[hand.flow] = "over"
               /\ \A j \in 1..Len(queue') : queue'[j].verdict = "allow" => queue'[j].flow # hand.flow
    BY <1>1, <1>3, <2>2, <2>3, ItemsOfFlows DEF Ordered
  <2>7. Ordered'
    BY <1>1, <1>3, <2>5, <2>6 DEF Ordered
  <2>8. \A g \in Flow : (LastQueued(g) => LastQueued(g)') /\ LastQueued(f)'
    BY <1>1, <2>2, <2>4 DEF LastQueued
  <2>9. Lost' \subseteq Lost
    BY <1>1, <1>3, <2>8 DEF Lost, LastInHand, Told
  <2>10. dropped' \in Nat /\ dropped' >= dropped
    BY <1>2, <2>1
  <2> QED BY <1>2, <2>7, <2>9, <2>10, LossGrows
<1>5. CASE ~(~limited /\ Len(queue) < QueueSize)
  <2>1. queue' = queue /\ dropped' = dropped + 1
    BY <1>5 DEF BestEffort
  <2>2. Ordered'
    BY <1>1, <1>3, <2>1, ItemsOfFlows DEF Ordered
  <2>3. Lost' \subseteq Lost \cup {f}
    BY <1>1, <1>3, <2>1 DEF Lost, LastQueued, LastInHand, Told
  <2>4. dropped' \in Nat
    BY <1>2, <2>1
  <2> QED BY <1>2, <2>1, <2>2, <2>3, <2>4, LossGrows
<1> QED BY <1>4, <1>5

(* The writer takes the first record; a best-effort record that it takes   *)
(* has no allow record of its flow behind it.                              *)
LEMMA TakeLoss ==
  ASSUME IInv, Ordered, LossInv, Take
  PROVE  Ordered' /\ LossInv'
<1>1. UNCHANGED <<at, log, dropped>> /\ writer = "idle" /\ writer' = "claim"
  BY DEF Take, recordVars, logVars
<1>2. queue \in Seq(Item) /\ queue # << >> /\ queue' = Tail(queue) /\ hand' = Head(queue) /\ dropped \in Nat
  BY DEF IInv, TypeOK, Take
<1>3. /\ Len(queue) \in Nat \ {0}
      /\ Len(queue') = Len(queue) - 1
      /\ hand' = queue[1]
      /\ \A i \in 1..Len(queue') : i + 1 \in 1..Len(queue) /\ queue'[i] = queue[i + 1]
  BY <1>2, QueueTake
<1>4. 1 \in 1..Len(queue) /\ \A i \in 1..Len(queue) : i # 1 => i - 1 \in 1..Len(queue') /\ queue'[i - 1] = queue[i]
  BY <1>3
<1>5. ASSUME NEW i \in 1..Len(queue')
      PROVE  IF queue'[i].verdict = "allow"
             THEN log[queue'[i].flow] = << >>
             ELSE /\ at[queue'[i].flow] = "over"
                  /\ \A j \in 1..Len(queue') :
                       queue'[j].verdict = "allow" /\ queue'[j].flow = queue'[i].flow => j < i
  <2>1. i + 1 \in 1..Len(queue) /\ queue'[i] = queue[i + 1]
    BY <1>3
  <2>2. ASSUME NEW j \in 1..Len(queue'), queue[i + 1].verdict # "allow",
               queue'[j].verdict = "allow", queue'[j].flow = queue[i + 1].flow
        PROVE  j < i
    <3>1. j + 1 \in 1..Len(queue) /\ queue'[j] = queue[j + 1]
      BY <1>3
    <3>2. j + 1 < i + 1
      BY <2>1, <2>2, <3>1 DEF Ordered
    <3> QED BY <3>2
  <2>3. IF queue[i + 1].verdict = "allow" THEN log[queue[i + 1].flow] = << >> ELSE at[queue[i + 1].flow] = "over"
    BY <2>1 DEF Ordered
  <2> QED BY <2>1, <2>2, <2>3
<1>6. IF hand'.verdict = "allow"
      THEN log[hand'.flow] = << >>
      ELSE /\ at[hand'.flow] = "over"
           /\ \A j \in 1..Len(queue') : queue'[j].verdict = "allow" => queue'[j].flow # hand'.flow
  <2>1. IF queue[1].verdict = "allow" THEN log[queue[1].flow] = << >> ELSE at[queue[1].flow] = "over"
    BY <1>4 DEF Ordered
  <2>2. ASSUME NEW j \in 1..Len(queue'), queue[1].verdict # "allow", queue'[j].verdict = "allow",
               queue'[j].flow = queue[1].flow
        PROVE  FALSE
    <3>1. j + 1 \in 1..Len(queue) /\ queue'[j] = queue[j + 1]
      BY <1>3
    <3>2. j + 1 < 1
      BY <1>4, <2>2, <3>1 DEF Ordered
    <3> QED BY <3>2
  <2> QED BY <1>3, <2>1, <2>2
<1>7. Ordered'
  BY <1>1, <1>5, <1>6 DEF Ordered
<1>8. ASSUME NEW g \in Flow, LastQueued(g) PROVE LastQueued(g)' \/ LastInHand(g)'
  <2>1. PICK i \in 1..Len(queue) : queue[i].verdict # "allow" /\ queue[i].flow = g
    BY <1>8 DEF LastQueued
  <2>2. CASE i = 1
    BY <1>1, <1>3, <2>1, <2>2 DEF LastInHand
  <2>3. CASE i # 1
    BY <1>4, <2>1, <2>3 DEF LastQueued
  <2> QED BY <2>2, <2>3
<1>9. Lost' \subseteq Lost
  BY <1>1, <1>8 DEF Lost, LastInHand, Told
<1> QED BY <1>1, <1>2, <1>7, <1>9, LossGrows

(* Claiming and settling move no record and write nothing.                 *)
LEMMA SettledLoss ==
  ASSUME IInv, Ordered, LossInv, Claim \/ Settle \/ Reply
  PROVE  Ordered' /\ LossInv'
<1>1. UNCHANGED <<at, queue, log, dropped, hand>>
  BY DEF Claim, Settle, Reply, recordVars, logVars
<1>2. writer' \in {"claim", "write"} <=> writer \in {"claim", "write"}
  BY DEF Claim, Settle, Reply
<1>3. Ordered'
  BY <1>1, <1>2 DEF Ordered
<1>4. Lost' = Lost
  BY <1>1, <1>2 DEF Lost, LastQueued, LastInHand, Told
<1> QED BY <1>1, <1>3, <1>4 DEF LossInv

(* What a line that is appended makes of its flow.                         *)
LEMMA ToldAppend ==
  ASSUME NEW g \in Flow, NEW x \in Verdict, log \in [Flow -> Seq(Verdict)],
         log' = [log EXCEPT ![g] = Append(@, x)]
  PROVE  /\ \A f \in Flow : f # g => log'[f] = log[f]
         /\ log'[g] # << >> /\ log'[g][Len(log'[g])] = x
<1>1. log'[g] = Append(log[g], x) /\ log[g] \in Seq(Verdict)
  OBVIOUS
<1>2. Len(log'[g]) = Len(log[g]) + 1 /\ log'[g] # << >> /\ log'[g][Len(log[g]) + 1] = x
  BY <1>1
<1> QED BY <1>2

(* A write: one that fails on a best-effort record is counted.             *)
LEMMA WriteLoss ==
  ASSUME IInv, Ordered, LossInv, NEW ok \in BOOLEAN, Write(ok)
  PROVE  Ordered' /\ LossInv'
<1>1. UNCHANGED <<at, queue, hand>> /\ writer = "write" /\ writer' \notin {"claim", "write"}
  BY DEF Write, recordVars
<1>2. /\ hand.flow \in Flow /\ line \in Verdict /\ log \in [Flow -> Seq(Verdict)] /\ dropped \in Nat
      /\ \A i \in 1..Len(queue) : queue[i].flow \in Flow
  BY <1>1, ItemsOfFlows DEF IInv, TypeOK, Work
<1>3. log' = IF ok THEN [log EXCEPT ![hand.flow] = Append(@, line)] ELSE log
  BY DEF Write
<1>4. dropped' = IF ok \/ hand.verdict = "allow" THEN dropped ELSE dropped + 1
  BY DEF Write, Waited
<1>5. \A f \in Flow : f # hand.flow => log'[f] = log[f]
  BY <1>2, <1>3, ToldAppend
<1>6. at[hand.flow] \notin Early
  BY <1>1 DEF IInv, Writing, InHand, Ordered, Early
<1>7. \A i \in 1..Len(queue) : queue[i].verdict = "allow" => queue[i].flow # hand.flow
  BY <1>1 DEF IInv, Work, InHand, Ordered
<1>8. Ordered'
  BY <1>1, <1>2, <1>5, <1>6, <1>7 DEF Ordered
<1>9. \A f \in Flow : LastQueued(f)' <=> LastQueued(f)
  BY <1>1 DEF LastQueued
<1>10. \A f \in Flow : f # hand.flow => (LastInHand(f)' <=> LastInHand(f)) /\ (Told(f)' <=> Told(f))
  BY <1>1, <1>5 DEF LastInHand, Told
<1>11. dropped' \in Nat /\ dropped' >= dropped
  BY <1>2, <1>4
<1>12. CASE hand.verdict = "allow"
  <2>1. ~Told(hand.flow) /\ ~LastInHand(hand.flow)
    BY <1>1, <1>12 DEF Ordered, Told, LastInHand
  <2>2. Lost' \subseteq Lost
    BY <1>1, <1>9, <1>10, <2>1 DEF Lost
  <2> QED BY <1>2, <1>8, <1>11, <2>2, LossGrows
<1>13. CASE hand.verdict # "allow" /\ ok
  <2>1. line # "allow"
    BY <1>1, <1>13 DEF IInv, Writing
  <2>2. log'[hand.flow] # << >> /\ log'[hand.flow][Len(log'[hand.flow])] = line
    BY <1>2, <1>3, <1>13, ToldAppend
  <2>3. Told(hand.flow)'
    BY <1>1, <2>1, <2>2 DEF Told
  <2>4. Lost' \subseteq Lost
    BY <1>1, <1>9, <1>10, <2>3 DEF Lost
  <2> QED BY <1>2, <1>8, <1>11, <2>4, LossGrows
<1>14. CASE hand.verdict # "allow" /\ ~ok
  <2>1. Lost' \subseteq Lost \cup {hand.flow}
    BY <1>1, <1>9, <1>10 DEF Lost
  <2>2. dropped' = dropped + 1
    BY <1>4, <1>14
  <2> QED BY <1>2, <1>8, <1>11, <2>1, <2>2, LossGrows
<1> QED BY <1>12, <1>13, <1>14

(* The refusal that follows a late allow.                                  *)
LEMMA LateRefusalLoss ==
  ASSUME IInv, Ordered, LossInv, NEW ok \in BOOLEAN, LateRefusal(ok)
  PROVE  Ordered' /\ LossInv'
<1>1. UNCHANGED <<at, queue, hand, dropped>> /\ writer = "late" /\ writer' = "reply"
  BY DEF LateRefusal, recordVars
<1>2. /\ hand.flow \in Flow /\ log \in [Flow -> Seq(Verdict)] /\ dropped \in Nat
      /\ \A i \in 1..Len(queue) : queue[i].flow \in Flow
  BY <1>1, ItemsOfFlows DEF IInv, TypeOK
<1>3. InHand
  BY <1>1 DEF IInv, Work, InHand
<1>4. log' = IF ok THEN [log EXCEPT ![hand.flow] = Append(@, "deny")] ELSE log
  BY DEF LateRefusal
<1>5. /\ \A f \in Flow : f # hand.flow => log'[f] = log[f]
      /\ IF ok THEN log'[hand.flow] # << >> /\ log'[hand.flow][Len(log'[hand.flow])] = "deny"
         ELSE log' = log
  BY <1>2, <1>4, ToldAppend DEF Verdict
<1>6. at[hand.flow] \notin Early
  BY <1>3 DEF IInv, Writing
<1>7. \A i \in 1..Len(queue) : queue[i].verdict = "allow" => queue[i].flow # hand.flow
  BY <1>3 DEF IInv, Work
<1>8. Ordered'
  BY <1>1, <1>2, <1>5, <1>6, <1>7 DEF Ordered
<1>9. \A f \in Flow : Told(f) => Told(f)'
  <2>1. CASE ok
    BY <1>1, <1>5, <2>1 DEF Told
  <2>2. CASE ~ok
    BY <1>5, <2>2 DEF Told
  <2> QED BY <2>1, <2>2
<1>10. Lost' \subseteq Lost
  BY <1>1, <1>9 DEF Lost, LastQueued, LastInHand
<1> QED BY <1>1, <1>2, <1>8, <1>10, LossGrows

(* Every step keeps the count of losses.                                   *)
LEMMA NextLoss == IInv /\ Ordered /\ LossInv /\ [Next]_vars => Ordered' /\ LossInv'
<1> SUFFICES ASSUME IInv, Ordered, LossInv, [Next]_vars PROVE Ordered' /\ LossInv'
  OBVIOUS
<1>1. ASSUME NEW f \in Flow, Record(f) PROVE Ordered' /\ LossInv'
  BY <1>1, RecordLoss, EnqueueLoss DEF Record
<1>2. ASSUME NEW f \in Flow, NEW v \in Verdict, NEW limited \in BOOLEAN, BestEffort(f, v, limited)
      PROVE  Ordered' /\ LossInv'
  BY <1>2, BestEffortLoss
<1>3. ASSUME NEW ok \in BOOLEAN, Write(ok) \/ LateRefusal(ok) PROVE Ordered' /\ LossInv'
  BY <1>3, WriteLoss, LateRefusalLoss
<1>4. CASE Take \/ Claim \/ Settle \/ Reply
  BY <1>4, TakeLoss, SettledLoss
<1>5. CASE UNCHANGED vars
  <2>1. UNCHANGED <<at, queue, dropped, writer, hand, log>>
    BY <1>5 DEF vars, recordVars, writerVars, logVars
  <2>2. Ordered'
    BY <2>1 DEF Ordered
  <2>3. Lost' = Lost
    BY <2>1 DEF Lost, LastQueued, LastInHand, Told
  <2> QED BY <2>1, <2>2, <2>3 DEF LossInv
<1> QED BY <1>1, <1>2, <1>3, <1>4, <1>5 DEF Next

-----------------------------------------------------------------------------
(* The theorems.                                                           *)

(* Every variable of the logger has its type, and the queue stays within   *)
(* its capacity.                                                           *)
THEOREM TypeCorrect == Spec => []TypeOK
<1>1. IInv => TypeOK
  BY DEF IInv
<1> QED BY <1>1, Invariance, PTL

(* No record, no flow: whatever admission and writer race for, a flow that *)
(* record admits has its allow line in the file.                           *)
THEOREM NoRecordNoFlowHolds == Spec => []NoRecordNoFlow
<1>1. IInv => NoRecordNoFlow
  BY DEF IInv, Lines, NoRecordNoFlow
<1> QED BY <1>1, Invariance, PTL

(* A refused flow that the log calls allowed is called refused as well,    *)
(* unless the disk failed on that line.                                    *)
THEOREM RefusedIsNotAllowedHolds == Spec => []RefusedIsNotAllowed
<1>1. IInv => RefusedIsNotAllowed
  <2> SUFFICES ASSUME IInv, NEW f \in Flow, result[f] = "refuse", done[f] # "none", Says(f, "allow")
               PROVE  Says(f, "deny") \/ f \in unsaid
    BY DEF RefusedIsNotAllowed
  <2>1. state[f] \in {"written", "abandoned", "abandonedLate"}
    BY DEF IInv, Phases
  <2>2. state[f] # "abandoned" /\ done[f] # "error"
    BY DEF IInv, Lines
  <2>3. state[f] # "written"
    BY <2>2 DEF IInv, Phases
  <2> QED BY <2>1, <2>2, <2>3 DEF IInv, Lines
<1> QED BY <1>1, Invariance, PTL

(* One call at a time probes a failing log, and every way out of record    *)
(* ends its probe.                                                         *)
THEOREM OneProbeHolds == Spec => []OneProbe
<1>1. IInv => OneProbe
  BY DEF IInv
<1> QED BY <1>1, Invariance, PTL

(* Nothing is lost without being counted: once everything is written, the  *)
(* flows whose end the log does not tell are at most as many as the        *)
(* counter of dropped records says.                                        *)
THEOREM LossesCountedHolds == Spec => []LossesCounted
<1>1. IInv /\ Ordered /\ LossInv => LossesCounted
  <2> SUFFICES ASSUME LossInv, queue = << >>, writer = "idle"
               PROVE  Cardinality({f \in Flow : at[f] = "over" /\
                        (log[f] = << >> \/ log[f][Len(log[f])] = "allow")}) <= dropped
    BY DEF LossesCounted
  <2>1. Len(queue) = 0
    OBVIOUS
  <2>2. {f \in Flow : at[f] = "over" /\ (log[f] = << >> \/ log[f][Len(log[f])] = "allow")} = Lost
    BY <2>1 DEF Lost, LastQueued, LastInHand, Told
  <2> QED BY <2>2 DEF LossInv
<1>2. Spec => [](IInv /\ Ordered /\ LossInv)
  BY InitInv, InitLoss, NextInv, NextLoss, PTL DEF Spec
<1> QED BY <1>1, <1>2, PTL
=============================================================================
