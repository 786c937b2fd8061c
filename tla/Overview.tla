------------------------------ MODULE Overview ------------------------------
(***************************************************************************)
(* The overview page of the admin interface (src/web/app.js): it loads the *)
(* traffic of a chosen range, draws it, and loads it again on a timer for  *)
(* as long as the page is open; people change the range, leave the page or *)
(* the tab and come back, and move over the charts while answers are on    *)
(* their way.                                                              *)
(***************************************************************************)
EXTENDS Charts

CONSTANTS Ranges,    \* the ranges that can be chosen
          Line,      \* OV_RANGES: points of the report per point of a line,
          Columns,   \*            and per column
          Reports,   \* the answers the server may give, each of a range
          Offset,    \* the local time zone, in minutes
          MinMax,    \* the least axis of a chart
          Tids       \* slots for loads: the bound on how many overlap

\* Every report has points, and every range groups them.
ASSUME OverviewAssumption ==
    /\ \A rep \in Reports : Len(rep.secs) \in Nat \ {0}
    /\ \A r \in Ranges : Line[r] \in Nat \ {0} /\ Columns[r] \in Nat \ {0}

Charted == {"line", "columns"}
NoReport == [range |-> "none"]
Free == [st |-> "free", range |-> "none", reschedules |-> FALSE]
Blank == [points |-> 0, series |-> <<>>, start |-> 0, step |-> 0]

VARIABLES range,    \* ov.range
          report,   \* ov.report
          error,    \* ov.error is set
          chart,    \* the data of each chart
          idx,      \* the point each chart shows a tooltip for, or Null
          load,     \* the loads that have not finished
          timers,   \* timeouts that are set
          open,     \* the overview is the page that is shown
          hidden    \* the browser tab is hidden

ovVars == <<range, report, error, chart, idx, load, timers, open, hidden>>

OvInit ==
    /\ range \in Ranges    \* from localStorage
    /\ report = NoReport
    /\ error = FALSE
    /\ chart = [c \in Charted |-> Blank]
    /\ idx = [c \in Charted |-> Null]
    /\ load = [t \in Tids |-> Free]
    /\ timers = 0
    /\ open = FALSE
    /\ hidden = FALSE

(***************************************************************************)
(* Loading and polling.                                                    *)
(***************************************************************************)
(* ovLoadTraffic for the range that is chosen now; reschedules: ovSchedule *)
(* follows when this load, and ovLoadState beside it, are done.            *)
OvLoadTraffic(t, r, reschedules) ==
    /\ load[t].st = "free"
    /\ load' = [load EXCEPT ![t] = [st |-> "traffic", range |-> r, reschedules |-> reschedules]]

OvSchedule_adds(left) == timers' = left + 1

(* ovSchedule, with so many timeouts set: the one it knows is cleared.     *)
OvSchedule(left) == timers' = (IF left > 0 THEN left - 1 ELSE left) + 1

(* refreshOverview: the page is opened.                                    *)
ShowOverview(t) ==
    /\ open' = TRUE
    /\ OvLoadTraffic(t, range, TRUE)
    /\ UNCHANGED <<range, report, error, chart, idx, timers, hidden>>

LeavePage ==
    /\ open /\ open' = FALSE
    /\ UNCHANGED <<range, report, error, chart, idx, load, timers, hidden>>

HideTab ==
    /\ ~hidden /\ hidden' = TRUE
    /\ UNCHANGED <<range, report, error, chart, idx, load, timers, open>>

(* visibilitychange.                                                       *)
ShowTab(t) ==
    /\ hidden /\ hidden' = FALSE
    /\ IF open THEN OvLoadTraffic(t, range, TRUE) ELSE UNCHANGED load
    /\ UNCHANGED <<range, report, error, chart, idx, timers, open>>

OvSetRange(t, r) ==
    /\ open /\ ~hidden
    /\ range' = r
    /\ OvLoadTraffic(t, r, FALSE)
    /\ OvSchedule(timers)
    /\ UNCHANGED <<report, error, chart, idx, open, hidden>>

TimerFires_once(t) ==
    /\ timers > 0
    /\ timers' = timers - 1
    /\ open /\ ~hidden
    /\ OvLoadTraffic(t, range, FALSE)
    /\ UNCHANGED <<range, report, error, chart, idx, open, hidden>>

(* The timeout's callback: nothing is loaded for a page nobody sees.       *)
TimerFires(t) ==
    /\ timers > 0
    /\ IF open /\ ~hidden
       THEN OvLoadTraffic(t, range, TRUE) /\ timers' = timers - 1
       ELSE OvSchedule(timers - 1) /\ UNCHANGED load
    /\ UNCHANGED <<range, report, error, chart, idx, open, hidden>>

(***************************************************************************)
(* Drawing.                                                                *)
(***************************************************************************)
Grouped(rep, g) ==
    [points |-> Groups(Len(rep.secs), g), start |-> rep.start, step |-> rep.step * g,
     series |-> [n \in DOMAIN rep.series |-> OvRates(rep.secs, rep.series[n], g, 60)]]

(* Each report as the charts show it when a range is chosen.               *)
Drawn ==
    [r \in Ranges |-> [rep \in Reports |->
        [line |-> Grouped(rep, Line[r]), columns |-> Grouped(rep, Columns[r])]]]

Update_unclamped(data) ==
    /\ chart' = data
    /\ UNCHANGED idx

(* TimeChart.update: the tooltip moves to the last point if its own is     *)
(* gone; with no point at all it is left alone.                            *)
Update(data) ==
    /\ chart' = data
    /\ idx' = [c \in Charted |->
          IF idx[c] = Null \/ data[c].points = 0 THEN idx[c]
          ELSE Min({idx[c], data[c].points - 1})]

(* ovRenderCharts groups by the range that is chosen, not the report's.    *)
OvRenderCharts(rep) == Update(Drawn[range][rep])

(* The Table button of a chart draws the last report once more.            *)
ToggleTable ==
    /\ open /\ ~hidden /\ report # NoReport
    /\ OvRenderCharts(report)
    /\ UNCHANGED <<range, report, error, load, timers, open, hidden>>

(* What follows a load: with ovLoadState done too, ovSchedule.             *)
Finish(t) ==
    load' = [load EXCEPT ![t] = IF @.reschedules THEN [@ EXCEPT !.st = "state"] ELSE Free]

Answered_anyRange(t, rep) ==
    /\ load[t].st = "traffic" /\ rep.range = load[t].range
    /\ error' = FALSE /\ report' = rep /\ OvRenderCharts(rep)
    /\ Finish(t)
    /\ UNCHANGED <<range, timers, open, hidden>>

(* The answer is dropped when the range was changed while it was loading.  *)
Answered(t, rep) ==
    /\ load[t].st = "traffic" /\ rep.range = load[t].range
    /\ IF load[t].range # range THEN UNCHANGED <<report, error, chart, idx>>
       ELSE error' = FALSE /\ report' = rep /\ OvRenderCharts(rep)
    /\ Finish(t)
    /\ UNCHANGED <<range, timers, open, hidden>>

Failed(t) ==
    /\ load[t].st = "traffic"
    /\ error' = TRUE
    /\ Finish(t)
    /\ UNCHANGED <<range, report, chart, idx, timers, open, hidden>>

(* ovLoadState ends, and may have failed.                                  *)
StateLoaded(t) ==
    /\ load[t].st = "state"
    /\ error' \in {error, TRUE}
    /\ OvSchedule(timers)
    /\ load' = [load EXCEPT ![t] = Free]
    /\ UNCHANGED <<range, report, chart, idx, open, hidden>>

(***************************************************************************)
(* Moving over a chart: the pointer (pointAt) and the keys (onKey) both    *)
(* stay between the first and the last point.                              *)
(***************************************************************************)
SetIndex(c, i) ==
    /\ open /\ ~hidden /\ report # NoReport
    /\ i \in 0 .. chart[c].points - 1
    /\ idx' = [idx EXCEPT ![c] = i]
    /\ UNCHANGED <<range, report, error, chart, load, timers, open, hidden>>

ClearHover(c) ==
    /\ idx[c] # Null
    /\ idx' = [idx EXCEPT ![c] = Null]
    /\ UNCHANGED <<range, report, error, chart, load, timers, open, hidden>>

AnswerOf(t) == (\E rep \in Reports : Answered(t, rep)) \/ Failed(t)

OvNext ==
    \/ LeavePage \/ HideTab \/ ToggleTable
    \/ \E t \in Tids :
         \/ ShowOverview(t) \/ ShowTab(t) \/ TimerFires(t)
         \/ \E r \in Ranges : OvSetRange(t, r)
         \/ AnswerOf(t) \/ StateLoaded(t)
    \/ \E c \in Charted : ClearHover(c) \/ \E i \in 0 .. chart[c].points : SetIndex(c, i)

(* A timeout that is set fires and a request is answered or fails.         *)
Fairness ==
    /\ WF_ovVars(\E t \in Tids : TimerFires(t))
    /\ \A t \in Tids : WF_ovVars(AnswerOf(t)) /\ WF_ovVars(StateLoaded(t))

OvSpec == OvInit /\ [][OvNext]_ovVars /\ Fairness

(***************************************************************************)
(* Properties.                                                             *)
(***************************************************************************)
(* However loads, timeouts and changes of the range overlap, at most one   *)
(* timeout is set: coming and going does not make the page poll faster.    *)
OneTimer == timers <= 1

(* What the page shows is of the range that is chosen, unless that range   *)
(* is still loading or the page says that loading failed.                  *)
ReportOfRange ==
    report # NoReport /\ report.range # range
        => error \/ \E t \in Tids : load[t].st = "traffic" /\ load[t].range = range

(* The tooltip of a chart is of a point the chart has, also after a change *)
(* to a range with fewer points.                                           *)
HoverInRange == \A c \in Charted : idx[c] # Null => idx[c] < chart[c].points

(* A chart whose lines or columns all end within the plot, whose axis is   *)
(* less than a step too long and has two to four steps above zero, and     *)
(* whose time axis has three to eight labels.                              *)
Fits(c, d) ==
    LET top == IF c = "line" THEN LineMax(d.series) ELSE ColumnMax(d.series)
        scale == NiceScale(100 * Max({top, MinMax}), 4)
        marks == IF c = "line" THEN {d.series[n][i] : n \in DOMAIN d.series, i \in 1 .. d.points}
                 ELSE UNION {ColumnTops(d.series, i) : i \in 1 .. d.points}
    IN /\ \A v \in marks : 100 * v <= scale.max
       /\ scale.max - 100 * Max({top, MinMax}) < scale.step
       /\ scale.max \div scale.step \in 2 .. 4
       /\ Cardinality(TimeTicks(d.start, d.start + d.points * d.step, Offset)) \in 3 .. 8

Fitting ==
    {d \in UNION {{Drawn[r][rep] : rep \in Reports} : r \in Ranges} :
        \A c \in Charted : Fits(c, d[c])}

(* Whatever has been loaded, also an old report drawn again after a change *)
(* of the range, the charts fit their axes.                                *)
AxisFits == report # NoReport => chart \in Fitting

(* As long as the overview is open in a visible tab it keeps loading.      *)
PollingGoesOn == []<>(~open \/ hidden \/ \E t \in Tids : load[t].st = "traffic")
=============================================================================
