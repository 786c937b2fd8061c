------------------------------- MODULE Charts -------------------------------
(***************************************************************************)
(* The arithmetic of the charts (src/web/charts.js) and of the series they *)
(* show (src/web/app.js).  A value is a natural number, or Null where      *)
(* nothing was recorded.  Times are in minutes.                            *)
(***************************************************************************)
EXTENDS Integers, Sequences, FiniteSets, FiniteSetsExt

Null == -1
IsNum(v) == v # Null

(***************************************************************************)
(* Series.  Of n points in groups of g, group k holds these.               *)
(***************************************************************************)
Groups(n, g) == (n + g - 1) \div g
Group(k, n, g) == {i \in 1 .. n : (i - 1) \div g = k - 1}

(* ovRates: counts become rates; a point without a count adds no time, and *)
(* a group without time has no rate.                                       *)
OvRates(secs, values, g, mul) ==
    [k \in 1 .. Groups(Len(values), g) |->
        LET part == {i \in Group(k, Len(values), g) : IsNum(values[i])}
            time == MapThenSumSet(LAMBDA i : secs[i], part)
        IN IF time > 0
           THEN (MapThenSumSet(LAMBDA i : values[i], part) * mul) \div time
           ELSE Null]

(***************************************************************************)
(* The axis.  niceScale works on real numbers; here max is in hundredths   *)
(* of the chart's unit, so that every step it can choose is whole.         *)
(***************************************************************************)
Powers == {1, 10, 100, 1000, 10000, 100000, 1000000}

NiceScale_short(max, ticks) ==
    LET raw == max \div ticks
        mag == Max({p \in Powers : p <= raw})
        step == (IF raw > 5 * mag THEN 10 ELSE IF raw > 2 * mag THEN 5
                 ELSE IF raw > mag THEN 2 ELSE 1) * mag
    IN IF max <= 0 THEN [max |-> 100, step |-> 25] ELSE [max |-> (max \div step) * step, step |-> step]

NiceScale(max, ticks) ==
    LET raw == max \div ticks
        mag == Max({p \in Powers : p <= raw})
        step == (IF raw > 5 * mag THEN 10 ELSE IF raw > 2 * mag THEN 5
                 ELSE IF raw > mag THEN 2 ELSE 1) * mag
        steps == (max + step - 1) \div step
    IN IF max <= 0 THEN [max |-> 100, step |-> 25] ELSE [max |-> steps * step, step |-> step]

TickSteps == {1, 5, 10, 15, 30, 60, 120, 180, 360, 720, 1440}

(* timeTicks: on round boundaries of the local time.                       *)
TimeTicks(start, end, offset) ==
    LET wide == {s \in TickSteps : 7 * s >= end - start}
        step == IF wide = {} THEN 1440 ELSE Min(wide)
    IN {t \in start .. end : (t + offset) % step = 0}

(***************************************************************************)
(* What is drawn.  LineChart takes the largest value, ColumnChart the      *)
(* largest stack.                                                          *)
(***************************************************************************)
Values(series, i) == {n \in DOMAIN series : IsNum(series[n][i])}
Stack(series, i) == MapThenSumSet(LAMBDA n : series[n][i], Values(series, i))

LineMax(series) ==
    Max({0} \cup UNION {{series[n][i] : i \in DOMAIN series[n]} : n \in DOMAIN series})

ColumnMax(series) == Max({0} \cup {Stack(series, i) : i \in DOMAIN series[1]})

(* ColumnChart.draw: each part of a column stands on the parts below it.   *)
ColumnTops(series, i) ==
    {MapThenSumSet(LAMBDA m : series[m][i], {m \in Values(series, i) : m <= n}) :
        n \in Values(series, i)}
=============================================================================
