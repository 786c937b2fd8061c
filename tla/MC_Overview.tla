---------------------------- MODULE MC_Overview ----------------------------
(***************************************************************************)
(* Two ranges, the second with fewer points, and reports with gaps, with   *)
(* partly filled intervals, with nothing at all and with much.             *)
(***************************************************************************)
EXTENDS Overview

MCLine == [hour |-> 3, day |-> 1]
MCColumns == [hour |-> 6, day |-> 2]

Hour(start, a, b) ==
    [range |-> "hour", start |-> start, step |-> 5, secs |-> [i \in 1 .. 12 |-> IF i = 12 THEN 5 ELSE 10],
     series |-> <<a, b>>]
Day(start, a, b) ==
    [range |-> "day", start |-> start, step |-> 480, secs |-> <<10, 10, 5>>, series |-> <<a, b>>]

Flat(v) == [i \in 1 .. 12 |-> v]

MCReports ==
    { Hour(7, [i \in 1 .. 12 |-> IF i < 7 THEN Null ELSE i], Flat(1)),
      Hour(1433, Flat(0), Flat(97)),
      Day(0, <<1, Null, 3>>, <<2, Null, 40>>),
      Day(1301, <<Null, Null, Null>>, <<Null, Null, Null>>) }
=============================================================================
