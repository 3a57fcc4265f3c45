------------------------- MODULE MCCoffeeStatistics -------------------------
(* December 2014, a Monday first, and January 2015.  The 29th of December  *)
(* and the days after it belong to the first week of 2015.                 *)
EXTENDS CoffeeStatistics, TLC

MCCalendar == [d \in 1..62 |-> IF d <= 31 THEN 20141200 + d ELSE 20150100 + d - 31]
MCWeekNo   == [d \in 1..62 |-> IF d <= 28 THEN 49 + (d - 1) \div 7 ELSE 1 + (d - 29) \div 7]
MCWeekScopes == {Everybody, OfUser(1)}
\* The two months, ranges that end or begin with a booking, a day, an empty one.
MCRanges == {<<1, 31>>, <<32, 62>>, <<28, 36>>, <<29, 35>>, <<30, 34>>, <<36, 36>>, <<35, 29>>}
=============================================================================
