--------------------------- MODULE CoffeeStatistics ---------------------------
(***************************************************************************)
(* The statistics of the web server.  Every booking has a row in table     *)
(* transactions, whose date is trimmed as the user's setting asks, and     *)
(* after the commit gets a second row, with the full date and the group of *)
(* that moment but no user, in transactionStatistic.  A chart of a user    *)
(* reads the first table, one of a group or of everybody the second.       *)
(*                                                                         *)
(* A day is its place in Calendar, which begins on a Monday that is the    *)
(* first of a month; the hours of a day are left out.  The week chart runs *)
(* two queries at once and draws their rows when both have answered; every *)
(* other chart is one query, a function of the tables.                     *)
(***************************************************************************)
EXTENDS Integers, Sequences, FiniteSetsExt

\* (Operators named Bug... are slips of the code one definition further down
\* could suffer; each is used to show that a property would notice.)

CONSTANTS
  Users, Machine,     \* Machine: the account of the coffee machine
  Groups, NoGroup,    \* NoGroup: groupId NULL
  Kinds,              \* ids of transactionPurposes; above 10: added by admins
  Calendar,           \* the days as numbers yyyymmdd
  WeekNo,             \* WEEK(day, 3), the number of the ISO week of a day
  CupDays,            \* days that a booking may carry
  FirstDay, LastDay,  \* "today" at the start and at most
  WeekScopes,         \* the scopes week charts are asked for
  Ranges,             \* the ranges of days <<from, to>> other charts are asked for
  MaxCups, MaxChanges \* bounds on bookings and on changes by users and admins

Days == DOMAIN Calendar

Year(d)      == Calendar[d] \div 10000
Month(d)     == (Calendar[d] \div 100) % 100
DayNumber(d) == Calendar[d] % 100
MonthDay(d)  == Calendar[d] % 10000     \* 'MM-DD', the key of dateIndexMap

SameMonth(d, e) == Year(d) = Year(e) /\ Month(d) = Month(e)

Monday(d) == d - ((d - 1) % 7)
WeekOf(d) == Monday(d)..Monday(d) + 6

\* A month has all its days from the first on, 28 or more; a week all its days,
\* and the weeks of a year have numbers of their own.  Only the days before its
\* first Monday may have the number of its last week, only those after its last
\* Sunday the number of its first.
ASSUME CalendarAssumption ==
  /\ Calendar \in Seq(Nat)
  /\ WeekNo \in [Days -> 1..53]
  /\ \A d \in Days :
       /\ Month(d) \in 1..12 /\ DayNumber(d) \in 1..d
       /\ SameMonth(d - DayNumber(d) + 1, d)
  /\ \A d, e \in Days : d < e =>
       /\ Calendar[d] < Calendar[e]
       /\ SameMonth(d, e) => DayNumber(e) - DayNumber(d) = e - d
       /\ DayNumber(d) = DayNumber(e) => e - d >= 28
       /\ MonthDay(d) = MonthDay(e) => e - d >= 365
       /\ Monday(d) = Monday(e) => WeekNo[d] = WeekNo[e]
       /\ /\ WeekNo[d] = WeekNo[e] /\ WeekNo[e] < 52 /\ Year(d) = Year(e)
          /\ Monday(e) + 6 \in Days /\ Year(Monday(e)) = Year(Monday(e) + 6)
          => Monday(d) = Monday(e)

Everybody == [of |-> "all", id |-> 0]
OfUser(u) == [of |-> "user", id |-> u]
OfGroup(g) == [of |-> "group", id |-> g]
Scopes == {Everybody} \cup {OfUser(u) : u \in Users} \cup {OfGroup(g) : g \in Groups}

ASSUME StatisticsAssumption ==
  /\ IsFiniteSet(Users) /\ IsFiniteSet(Groups)
  /\ Machine \in Users /\ NoGroup \notin Groups
  /\ Kinds \subseteq Nat \ {0}
  /\ CupDays \subseteq Days
  /\ FirstDay \in Days /\ LastDay \in FirstDay..Len(Calendar) - 6 /\ FirstDay > 14
  /\ WeekScopes \subseteq Scopes /\ Ranges \subseteq Days \X Days
  /\ MaxCups \in Nat /\ MaxChanges \in Nat

VARIABLES
  cups,     \* the bookings in the order of their commits
  group,    \* users.groupId
  setting,  \* users.timeStampPrivatelySetting
  renamed,  \* products that an admin has given another name
  today,
  chart,    \* the week chart that is being made
  changes   \* settings and names changed so far

statisticsVars == <<cups, group, setting, renamed, today, chart, changes>>

-----------------------------------------------------------------------------
(* What is booked and how it is counted.                                   *)

Large     == {2, 4}         \* COFFEE_LARGE, ESPRESSO_LARGE
Single    == {1, 3, 5, 6}   \* COFFEE, ESPRESSO, LATTE, CAPPUCCINO
NotCoffee == {7, 8, 9, 10}  \* MILK, WATER, CREDIT, DEBIT

\* sumCoffees: what a booking counts in the database's own sums.
BugLargeIsOne(k) == IF k \in Large \cup Single THEN 1 ELSE 0
Weight(k) == IF k \in Large THEN 2 ELSE IF k \in Single THEN 1 ELSE 0

\* What a row counts where the handler adds up: a product it does not know
\* is one cup, in the charts that find a line for it.
Height(k) == IF k \in Large THEN 2 ELSE 1

\* The date that goes into table transactions.
BugDayZero(u, k, d) ==
  IF setting[u] = "monthly" /\ k \notin {9, 10} THEN d - DayNumber(d) ELSE d
StoredDate(u, k, d) ==
  IF setting[u] = "monthly" /\ k \notin {9, 10} THEN d - DayNumber(d) + 1 ELSE d

\* The rows a scope is asked from, and the date each of them has there.
BugGroupOfToday(s) ==
  {i \in DOMAIN cups :
     CASE s.of = "user"  -> cups[i].user = s.id
       [] s.of = "group" -> cups[i].counted = "done" /\ group[cups[i].user] = s.id
       [] s.of = "all"   -> cups[i].counted = "done"}
Rows(s) ==
  {i \in DOMAIN cups :
     CASE s.of = "user"  -> cups[i].user = s.id
       [] s.of = "group" -> cups[i].counted = "done" /\ cups[i].group = s.id
       [] s.of = "all"   -> cups[i].counted = "done"}
DateOf(s, i) == IF s.of = "user" THEN cups[i].stored ELSE cups[i].at

RowsOn(s, D) == {i \in Rows(s) : DateOf(s, i) \in D}
CoffeesOn(s, D) == {i \in RowsOn(s, D) : cups[i].kind \notin NotCoffee}

\* A sum is counted: a row that weighs two is there twice.
SumCoffees(S) == Cardinality({c \in S \X {1, 2} : c[2] <= Weight(cups[c[1]].kind)})
AddedUp(S)    == Cardinality({c \in S \X {1, 2} : c[2] <= Height(cups[c[1]].kind)})

\* The sum of the numbers f[d].
Total(f) == Cardinality(UNION {{d} \X (1..f[d]) : d \in DOMAIN f})

\* weekRev.data[e.name] is undefined for a name that is not one of the four.
Listed(i) == cups[i].kind \in Large \/ cups[i].kind \in Single \ renamed

-----------------------------------------------------------------------------
(* The charts of one query.                                                *)

\* isCorrectDateRange
Accepted(from, to, max) == to - from \in 0..max

\* GET /api/statistics/customRange: the bars of 'Total'.
CustomRange(s, from, to) ==
  LET found == CoffeesOn(s, from..to)
  IN  [d \in from..to |->
         AddedUp({i \in found : MonthDay(DateOf(s, i)) = MonthDay(d)})]

CustomRangeFails(s, from, to) == \E i \in CoffeesOn(s, from..to) : ~Listed(i)

\* GET /api/statistics/coffeeConsumption: the total of the pie.
CoffeeConsumption(s, from, to) ==
  LET found    == CoffeesOn(s, from..to)
      slice(K) == AddedUp({i \in found : cups[i].kind \in K})
      others   == {cups[i].kind : i \in found} \ {1, 2, 3, 4}
  IN  slice({1, 2}) + slice({3, 4}) + Total([k \in others |-> slice({k})])

\* GET /api/statistics/monthly and /daily: one of the two series; the hours of
\* a day are added up.
MonthStatistic(s, year) ==
  [m \in 1..12 |-> SumCoffees({i \in Rows(s) : Year(DateOf(s, i)) = year
                                               /\ Month(DateOf(s, i)) = m})]
DayStatistic(s, day) == SumCoffees(RowsOn(s, {day}))

\* The counters of the dashboard: of all time, of the current day, week and
\* month, and the highest there ever was of each.
Counter(s) == SumCoffees(Rows(s))

BugFromSunday(d, e) == Year(d) = Year(e) /\ d \div 7 = e \div 7
SameWeek(d, e)  == Year(d) = Year(e) /\ WeekNo[d] = WeekNo[e]

Count(s, d) ==
  [day   |-> SumCoffees(RowsOn(s, {d})),
   week  |-> SumCoffees({i \in Rows(s) : SameWeek(DateOf(s, i), d)}),
   month |-> SumCoffees({i \in Rows(s) : SameMonth(DateOf(s, i), d)})]
Current(s) == Count(s, today)

Highest(s) ==
  LET dates == {DateOf(s, i) : i \in Rows(s)}
      best(span) == Max({0} \cup {Count(s, d)[span] : d \in dates})
  IN  [span \in {"day", "week", "month"} |-> best(span)]

-----------------------------------------------------------------------------
(* Bookings, settings and names.                                           *)

Sale(u, k, d) == [user |-> u, kind |-> k, group |-> group[u], at |-> d,
                  stored |-> StoredDate(u, k, d), counted |-> "due"]

\* A commit; a booking made at an earlier day may come now.  What nobody can
\* be charged for goes to Machine, which has no group and no trimmed dates.
Book ==
  /\ Len(cups) < MaxCups
  /\ \E u \in Users, k \in Kinds, d \in CupDays :
       d <= today /\ cups' = Append(cups, Sale(u, k, d))
  /\ UNCHANGED <<group, setting, renamed, today, chart, changes>>

\* The second row, inserted after the commit.  If that fails it is only logged.
Counted(i) ==
  /\ cups[i].counted = "due"
  /\ \E outcome \in {"done", "failed"} :
       cups' = [cups EXCEPT ![i].counted = outcome]
  /\ UNCHANGED <<group, setting, renamed, today, chart, changes>>

Changed == changes < MaxChanges /\ changes' = changes + 1

SetGroup ==
  /\ Changed
  /\ \E u \in Users \ {Machine}, g \in Groups :
       g # group[u] /\ group' = [group EXCEPT ![u] = g]
  /\ UNCHANGED <<cups, setting, renamed, today, chart>>

SetPrecision ==
  /\ Changed
  /\ \E u \in Users \ {Machine}, s \in {"full", "monthly"} :
       s # setting[u] /\ setting' = [setting EXCEPT ![u] = s]
  /\ UNCHANGED <<cups, group, renamed, today, chart>>

\* Only the names of these products are looked for.
Rename ==
  /\ Changed
  /\ \E k \in (Kinds \cap Single) \ renamed : renamed' = renamed \cup {k}
  /\ UNCHANGED <<cups, group, setting, today, chart>>

Midnight ==
  /\ today < LastDay
  /\ today' = today + 1
  /\ UNCHANGED <<cups, group, setting, renamed, chart, changes>>

-----------------------------------------------------------------------------
(* GET /api/statistics/weekly                                              *)

Weeks == {"this", "last"}

NoRows    == [w \in Weeks |-> {}]
NoColumns == [w \in Weeks |-> [i \in 0..6 |-> 0]]

Fresh(stage, scope, asked) ==
  [stage |-> stage, scope |-> scope, asked |-> asked, answered |-> FirstDay,
   ran |-> {}, fails |-> FALSE, seen |-> NoRows, columns |-> NoColumns]
NoChart == Fresh("none", Everybody, FirstDay)
Failed  == Fresh("failed", Everybody, FirstDay)

\* momentObjStart is set back twice, so the second query starts two weeks ago.
BugOneWeekBack(w, asked) == IF w = "this" THEN asked - 7..asked ELSE asked - 7..asked - 7
QueryDays(w, asked) == IF w = "this" THEN asked - 7..asked ELSE asked - 14..asked - 7

\* The day of column i; the labels are made when the rows have come.
LabelDay(w, answered, i) ==
  IF w = "this" THEN answered - (6 - i) ELSE answered - 7 - (6 - i)

\* Rows are put into columns by the number of their day in its month; a row
\* whose number no column has is dropped.
Column(w, answered, rows, i) ==
  AddedUp({r \in rows : DayNumber(DateOf(chart.scope, r))
                          = DayNumber(LabelDay(w, answered, i))})

AskWeek ==
  /\ chart.stage = "none"
  /\ \E s \in WeekScopes : chart' = Fresh("running", s, today)
  /\ UNCHANGED <<cups, group, setting, renamed, today, changes>>

Found(w) == CoffeesOn(chart.scope, QueryDays(w, chart.asked))

RunQuery(w) ==
  /\ chart.stage = "running" /\ w \notin chart.ran
  /\ \/ chart' = [chart EXCEPT !.ran = @ \cup {w},
                               !.seen[w] = Rows(chart.scope),
                               !.fails = @ \/ \E i \in Found(w) : ~Listed(i)]
     \/ chart' = Failed
  /\ UNCHANGED <<cups, group, setting, renamed, today, changes>>

AnswerWeek ==
  /\ chart.stage = "running" /\ chart.ran = Weeks
  /\ IF chart.fails
       THEN chart' = Failed
       ELSE chart' = [chart EXCEPT
              !.stage = "shown", !.answered = today,
              !.columns = [w \in Weeks |-> [i \in 0..6 |->
                 Column(w, today, chart.seen[w] \cap Found(w), i)]]]
  /\ UNCHANGED <<cups, group, setting, renamed, today, changes>>

CloseWeek ==
  /\ chart.stage \in {"shown", "failed"}
  /\ chart' = NoChart
  /\ UNCHANGED <<cups, group, setting, renamed, today, changes>>

StatisticsInit ==
  /\ cups = <<>>
  /\ group = [u \in Users |-> NoGroup]
  /\ setting = [u \in Users |-> "full"]
  /\ renamed = {}
  /\ today = FirstDay
  /\ chart = NoChart
  /\ changes = 0

StatisticsNext ==
  \/ Book \/ Midnight \/ SetGroup \/ SetPrecision \/ Rename
  \/ \E i \in DOMAIN cups : Counted(i)
  \/ AskWeek \/ (\E w \in Weeks : RunQuery(w)) \/ AnswerWeek \/ CloseWeek

StatisticsSpec == StatisticsInit /\ [][StatisticsNext]_statisticsVars

-----------------------------------------------------------------------------
StatisticsTypeOK ==
  /\ cups \in Seq([user : Users, kind : Kinds, group : Groups \cup {NoGroup},
                   at : Days, stored : Days, counted : {"due", "done", "failed"}])
  /\ group \in [Users -> Groups \cup {NoGroup}]
  /\ setting \in [Users -> {"full", "monthly"}]
  /\ renamed \subseteq Kinds
  /\ today \in FirstDay..LastDay /\ changes \in 0..MaxChanges
  /\ chart.stage \in {"none", "running", "shown", "failed"}
  /\ chart.scope \in Scopes /\ chart.ran \subseteq Weeks
  /\ chart.asked \in FirstDay..LastDay /\ chart.answered \in FirstDay..LastDay
  /\ chart.seen \in [Weeks -> SUBSET DOMAIN cups]
  /\ chart.columns \in [Weeks -> [0..6 -> Nat]]

\* A column of a week chart shows the coffees of the day it is labelled with, all
\* that were in the table when its query ran and no other, across the ends of months
\* and years.  For each midnight between question and answer the newest column of
\* either week may lack coffees; after three weeks the number of a day may mean two
\* (weekStatistic.js, GET /api/statistics/weekly).
WeekIsTrue ==
  chart.stage = "shown" /\ chart.answered - chart.asked <= 20 =>
    \A w \in Weeks, i \in 0..6 :
      LET day   == IF w = "this" THEN chart.answered + i - 6
                                 ELSE chart.answered + i - 13
          there == {r \in chart.seen[w] : /\ DateOf(chart.scope, r) = day
                                          /\ cups[r].kind \notin NotCoffee}
      IN  /\ chart.columns[w][i] <= AddedUp(there)
          /\ i + (chart.answered - chart.asked) <= 6
               => chart.columns[w][i] = AddedUp(there)

WholeMonth(from, to) ==
  /\ DayNumber(from) = 1 /\ SameMonth(from, to)
  /\ to = Len(Calendar) \/ DayNumber(to + 1) = 1

\* The charts agree: over every range the bars of the days, the pie, the sums of
\* single days and, for whole months, the sum of the month come to the same
\* number, for every scope, as long as no product is in range that only a part of
\* the charts knows (customRange.js, coffeeConsumption.js, dayStatistic.js and
\* monthStatistic.js, each with its own SQL and its own adding up).
ChartsAgree ==
  chart = NoChart =>
    \A s \in Scopes, r \in Ranges :
      LET bars  == CustomRange(s, r[1], r[2])
          total == Total(bars)
      IN  /\ Accepted(r[1], r[2], 31)
          /\ ~CustomRangeFails(s, r[1], r[2])
          => /\ DOMAIN bars = r[1]..r[2]
             /\ total = CoffeeConsumption(s, r[1], r[2])
             /\ total = Total([d \in r[1]..r[2] |-> DayStatistic(s, d)])
             /\ WholeMonth(r[1], r[2]) =>
                  total = MonthStatistic(s, Year(r[1]))[Month(r[1])]

\* Trimmed dates move no coffee into another month and the two tables stay in
\* step: the users' coffees of a month are everybody's, but for the second rows
\* that are due or have failed; the groups' coffees are everybody's, but for those
\* of who had no group (adjustTimestampFromUserSetting, NewTransactionExecutor.js).
CountersAddUp ==
  LET without(M) == SumCoffees({i \in DOMAIN cups : /\ cups[i].counted # "done"
                                                    /\ SameMonth(cups[i].at, M)})
      users(M)  == Total([u \in Users |-> Count(OfUser(u), M).month])
      noGroup   == SumCoffees({i \in Rows(Everybody) : cups[i].group = NoGroup})
      groups    == Total([g \in Groups |-> Counter(OfGroup(g))])
  IN  chart = NoChart =>
      /\ \A M \in CupDays : users(M) = Count(Everybody, M).month + without(M)
      /\ Counter(Everybody) = groups + noGroup

\* The dashboard counts the coffees of the days from Monday to Sunday as the
\* current week, unless the year changes in that week or it is the last of a year,
\* whose number the first days of that year may have, too; no current count is above
\* the highest one (SQLQueries.js, SELECT_CURRENT_CC and SELECT_MAX_CC).
DashboardIsTrue ==
  chart = NoChart => \A s \in Scopes :
    /\ \A span \in {"day", "week", "month"} : Current(s)[span] <= Highest(s)[span]
    /\ Year(Monday(today)) = Year(Monday(today) + 6) /\ WeekNo[today] < 52 =>
         Current(s).week = SumCoffees(RowsOn(s, WeekOf(today)))
=============================================================================
