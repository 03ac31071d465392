----------------------------- MODULE Deadlines ------------------------------
(***************************************************************************)
(* The calendar date a spoken deadline stands for, seen from the day of    *)
(* the meeting (deadlines.py).  A phrase is a record of its kind and the   *)
(* numbers in it: the words and their spelling are left out.               *)
(*                                                                         *)
(* A date is the number of days since the first day of FirstYear, whose    *)
(* weekday is FirstWeekday (0 is Monday).                                  *)
(***************************************************************************)
EXTENDS Integers, FiniteSetsExt

CONSTANTS
    FirstYear, LastYear, FirstWeekday,
    Unresolved,     \* no date
    Phrases,        \* inputs
    Days            \* inputs: days of meetings

ASSUME YearsAssumption ==
    FirstYear \in Nat /\ LastYear \in Nat /\ FirstYear <= LastYear /\ FirstWeekday \in 0..6
ASSUME UnresolvedAssumption == Unresolved \notin Int
ASSUME PhrasesAssumption ==
    \A p \in Phrases :
        \/ p.kind \in {"iso", "today", "next week", "this week", "end of month", "next month"}
        \/ p.kind \in {"in days", "in weeks"} /\ p.number \in Nat
        \/ p.kind \in {"weekday", "weekday next week"} /\ p.weekday \in 0..6
        \/ p.kind = "month day" /\ p.month \in 1..12 /\ p.day \in Nat

VARIABLES phrase, today

Leap(y) == y % 4 = 0 /\ (y % 100 # 0 \/ y % 400 = 0)
MonthDays(y, m) == IF m = 2 THEN IF Leap(y) THEN 29 ELSE 28
                   ELSE IF m \in {4, 6, 9, 11} THEN 30 ELSE 31

\* The calendar: its months, numbered from 0, the day each begins (the last number is
\* that of the month after), and the month of a day.
Months == 0..(12 * (LastYear - FirstYear) + 11)
YearOf(k) == FirstYear + k \div 12
MonthOf(k) == (k % 12) + 1
Number(y, m) == 12 * (y - FirstYear) + m - 1

Begin[k \in 0..(12 * (LastYear - FirstYear) + 12)] ==
    IF k = 0 THEN 0 ELSE Begin[k - 1] + MonthDays(YearOf(k - 1), MonthOf(k - 1))

Calendar == 0..(Begin[Number(LastYear + 1, 1)] - 1)
MonthAt == [day \in Calendar |-> CHOOSE k \in Months : day \in Begin[k]..(Begin[k + 1] - 1)]

Year(day) == YearOf(MonthAt[day])
Month(day) == MonthOf(MonthAt[day])
DayOfMonth(day) == day - Begin[MonthAt[day]] + 1
Weekday(day) == (day + FirstWeekday) % 7

\* _safe_date
SafeDate(y, m, d) ==
    IF m \in 1..12 /\ d \in 1..MonthDays(y, m) THEN Begin[Number(y, m)] + d - 1 ELSE Unresolved

LastOf(y, m) == Begin[Number(y, m)] + MonthDays(y, m) - 1

\* The calendar goes on for more than a year after every meeting.
ASSUME DaysAssumption == \A day \in Days : day \in Nat /\ day + 400 \in Calendar

DeadlinesInit == phrase \in Phrases /\ today \in Days
DeadlinesSpec == DeadlinesInit /\ [][UNCHANGED <<phrase, today>>]_<<phrase, today>>

-----------------------------------------------------------------------------
(* Variant: the day itself counts.                                           *)
NextWeekdayToday(base, weekday) == base + ((weekday - Weekday(base)) % 7)

\* _next_weekday, strictly after the day.
NextWeekday(base, weekday) ==
    LET delta == (weekday - Weekday(base)) % 7 IN base + (IF delta = 0 THEN 7 ELSE delta)

NextMonday(base) == base + 7 - Weekday(base)

\* resolve_deadline: the date.
Resolve(p, base) ==
    LET y == Year(base)
        m == Month(base)
    IN CASE p.kind = "iso" -> SafeDate(p.year, p.month, p.day)
         [] p.kind = "today" -> base
         [] p.kind = "in days" -> base + p.number                   \* besok, lusa, n hari lagi
         [] p.kind = "in weeks" -> base + 7 * p.number
         [] p.kind = "next week" -> NextMonday(base) + 4
         [] p.kind = "this week" -> IF Weekday(base) <= 4 THEN base + 4 - Weekday(base) ELSE base
         [] p.kind = "end of month" -> LastOf(y, m)
         [] p.kind = "next month" ->
                LastOf(IF m = 12 THEN y + 1 ELSE y, (m % 12) + 1)
         [] p.kind = "weekday" -> NextWeekday(base, p.weekday)
         [] p.kind = "weekday next week" -> NextMonday(base) + p.weekday
         [] p.kind = "month day" ->
                LET thisYear == SafeDate(y, p.month, p.day)
                IN  IF thisYear # Unresolved /\ thisYear < base
                    THEN SafeDate(y + 1, p.month, p.day) ELSE thisYear

-----------------------------------------------------------------------------
(* What the phrases mean, day by day.                                        *)
Later == (today + 1)..(today + 400)
SameMonth(a, b) == Year(a) = Year(b) /\ Month(a) = Month(b)
MondayOf(day) == CHOOSE d \in (day - 6)..day : Weekday(d) = 0

\* The date of a phrase is the one a calendar shows: the first such weekday after the
\* meeting, that weekday of the week that begins after it, the last day of this month
\* or the next one, the Friday of a week but no day that is over, and the next day
\* with that day and month - across the ends of months and years, and whichever
\* weekday the meeting is on.  No relative phrase gives a day before the meeting.
DeadlineIsTheDay ==
    LET d == Resolve(phrase, today) IN
    /\ d # Unresolved /\ phrase.kind # "iso" => d >= today
    /\ phrase.kind = "weekday" => d = Min({l \in Later : Weekday(l) = phrase.weekday})
    /\ phrase.kind = "weekday next week" =>
          Weekday(d) = phrase.weekday /\ MondayOf(d) = MondayOf(today) + 7
    /\ phrase.kind = "next week" => Weekday(d) = 4 /\ MondayOf(d) = MondayOf(today) + 7
    /\ phrase.kind = "this week" => MondayOf(d) = MondayOf(today) /\ (Weekday(d) = 4 \/ d = today)
    /\ phrase.kind = "end of month" => SameMonth(d, today) /\ ~SameMonth(d + 1, today)
    /\ phrase.kind = "next month" =>
          ~SameMonth(d, today) /\ ~SameMonth(d, d + 1)
          /\ \A b \in today..d : SameMonth(b, today) \/ SameMonth(b, d)
    /\ phrase.kind = "month day" /\ d # Unresolved =>
          d = Min({l \in Later \cup {today} :
                      Month(l) = phrase.month /\ DayOfMonth(l) = phrase.day})
=============================================================================
