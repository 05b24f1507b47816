------------------------- MODULE ScheduleExpressions -------------------------
(***************************************************************************)
(* What a cron expression means: the parser of scheduler/lunar_parser.go    *)
(* and yearly_parser.go, and the schedules it makes, whose Next the cron    *)
(* library calls at every registration and after every firing.              *)
(*                                                                         *)
(* A field is a list of items: a value or an interval is [lo, hi],          *)
(* lunarDayLast is "last", Bad is anything else.  The five standard         *)
(* fields (four, with "*" for the day of the week, where the fifth is a     *)
(* year) stand for the set of times they match.  A time is a number; year   *)
(* y of the sun begins with YearStart(y).  The moon's calendar is given:    *)
(* month m of the moon's year y begins Moon[y][m].first and has             *)
(* Moon[y][m].days days of one unit each, and the solar term n falls on     *)
(* Term[n][y].                                                              *)
(***************************************************************************)
EXTENDS Integers, SequencesExt

CONSTANTS
  FirstYear, LastYear,  \* bound: the years of the model
  YearLen,              \* units of time in a year
  yearMin, yearMax,     \* the years a field may name
  FourDigits,           \* the numbers written with four digits
  Moon, Term,           \* the calendars
  lunarFestivals,       \* name -> [month, day]
  MonthsInYear,         \* 12
  Probe,                \* years the cron library looks ahead (5)
  Lookahead,            \* lunarMaxLookaheadYears (8)
  Expressions           \* bound: those that are registered

Years == FirstYear .. LastYear
Times == 0 .. YearLen * (LastYear + 1 - FirstYear) - 1

ASSUME CalendarAssumption ==
  /\ FirstYear \in Nat /\ LastYear \in Nat /\ YearLen \in Nat \ {0}
  /\ yearMin \in FourDigits /\ yearMax \in FourDigits /\ FourDigits \subseteq Nat
  /\ MonthsInYear \in Nat /\ Probe \in Nat /\ Lookahead \in Nat /\ Probe <= Lookahead

lunarDayLast == [lo |-> -1, hi |-> -1]
Bad  == [lo |-> -2, hi |-> -2]
Field == Seq([lo : Int, hi : Int])
Zero == -1              \* time.Time{}: no further time
Error == [kind |-> "error"]

YearStart(y) == (y - FirstYear) * YearLen
YearOf(t) == FirstYear + (t \div YearLen)
After(S, t) == {x \in S : x > t}
Earliest(S) == IF S = {} THEN Zero ELSE Min(S)

\* The first of a list that is later than t, in the order of the list.
FirstAfter(s, t) ==
  LET later == {k \in DOMAIN s : s[k] > t}
  IN IF later = {} THEN Zero ELSE s[Min(later)]

\* A year of the moon begins in the year of the sun with its number and ends
\* before its next one begins, in the year after.
ASSUME MoonAssumption ==
  \A y \in Years, m \in 1 .. MonthsInYear :
    LET month == Moon[y][m]
        last  == month.first + month.days - 1
    IN /\ month.first \in Nat /\ month.days \in Nat \ {0}
       /\ YearStart(y) <= month.first /\ last < YearStart(y + 2)
       /\ y + 1 \in Years => \A k \in 1 .. MonthsInYear : last < Moon[y + 1][k].first

ASSUME TermAssumption ==
  /\ \A n \in DOMAIN Term, y \in Years : Term[n][y] \in Nat /\ YearOf(Term[n][y]) = y
  /\ \A n \in DOMAIN lunarFestivals :
       /\ lunarFestivals[n].month \in 1 .. MonthsInYear
       /\ lunarFestivals[n].day \in (Nat \ {0}) \cup {lunarDayLast.lo}

ASSUME ExpressionAssumption ==
  \A e \in Expressions :
    \/ e \in [rule : {"fields"}, fields : Nat, tail : Field, occ : SUBSET Times]
    \/ e \in [rule : {"monthly"}, days : Field]
    \/ e \in [rule : {"yearly"}, months : Field, days : Field]
    \/ e \in [rule : {"term"}, names : Seq(STRING)]

-----------------------------------------------------------------------------
(* Fields.                                                                  *)

Values(f) == UNION {f[i].lo .. f[i].hi : i \in DOMAIN f}

Valid(x, min, max) == x.lo <= x.hi /\ x.lo >= min /\ x.hi <= max
Within(f, min, max) == f # <<>> /\ \A i \in DOMAIN f : Valid(f[i], min, max)

\* Without duplicates, in ascending order: each value at its rank.
Ascending(S) ==
  [i \in 1 .. Cardinality(S) |-> CHOOSE x \in S : Cardinality({y \in S : y < x}) = i - 1]

\* Mutated: the values in the order in which they were written.
parseYearList_AsWritten(f) == FlattenSeq([i \in DOMAIN f |-> Ascending(f[i].lo .. f[i].hi)])

parseYearList(f) == Ascending(Values(f))

\* Days keep the order they are written in, and their duplicates.
parseDayField(f) ==
  FlattenSeq([i \in DOMAIN f |-> IF f[i] = lunarDayLast THEN <<lunarDayLast.lo>> ELSE Ascending(f[i].lo .. f[i].hi)])

validDays(f) == f # <<>> /\ \A i \in DOMAIN f : (f[i] = lunarDayLast \/ Valid(f[i], 1, 30))

\* Every item a number of four digits, or two of them.
yearish(f) == f # <<>> /\ \A i \in DOMAIN f : {f[i].lo, f[i].hi} \subseteq FourDigits

looksLikeYearSpec(e) == e.fields = 6 \/ (e.fields = 5 /\ yearish(e.tail))

-----------------------------------------------------------------------------
(* Standard fields with a list of years: the library finds the next time of *)
(* the fields, unless it lies more than Probe years ahead.                  *)

SpecNext(S, t) == Earliest({x \in After(S, t) : YearOf(x) <= YearOf(t) + Probe})

parseYearlySpec(e) ==
  IF Within(e.tail, yearMin, yearMax)
  THEN [kind |-> "years", occ |-> e.occ, years |-> parseYearList(e.tail)]
  ELSE Error

nextYearAfter(years, y) == FirstAfter(years, y)

\* One round of the search: the next time of the fields, if its year is in the
\* list, or the start of the first year of the list after it.
Round(s, t) ==
  LET cand == SpecNext(s.occ, t)
      year == YearOf(cand)
      next == nextYearAfter(s.years, year)
  IN CASE t = Zero \/ cand = Zero -> [found |-> Zero, from |-> Zero]
       [] t # Zero /\ cand # Zero /\ Contains(s.years, year) -> [found |-> cand, from |-> Zero]
       [] OTHER -> [found |-> Zero,
                    from |-> IF year > s.years[Len(s.years)] \/ next = Zero THEN Zero ELSE YearStart(next)]

\* At most Len(years) + 2 rounds, each from where the last one left off.
Rounds(s, t) ==
  LET rounds[n \in 1 .. Len(s.years) + 2] == Round(s, IF n = 1 THEN t ELSE rounds[n - 1].from)
  IN rounds

YearlyNext(s, t) ==
  Earliest({Rounds(s, t)[n].found : n \in 1 .. Len(s.years) + 2} \ {Zero})

-----------------------------------------------------------------------------
(* The moon's schedules.                                                    *)

isKnownTermName(n) == n \in DOMAIN lunarFestivals \cup DOMAIN Term

parseLunarSchedule(e) ==
  CASE e.rule = "monthly" /\ validDays(e.days) ->
         [kind |-> "monthly", months |-> Ascending(1 .. MonthsInYear), days |-> parseDayField(e.days)]
    [] e.rule = "yearly" /\ validDays(e.days) /\ Within(e.months, 1, MonthsInYear) ->
         [kind |-> "yearly", months |-> Ascending(Values(e.months)), days |-> parseDayField(e.days)]
    [] e.rule = "term" /\ \A i \in DOMAIN e.names : isKnownTermName(e.names[i]) ->
         [kind |-> "term", names |-> e.names]
    [] OTHER -> Error

\* The day of a month of the moon's year y, if there is one.
lunarDayInYear(y, m, d) ==
  LET month == Moon[y][m]
      day == IF d = lunarDayLast.lo THEN month.days ELSE d
  IN IF day > month.days THEN <<>> ELSE <<month.first + day - 1>>

\* A festival of the moon's year y, a solar term of the sun's.
termCandidatesInYear(y, n) ==
  IF n \in DOMAIN lunarFestivals
  THEN lunarDayInYear(y, lunarFestivals[n].month, lunarFestivals[n].day)
  ELSE <<Term[n][y]>>

\* In the order in which they are found ...
Found(s, y) ==
  IF s.kind = "term" THEN FlattenSeq([i \in DOMAIN s.names |-> termCandidatesInYear(y, s.names[i])])
  ELSE FlattenSeq([i \in DOMAIN s.months |->
         FlattenSeq([j \in DOMAIN s.days |-> lunarDayInYear(y, s.months[i], s.days[j])])])

\* Mutated: not sorted.
candidatesForYear_Unsorted(s, y) == Found(s, y)

\* ... then sorted.  (Duplicates are left out: only the first after t is read.)
candidatesForYear(s, y) == Ascending(Range(Found(s, y)))

\* The first candidate after t in the first year, from the sun's year of t on,
\* that has one.
LunarNext(s, t) ==
  LET First(y) == FirstAfter(candidatesForYear(s, y), t)
      scanned  == {y \in Years : YearOf(t) <= y /\ y <= YearOf(t) + Lookahead}
      hit == {y \in scanned : First(y) # Zero}
  IN IF hit = {} THEN Zero ELSE First(Min(hit))

-----------------------------------------------------------------------------

Parse(e) ==
  CASE e.rule # "fields" -> parseLunarSchedule(e)
    [] e.rule = "fields" /\ looksLikeYearSpec(e) -> parseYearlySpec(e)
    [] OTHER -> [kind |-> "standard", occ |-> e.occ]

\* NextRun, and what the library does with a registered expression.
NextTime(s, t) ==
  CASE s.kind = "error" -> Zero
    [] s.kind = "standard" -> SpecNext(s.occ, t)
    [] s.kind = "years" -> YearlyNext(s, t)
    [] OTHER -> LunarNext(s, t)

-----------------------------------------------------------------------------
(* What an expression means, whatever Next makes of it: the times written   *)
(* down for each year.                                                      *)

Matches(f, d, days) == \E i \in DOMAIN f : IF f[i] = lunarDayLast THEN d = days ELSE d \in f[i].lo .. f[i].hi

Written(e, y) ==
  CASE e.rule = "fields" ->
         {x \in e.occ : YearOf(x) = y /\ (looksLikeYearSpec(e) => y \in Values(e.tail))}
    [] e.rule = "term" -> UNION {Range(termCandidatesInYear(y, n)) : n \in Range(e.names)}
    [] e.rule \in {"monthly", "yearly"} ->
         UNION {{Moon[y][m].first + d - 1 : d \in {d \in 1 .. Moon[y][m].days : Matches(e.days, d, Moon[y][m].days)}} :
                m \in IF e.rule = "monthly" THEN 1 .. MonthsInYear ELSE Values(e.months)}

Meaning(e) == UNION {Written(e, y) : y \in Years}
Accepted == {e \in Expressions : Parse(e) # Error}
Festive(e) == e.rule # "term" \/ \E n \in Range(e.names) : n \in DOMAIN lunarFestivals
Mixed(e)   == Festive(e) /\ e.rule = "term" /\ \E n \in Range(e.names) : n \in DOMAIN Term

-----------------------------------------------------------------------------
(* A registered expression: the library computes the next time when the     *)
(* entry is added and whenever it fires; a restart adds the entry anew.     *)

VARIABLES expr, from, due   \* from: the time for which due was computed
entryVars == <<expr, from, due>>

RegisterAt(e, t) == expr = e /\ from = t /\ due = NextTime(Parse(e), t)

EntryInit == \E e \in Accepted, t \in Times : RegisterAt(e, t)

EntryFires ==
  /\ due # Zero
  /\ from' = due
  /\ due' = NextTime(Parse(expr), due)
  /\ UNCHANGED expr

EntryRestarts ==
  /\ \E t \in Times : t > from /\ (due = Zero \/ t < due) /\ from' = t
  /\ due' = NextTime(Parse(expr), from')
  /\ UNCHANGED expr

EntryNext == EntryFires \/ EntryRestarts
EntrySpec == EntryInit /\ [][EntryNext]_entryVars

-----------------------------------------------------------------------------

\* The times passed over, as far as the library would have looked.
Skipped == {x \in After(Meaning(expr), from) :
              YearOf(x) <= YearOf(from) + Probe /\ (due = Zero \/ x < due)}
IsTime  == due = Zero \/ due \in After(Meaning(expr), from)

\* YearlySpecSchedule.Next, "the next time after t whose year is in the list":
\* it returns a time of the expression, and passes over none - but for one at
\* the first instant of a year to which it has jumped, because the library
\* looks strictly after the instant it is given.
YearlyNextIsFirst ==
  expr.rule = "fields" =>
    /\ IsTime
    /\ \A x \in Skipped : x = YearStart(YearOf(x)) /\ \E z \in expr.occ : from < z /\ z < x

\* LunarSchedule.Next, "the next time of the moon's rule after t": it returns a
\* time of the expression, and passes over none - but for those of the moon's
\* year that began in the sun's year before t, because it scans from the moon's
\* year with the number of the sun's year of t; and but for lists of both
\* festivals and solar terms, where the two kinds of year overlap.
LunarNextIsFirst ==
  expr.rule # "fields" =>
    /\ IsTime
    /\ \A x \in Skipped :
         Mixed(expr) \/ (Festive(expr) /\ YearOf(from) > FirstYear /\ x \in Written(expr, YearOf(from) - 1))
=============================================================================
