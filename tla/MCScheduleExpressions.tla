------------------------ MODULE MCScheduleExpressions ------------------------
(* Instances of ScheduleExpressions for TLC.  Years have twelve units; the   *)
(* moon's year begins three or five units after the sun's and has three      *)
(* months, and after them, in even years, a leap month that no expression    *)
(* names.  "cold" lies before the moon's new year, "light" about it.         *)
EXTENDS ScheduleExpressions

MCStart(y) == YearStart(y) + IF y % 2 = 0 THEN 3 ELSE 5
MCMoon == [y \in Years |-> [m \in 1 .. 3 |->
  IF y % 2 = 0 THEN [first |-> MCStart(y) + 4 * (m - 1), days |-> 4]
  ELSE [first |-> MCStart(y) + <<0, 4, 7>>[m], days |-> <<4, 3, 3>>[m]]]]
MCTerm == [light |-> [y \in Years |-> YearStart(y) + 4], cold |-> [y \in Years |-> YearStart(y) + 1]]
MCFestivals == [spring |-> [month |-> 1, day |-> 1], eve |-> [month |-> 3, day |-> lunarDayLast.lo]]

One(n) == [lo |-> n, hi |-> n]
To(m, n) == [lo |-> m, hi |-> n]
Lists(items) == {<<a>> : a \in items} \cup {<<a, b>> : a \in items, b \in items}

\* The same instants of every year.
Occ(offsets) == {YearStart(y) + o : y \in Years, o \in offsets}

MCExpressions ==
       {[rule |-> "fields", fields |-> 6, tail |-> f, occ |-> Occ(o)] :
          f \in Lists({One(12), To(14, 15), One(17), To(15, 13), Bad}), o \in {{1}, {0, 7}}}
  \cup {[rule |-> "fields", fields |-> 5, tail |-> f, occ |-> Occ({1})] :
          f \in {<<One(2)>>, <<One(17)>>, <<One(2), One(12)>>}}
  \cup {[rule |-> "monthly", days |-> f] : f \in Lists({One(4), To(2, 3), lunarDayLast, Bad})}
  \cup {[rule |-> "yearly", months |-> g, days |-> f] :
          g \in {<<To(2, 3)>>, <<One(3), One(1)>>, <<One(4)>>},
          f \in {<<One(4)>>, <<One(4), One(1)>>, <<lunarDayLast, One(1)>>}}
  \cup {[rule |-> "term", names |-> ns] : ns \in Lists({"spring", "eve", "cold"}) \cup {<<"light">>, <<"none">>}}
=============================================================================
