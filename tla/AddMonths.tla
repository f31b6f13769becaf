----------------------------- MODULE AddMonths -----------------------------
(***************************************************************************)
(* addMonths of libs/utils.ts.  It changes the Date it is given, so that   *)
(* calls add up.  setMonth keeps the day and runs over into the next month *)
(* if it does not exist; setDate(0) goes back to the last day of the month *)
(* before.  Months are counted from January of year 0.  The ends of what a *)
(* Date can hold, 270 000 years away, are left out.                        *)
(***************************************************************************)
EXTENDS Integers

CONSTANTS
  Origin,    \* months of the dates to begin with
  Months,    \* what may be given for months: integers and NaN
  NaN,       \* whatever is no number
  Invalid,   \* the Date that is none
  MaxCalls   \* bound: calls with the same Date

ASSUME OriginAssumption == Origin \subseteq Int

ASSUME MonthsAssumption == NaN \notin Int /\ Months \ {NaN} \subseteq Int

ASSUME CallsAssumption == MaxCalls \in Nat

Leap(year) == year % 4 = 0 /\ (year % 100 # 0 \/ year % 400 = 0)

DaysIn(month) ==
  IF month % 12 = 1 THEN (IF Leap(month \div 12) THEN 29 ELSE 28)
  ELSE IF month % 12 \in {3, 5, 8, 10} THEN 30
  ELSE 31

Date == {date \in [month : Int, day : 1..31] : date.day <= DaysIn(date.month)}

ASSUME InvalidAssumption == Invalid \notin Date

VARIABLES
  date,      \* the Date
  origin,    \* what it was at first
  total,     \* the months added so far, NaN if one was none
  shortest,  \* the length of the shortest month it has come to
  calls

vars == <<date, origin, total, shortest, calls>>

TypeOK ==
  /\ date \in Date \cup {Invalid}
  /\ origin \in Date
  /\ total \in Int \cup {NaN}
  /\ shortest \in 28..31
  /\ calls \in 0..MaxCalls

Init ==
  /\ origin \in {d \in [month : Origin, day : 1..31] : d.day <= DaysIn(d.month)}
  /\ date = origin
  /\ total = 0
  /\ shortest = 31
  /\ calls = 0

-----------------------------------------------------------------------------
(* Date.                                                                   *)

\* A day after the end of its month is one of the next month.
Normal(month, day) ==
  IF day > DaysIn(month)
    THEN [month |-> month + 1, day |-> day - DaysIn(month)]
    ELSE [month |-> month, day |-> day]

SetMonth(d, month) == Normal(month, d.day)

\* setDate(0).
LastOfPrevious(d) == [month |-> d.month - 1, day |-> DaysIn(d.month - 1)]

-----------------------------------------------------------------------------
(* addMonths.                                                              *)

\* Mutant of Added: the month the day has run over into is kept.
AddedAndRunOver(d, months) == SetMonth(d, d.month + months)

Added(d, months) ==
  LET moved == SetMonth(d, d.month + months)
  IN  IF moved.day # d.day THEN LastOfPrevious(moved) ELSE moved

Least(m, n) == IF m < n THEN m ELSE n

\* A Date that is invalid, or to which NaN is added, is invalid from then on.
Call(months) ==
  /\ calls < MaxCalls
  /\ calls' = calls + 1
  /\ IF date = Invalid \/ months = NaN
       THEN /\ date' = Invalid
            /\ total' = NaN
            /\ UNCHANGED shortest
       ELSE /\ date' = Added(date, months)
            /\ total' = total + months
            /\ shortest' = Least(shortest, DaysIn(date.month + months))
  /\ UNCHANGED origin

Next == \E months \in Months : Call(months)

Spec == Init /\ [][Next]_vars

-----------------------------------------------------------------------------
(* Properties.                                                             *)

\* However many calls are made with the same Date, it is in the month that lies
\* all the months added away from the first one, forwards or backwards, and on
\* the day it had at first, unless a month it has come to was too short for
\* that: it stays on the last day of the shortest of those (utils.ts 36-43).
Lands ==
  IF total = NaN
    THEN date = Invalid
    ELSE date = [month |-> origin.month + total, day |-> Least(origin.day, shortest)]
=============================================================================
