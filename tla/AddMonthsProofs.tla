--------------------------- MODULE AddMonthsProofs ---------------------------
(***************************************************************************)
(* Proofs about AddMonths, for every date and every number of months.      *)
(***************************************************************************)
EXTENDS AddMonths, TLAPS

LEMMA LengthOfMonth == \A month \in Int : DaysIn(month) \in 28..31
BY DEF DaysIn

\* What setMonth comes to, when the month has that day and when it has not.
LEMMA SetMonthLands ==
  ASSUME NEW d \in Date, NEW month \in Int
  PROVE  /\ d.day <= DaysIn(month) => SetMonth(d, month) = [month |-> month, day |-> d.day]
         /\ d.day > DaysIn(month) =>
              SetMonth(d, month) = [month |-> month + 1, day |-> d.day - DaysIn(month)]
BY LengthOfMonth DEF SetMonth, Normal, Date

\* addMonths agrees with its definition by cutting the day.
LEMMA AddedCuts ==
  ASSUME NEW d \in Date, NEW months \in Int
  PROVE  /\ Added(d, months) = [month |-> d.month + months,
                                day |-> Least(d.day, DaysIn(d.month + months))]
         /\ Added(d, months) \in Date
<1> DEFINE month == d.month + months
           moved == SetMonth(d, month)
<1>1. month \in Int /\ DaysIn(month) \in 28..31 /\ d.day \in 1..31
  BY LengthOfMonth DEF Date
<1>2. CASE d.day <= DaysIn(month)
  <2>1. moved = [month |-> month, day |-> d.day]
    BY <1>1, <1>2, SetMonthLands
  <2>2. Added(d, months) = moved
    BY <2>1 DEF Added
  <2>3. Least(d.day, DaysIn(month)) = d.day
    BY <1>1, <1>2 DEF Least
  <2> QED
    BY <1>1, <1>2, <2>1, <2>2, <2>3 DEF Date
<1>3. CASE d.day > DaysIn(month)
  <2>1. moved = [month |-> month + 1, day |-> d.day - DaysIn(month)]
    BY <1>1, <1>3, SetMonthLands
  <2>2. moved.day # d.day /\ moved.month - 1 = month
    BY <1>1, <2>1
  <2>3. Added(d, months) = [month |-> month, day |-> DaysIn(month)]
    BY <2>2 DEF Added, LastOfPrevious
  <2>4. Least(d.day, DaysIn(month)) = DaysIn(month)
    BY <1>1, <1>3 DEF Least
  <2> QED
    BY <1>1, <2>3, <2>4 DEF Date
<1> QED
  BY <1>1, <1>2, <1>3

-----------------------------------------------------------------------------
IInv == TypeOK /\ Lands

LEMMA InvInit == Init => IInv
<1> SUFFICES ASSUME Init PROVE IInv
  OBVIOUS
<1>1. origin \in Date
  BY OriginAssumption DEF Init, Date
<1>2. TypeOK
  BY <1>1, CallsAssumption DEF Init, TypeOK
<1>3. origin.month + 0 = origin.month /\ Least(origin.day, 31) = origin.day
  BY <1>1 DEF Date, Least
<1>4. origin = [month |-> origin.month, day |-> origin.day]
  BY <1>1 DEF Date
<1> QED
  BY <1>2, <1>3, <1>4, MonthsAssumption DEF Init, IInv, Lands

LEMMA InvStep == IInv /\ [Next]_vars => IInv'
<1> SUFFICES ASSUME IInv, [Next]_vars PROVE IInv'
  OBVIOUS
<1>1. ASSUME NEW months \in Months, Call(months)
      PROVE  IInv'
  <2>1. calls' \in 0..MaxCalls /\ origin' = origin
    BY <1>1, CallsAssumption DEF Call, IInv, TypeOK
  <2>2. CASE date = Invalid \/ months = NaN
    BY <1>1, <2>1, <2>2 DEF Call, IInv, TypeOK, Lands
  <2>3. CASE date # Invalid /\ months # NaN
    <3> DEFINE month == date.month + months
    <3>1. date \in Date /\ months \in Int /\ total \in Int
      BY <2>3, MonthsAssumption DEF IInv, TypeOK, Lands
    <3>2. /\ date' = Added(date, months)
          /\ total' = total + months
          /\ shortest' = Least(shortest, DaysIn(month))
      BY <1>1, <2>3 DEF Call
    <3>3. /\ date' = [month |-> month, day |-> Least(date.day, DaysIn(month))]
          /\ date' \in Date
      BY <3>1, <3>2, AddedCuts
    <3>4. month \in Int /\ DaysIn(month) \in 28..31
      BY <3>1, LengthOfMonth DEF Date
    <3>5. shortest' \in 28..31 /\ total' \in Int
      BY <3>1, <3>2, <3>4 DEF IInv, TypeOK, Least
    <3>6. date.month = origin.month + total /\ date.day = Least(origin.day, shortest)
      BY <3>1, MonthsAssumption DEF IInv, Lands
    <3>7. origin.day \in 1..31 /\ origin.month \in Int /\ shortest \in 28..31
      BY DEF IInv, TypeOK, Date
    <3>8. Least(date.day, DaysIn(month)) = Least(origin.day, shortest')
      BY <3>2, <3>4, <3>6, <3>7 DEF Least
    <3>9. month = origin.month + total'
      BY <3>1, <3>2, <3>6, <3>7
    <3>10. TypeOK'
      BY <2>1, <3>3, <3>5 DEF IInv, TypeOK
    <3>11. Lands'
      BY <2>1, <3>3, <3>5, <3>8, <3>9, MonthsAssumption DEF Lands
    <3> QED
      BY <3>10, <3>11 DEF IInv
  <2> QED
    BY <2>2, <2>3
<1>2. CASE UNCHANGED vars
  BY <1>2 DEF vars, IInv, TypeOK, Lands
<1> QED
  BY <1>1, <1>2 DEF Next

LEMMA Invariance == Spec => []IInv
BY InvInit, InvStep, PTL DEF Spec

-----------------------------------------------------------------------------
(* Theorems.                                                               *)

\* Calls add up to the month they should, and cut the day only to a month they
\* have come to (utils.ts 36-43).
THEOREM CallsAddUp == Spec => []Lands
<1>1. IInv => Lands
  BY DEF IInv
<1> QED
  BY <1>1, Invariance, PTL
=============================================================================
