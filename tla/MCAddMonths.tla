---------------------------- MODULE MCAddMonths ----------------------------
(* Instances of AddMonths for TLC: months around the ends of February in   *)
(* leap years and others, among them 2000 and 2100, and around new year.   *)
EXTENDS AddMonths

Month(year, month) == 12 * year + month - 1

Origins == {Month(2000, 2), Month(2020, 1), Month(2020, 3), Month(2021, 12), Month(2099, 12)}

Arguments == (-3..3) \cup {-24, -12, 11, 12, 14, NaN}
=============================================================================
