SPECIFICATION Spec
CONSTANTS
  Origin <- Origins
  Months <- Arguments
  NaN = NaN
  Invalid = Invalid
  MaxCalls = 3
CHECK_DEADLOCK FALSE
INVARIANT Lands
