SPECIFICATION Spec
CONSTANTS
  Modulus = 4
  MaxSent = 7
  MaxWire = 2
  MaxArrivals = 5
INVARIANT LateIsCounted
CHECK_DEADLOCK FALSE
