SPECIFICATION Spec
CONSTANTS
  R = 3
  MaxSession = 11
INVARIANTS TypeOK NoFourthStart StopsOnlyOnQuick
CHECK_DEADLOCK FALSE
