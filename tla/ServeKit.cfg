SPECIFICATION Spec
CONSTANTS
  MaxDeploys = 3
  Ports = {6969, 7069}
  NoPort = NoPort
INVARIANTS NewestIsConsistent
PROPERTIES ServedInstalls
