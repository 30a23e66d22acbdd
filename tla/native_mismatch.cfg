SPECIFICATION Spec
CONSTANTS
  MaxPorts = 1
  MaxRequests = 2
PROPERTIES
  MismatchIsReported
CHECK_DEADLOCK FALSE
