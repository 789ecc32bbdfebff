SPECIFICATION Spec
CONSTANTS
    MaxRequests = 2
    MaxFaults = 2
INVARIANTS ServesThroughRefusals
PROPERTIES HandoffStartsNoSecondCore RequestsEndAtTheRealMode Converges
CHECK_DEADLOCK FALSE
