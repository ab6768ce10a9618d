SPECIFICATION Spec
CONSTANTS
    Relay = {"relay1"}
INVARIANTS
    UsedPathDelivers
CHECK_DEADLOCK FALSE
