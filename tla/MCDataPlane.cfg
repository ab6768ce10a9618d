SPECIFICATION Spec
CONSTANTS
    self = self
    gw1 = gw1
    gw2 = gw2
    Self = self
    Node = {self, gw1, gw2}
    Addresses <- Gateways
    Bits = 3
    Lifetime = 0
    MaxKey = 5
    MaxTime = 1
INVARIANTS
    TypeOK
    StartedAgree
    RoutedIsAccepted
    MostSpecificWins
    KernelFollowsSessions
CHECK_DEADLOCK FALSE
