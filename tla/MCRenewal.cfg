SPECIFICATION Spec
CONSTANTS
    self = self
    gw1 = gw1
    gw2 = gw2
    Self = self
    Node = {self, gw1}
    Addresses <- Gateways
    Bits = 3
    Lifetime = 0
    MaxKey = 4
    MaxTime = 0
INVARIANTS
    RoutedReachesTunnel
CHECK_DEADLOCK FALSE
