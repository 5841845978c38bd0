SPECIFICATION StreamSpec
CONSTANTS
    Gateways = {g1, g2}
    Numbers = 11
    Window = 1
    Goodbyes = 3
    KeepAlive = 2
    Loss = 5
SYMMETRY Alike
INVARIANTS GatewaysFollow
