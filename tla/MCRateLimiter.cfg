\* One tick is a minute: a 2-minute window, the code's 5-minute idle expiry.
CONSTANTS
    a1 = a1
    a2 = a2
    IPs <- MCIPs
    RPS = 2
    Window = 2
    ClientExpiry = 5
    MaxTime = 8
SYMMETRY MCSymmetry
SPECIFICATION Spec
INVARIANT TypeOK
PROPERTY ImplementsWindow
