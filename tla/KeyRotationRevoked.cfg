SPECIFICATION Spec
CONSTANTS
    Keys = {k1, k2}
    Workers = {w1, w2}
    MaxQueued = 1
    MaxFaults = 0
    None = None
PROPERTY RevokedStaysRevoked
