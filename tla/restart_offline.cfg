SPECIFICATION Spec
CONSTANTS
    Device = {d1}
    Timeout = 2
    Period = 1
    MaxRestarts = 1
INVARIANT SilentIsOffline
