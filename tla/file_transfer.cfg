SPECIFICATION Spec
CONSTANTS
    App = {a1, a2}
    Type = {face, voice}
    Name = {n1}
    Total = {1, 3}
    Sum = {"right", "wrong", "none"}
    Disk = {"good", "bad"}
    Timeout = 1
    Period = 1
INVARIANTS
    TypeOK
    SavedIsWhole
    LastOkIsTrue
    NothingLingers
CONSTRAINT SumsOnBadDisk
SYMMETRY Symmetry
