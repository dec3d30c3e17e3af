SPECIFICATION Spec
CONSTANTS
    App = {a1}
    Type = {face}
    Name = {n1}
    Total = {2}
    Sum = {"right", "wrong"}
    Disk = {"good"}
    Timeout = 2
    Period = 1
INVARIANT LastOkMeansSaved
