CONSTANTS
    Committers = {c1, c2}
    Runs <- MCRuns
    Mark <- MCRisingMark
    MaxAttempts = 2
    MaxFaults = 0
    MaxLapses = 1
SPECIFICATION Spec
PROPERTIES
    MarkNeverMovesBack
