\* Starts, stops and clean-ups of three processes that cross in any way.
SPECIFICATION Spec
CONSTANTS
    Daemon = {d1, d2, d3}
    NoFile = NoFile
    Leftover = Leftover
    MaxKills = 0
    MaxCleans = 1
    Waits = {}
SYMMETRY Symmetry
CHECK_DEADLOCK FALSE
INVARIANTS
    TypeOK
    NoStaleFile
    EndIsConsistent
