\* A user who waits for each command, but not for a stopped process to end.
SPECIFICATION Spec
CONSTANTS
    Daemon = {d1, d2, d3}
    NoFile = NoFile
    Leftover = Leftover
    MaxKills = 0
    MaxCleans = 0
    Waits = {"start"}
CHECK_DEADLOCK FALSE
INVARIANT
    OneServes
