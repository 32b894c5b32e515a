\* A user who lets every start, stop and clean-up end: kills, a left-over file.
SPECIFICATION FairSpec
CONSTANTS
    Daemon = {d1, d2}
    NoFile = NoFile
    Leftover = Leftover
    MaxKills = 1
    MaxCleans = 1
    Waits = {"start", "stop"}
INVARIANT
    ServingIsReachable
PROPERTIES
    StopEnds
    StartServes
\* When all processes have ended there is nothing left to do.
CHECK_DEADLOCK FALSE
