CONSTANTS
    Names = {app, discovery}
    Reserved = {discovery}
    Allowed = {app}
    Streams = {s1, s2}
    Waiters = {w1}
    Drainers = {g1}
    Loops = {d1, d2}
    Cap = 1
    None = None
SPECIFICATION FairSpec
INVARIANTS
    EveryStreamHasOneHolder
    DrainLeavesNothingParked
PROPERTIES
    StreamSettles
    CloseReleasesWaiters
CHECK_DEADLOCK FALSE
