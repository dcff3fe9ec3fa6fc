SPECIFICATION SpecServices
CONSTANTS
    Loop = loop
    Listeners = {listener}
    Workers = {w1, w2}
    CACHE_TTL = 2
    MAX_CACHE_AGE = 3
    CRITICAL_WAIT = 1
    MaxTime = 6
INVARIANTS TypeOK GateHasOwner
PROPERTIES WarmIsStable WhatIsWatchedStays EventuallySettles
\* a service that has stopped does nothing more
CHECK_DEADLOCK FALSE
