CONSTANTS
    Owners = {r1, r2}
    Nobody = Nobody
SPECIFICATION Spec
INVARIANTS TypeOK MeasuredUnderHold CleanMeansQuiet PumpFollowsJob
PROPERTIES HoldEndsWithRun CancelFreesSlot OneProcess
\* all runs may be over
CHECK_DEADLOCK FALSE
