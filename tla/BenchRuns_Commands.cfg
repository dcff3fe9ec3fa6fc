CONSTANTS
    Owners = {r1}
    Nobody = Nobody
SPECIFICATION Spec
PROPERTY NoHoldOutlivesItsRun
CHECK_DEADLOCK FALSE
