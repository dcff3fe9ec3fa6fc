SPECIFICATION Spec
CONSTANTS
  Absent = Absent
  Actors = {x, y}
SYMMETRY Exchange
INVARIANTS TypeOK NothingIsLost LedgerTellsTheTruth StateStaysConsistent PressureIsReal
PROPERTIES AnswersAreCurrent HoldsStayReachable
\* histories are bounded
CHECK_DEADLOCK FALSE
