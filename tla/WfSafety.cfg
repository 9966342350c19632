CONSTANTS
  Worker = {w1, w2}
  Proc = {p1, p2}
  Request = {q1}
  MaxSteps = 7
  Starter = {w1}
  MaxCalls = 4
  MaxFaults = 1
  Nobody = Nobody
SYMMETRY Symmetry
SPECIFICATION Spec
CHECK_DEADLOCK FALSE
INVARIANTS
  ViewTruthful
  ExclusiveUntilLapse
  WaitingIsSubmitted
  StrandedOnlyByFault
PROPERTIES
  FinalStaysFinal
