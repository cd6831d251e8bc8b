\* Two configs of every kind, a send loop that may fail and restart: safety.
CONSTANTS
  Calls = {c1, c2}
  Kinds = {"absent", "truncated", "sound"}
  ChanCap = 1
  None = None
  Window = 2
  MaxClock = 4
SYMMETRY CallSymmetry
CONSTRAINT PatientCalls
SPECIFICATION PathSpec
INVARIANTS
  PathTypeOK
  AtMostOneStaleFrame
  NeverFreshlySeeded
PROPERTIES
  QuietSwap
CHECK_DEADLOCK FALSE
