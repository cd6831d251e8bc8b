\* A config the walk could not account for, replaced by a sound one.
CONSTANTS
  Calls = {c1, c2}
  Kinds = {"truncated", "sound"}
  ChanCap = 1
  None = None
  Window = 1
  MaxClock = 2
SYMMETRY CallSymmetry
CONSTRAINT PatientCalls
ACTION_CONSTRAINT NoStall
SPECIFICATION PathSpec
INVARIANT NoUnresolvedFrame
CHECK_DEADLOCK FALSE
