\* Two overlapping SetConfig calls against the eval loop, a gamepad that comes
\* and goes, a quit: safety and liveness.
CONSTANTS
  Calls = {c1, c2}
  Kinds = {"sound", "absent"}
  ChanCap = 1
  None = None
SPECIFICATION FairAdoptionSpec
INVARIANTS
  AdoptionTypeOK
  OutcomeTruthful
  RealTimeOrder
PROPERTIES
  EveryApplierReturns
  DeathNeutralised
