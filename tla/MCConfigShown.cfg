\* Two overlapping SetConfig calls: is the config GetConfig shows the driven one?
CONSTANTS
  Calls = {c1, c2}
  Kinds = {"sound"}
  ChanCap = 1
  None = None
SPECIFICATION AdoptionSpec
INVARIANT ShownIsDriven
