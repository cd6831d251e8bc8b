\* The eval loop and one stream handler share the arm chain.
CONSTANTS
  Loop = loop
  Viewers = {v1}
  MinHold = 2
  MaxHold = 3
  MaxPresses = 3
  None = None
SPECIFICATION ArmSpec
INVARIANT ArmTypeOK
PROPERTY FreshArm
