\* Does one press toggle once while a handler evaluates the toggle too?
CONSTANTS
  Loop = loop
  Viewers = {v1}
  MinHold = 2
  MaxHold = 3
  MaxPresses = 3
  None = None
SPECIFICATION ArmSpec

PROPERTY OneTogglePerPress
