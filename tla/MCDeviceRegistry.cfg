\* Three identical gamepads and another, plugged in up to five times.
CONSTANTS
  a1 = a1
  a2 = a2
  a3 = a3
  b1 = b1
  Pads = {a1, a2, a3, b1}
  Derived <- TwoModels
  Readers = {r1}
  MaxPlugs = 5
  None = None
SPECIFICATION DeviceSpec
SYMMETRY Interchangeable
CHECK_DEADLOCK FALSE
INVARIANTS DeviceTypeOK HandlesBalanced ReadersSafe RegistryCurrent
PROPERTY FirstHolderKeeps
