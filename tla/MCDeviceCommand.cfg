CONSTANTS
  Slots = {1, 2}
  MaxPresses = 3
  MaxOpened = 2
  MaxRequests = 2
  MaxFrames = 2
  None = None
SPECIFICATION FairCommandSpec
INVARIANTS CommandTypeOK OneDriver IdleShown
PROPERTIES OncePerPress PopupEnds
CHECK_DEADLOCK FALSE
