\* One config, a send loop that may fail and restart: frames resume.
CONSTANTS
  Calls = {c1}
  Kinds = {"sound"}
  ChanCap = 1
  None = None
  Window = 2
  MaxClock = 5
SPECIFICATION FairPathSpec
PROPERTY SoundConfigTransmits
CHECK_DEADLOCK FALSE
