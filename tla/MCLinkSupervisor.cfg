\* Starts, stops, unplugs and parameter requests, with the smallest send buffer.
CONSTANTS
  Sups = {s1, s2}
  Ports = {p1, p2}
  Sends = {d1, d2}
  Recvs = {r1, r2}
  Operators = {o1, o2}
  SendCap = 1
  None = None
SPECIFICATION FairLinkSpec
INVARIANTS
  LinkTypeOK
  SingleWriter
  ClosedOnlyAfterLoops
PROPERTIES
  
  Reconnects
CONSTRAINT NotOvertaken
