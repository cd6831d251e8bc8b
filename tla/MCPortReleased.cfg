\* Start and stop: is the port given back?
CONSTANTS
  Sups = {s1, s2}
  Ports = {p1, p2}
  Sends = {d1, d2}
  Recvs = {r1, r2}
  Operators = {o1}
  SendCap = 1
  None = None
SPECIFICATION FairLinkSpec
PROPERTIES
  StopReleasesPort
