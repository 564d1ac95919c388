SPECIFICATION FairSpec
CONSTANTS
  s1 = s1
  s2 = s2
  a1 = a1
  a2 = a2
  None = None
  Servers = {s1, s2}
  Addresses = {a1, a2}
  UdpConns = 2
  OfferIds = {"good", "absent", "truncated"}
  MaxRefusals = 1
  ChannelSize = 2
INVARIANTS
  LeaseHeld
  ConnFree
PROPERTIES
  NoStaleReply
  GetsAddress
CHECK_DEADLOCK FALSE
