SPECIFICATION FairSpec
CONSTANTS
  s1 = s1
  a1 = a1
  s2 = s2
  a2 = a2
  None = None
  Servers = {s1}
  Addresses = {a1}
  UdpConns = 2
  OfferIds = {"good", "truncated"}
  MaxRefusals = 2
  ChannelSize = 2
PROPERTY Retries
CHECK_DEADLOCK FALSE
