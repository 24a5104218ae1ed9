CONSTANTS
  client = client
  proxy = proxy
  IPs = {client, proxy}
  CloudflareIPs = {proxy}
  ReverseProxyIPs = {}
  Absent = Absent
  Unparsable = Unparsable
  TTL = 4
  RateLimit = 1
  SecondsPerMinute = 2
  TicksPerSecond = 2
  CountModulus = 3
  MaxStepBack = 1
  MaxSeen = 5
SPECIFICATION FairSpec
INVARIANTS TypeOK AdmissionBound CountsAreRecent NoForeignCharge
PROPERTY RejectedRecovers
