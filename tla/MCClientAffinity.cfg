CONSTANTS
  web = web
  api = api
  c1 = c1
  c2 = c2
  r1 = r1
  r2 = r2
  r3 = r3
  r4 = r4
  u1 = u1
  u2 = u2
  u3 = u3
  addr1 = addr1
  addr2 = addr2
  CounterModulus = 4
  NoUrl = NoUrl
  NullServer = NullServer
  NoAddress = NoAddress
  NoCookie = NoCookie
  Replicas = 2
  AddressHash <- MCAddressHash
  PointHash <- MCPointHash
  UrlHash <- MCUrlHash
  Services <- OneService
  HostOf <- OwnHosts
  Clients <- MCClients
  AddressOf <- MCAddressOf
  Requests <- MCRequests
  Owner <- MCOwner
  Configs <- MCConfigs
  MaxReloads = 2
SYMMETRY MCSymmetry
SPECIFICATION CASpec
\* Every request is answered and no more configurations arrive.
CHECK_DEADLOCK FALSE
INVARIANTS
  CATypeOK
  PinsToServer
  TurnsAreEven
  SameClientSameServer
