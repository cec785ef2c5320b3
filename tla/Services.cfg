SPECIFICATION Spec
CONSTANTS
  A1 = A1  A2 = A2  P = P  R = R
  Accounts = {A1, A2}
  Partners = {P, R}
  RoutedPartners = {R}
  Unknown = Unknown  Empty = Empty  Error = Error  None = None  Mac = Mac
  Confs <- MCConfs
  Requests <- MCRequests
  Callers = {c1, c2}
  Default = Default
  PartnerKeys = {P}
  Retries = 1
  Timeout = 1
  Wait = 0
  RefreshAfter = 0
  TTL = 1
  MaxTime = 3
  NoToken = NoToken
INVARIANTS  TokenFitsConnector CallsSound
PROPERTIES HandedOutValid EveryCallEnds
CHECK_DEADLOCK FALSE
