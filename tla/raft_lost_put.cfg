SPECIFICATION FairSpec
CONSTANTS
  n1 = n1
  n2 = n2
  n3 = n3
  p1 = p1
  p2 = p2
  g1 = g1
  k1 = k1
  v1 = v1
  None = None
  Node = {n1, n2, n3}
  Call = {p1}
  CampaignCall = {}
  Key = {k1}
  Value = {v1}
  KeyOf <- OneKey
  ValueOf <- SameValue
  MaxTerm = 2
  MaxLost = 1
  MayStop = {}
  MaxInFlight = 3
CONSTRAINT FewInFlight OneCandidatePerTerm
CHECK_DEADLOCK FALSE
PROPERTIES
  LostPutReturns
