SPECIFICATION Spec
CONSTANTS
  k1 = k1  k2 = k2  f1 = f1  f2 = f2  p1 = p1  p2 = p2  d1 = d1  d2 = d2
  None = None
  Calls = {k1, k2}
  Forms = {f1, f2}
  Phone <- PhoneOf
  Needs <- NeedsOf
  Docs = {d1}
  Type <- OneType
  MaxTries = 1
  MaxCodes = 2
  MaxFaults = 1
SYMMETRY Symmetry
INVARIANTS TypeOK CodeProvesPhone ApprovedIsVerified EvidenceStored
PROPERTIES GuessLimit ArrivedCodeStands
