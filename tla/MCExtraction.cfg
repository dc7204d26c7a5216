SPECIFICATION Spec
CONSTANTS
  j1 = j1
  j2 = j2
  t1 = t1
  t2 = t2
  p = p
  Texts = {}
  Job = {j1, j2}
  Tenant = {t1, t2}
  Fingerprint = {p}
  Documents <- MCDocuments
  Readings <- MCReadings
  OcrConfidence = {90}
  Payloads <- MCPayloads
  Type = {"other"}
  Other = "other"
  MaxCorrections = 2
  Verifier = TRUE
  AutoSelectMin = 80
  AssistThreshold = 65
CHECK_DEADLOCK FALSE
INVARIANTS
  
  MemoryIsOwn
  CountsAreExact
PROPERTIES
  VerifierIsBounded
