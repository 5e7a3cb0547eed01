SPECIFICATION Spec
CONSTANTS
  r1 = r1
  r2 = r2
  w1 = w1
  w2 = w2
  NoOwner = NoOwner
  NoLease = NoLease
  Msg <- MCMsg
  Relay = {r1, r2}
  Owner = {w1, w2}
  OwnerOf <- TwoWorkers
  LeaseSeconds = 2
  BatchSize = 2
  MaxRun = 3
PROPERTIES
  FailureIsNotHot
