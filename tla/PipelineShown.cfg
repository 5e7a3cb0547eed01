SPECIFICATION Spec
CONSTANTS
  r1 = r1
  r2 = r2
  w1 = w1
  x1 = x1
  q1 = q1
  NoOwner = NoOwner
  NoLease = NoLease
  Msg <- MCMsg
  Relay = {r1, r2}
  Owner = {w1}
  OwnerOf <- OneWorker
  LeaseSeconds = 1
  BatchSize = 1
  MaxRun = 2
  MaxTries = 2
  MaxRuns = 2
  Text = {x1}
  Request = {q1}
INVARIANTS
  DoneIsShown
