SPECIFICATION HistorySpec
CONSTANTS
  t1 = t1
  x1 = x1
  x2 = x2
  q1 = q1
  q2 = q2
  Task = {t1}
  Text = {x1, x2}
  Request = {q1, q2}
PROPERTIES
  AtomicUnlessLate
  SettledStampStays
