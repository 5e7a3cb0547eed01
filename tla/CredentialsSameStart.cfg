SPECIFICATION Spec
CONSTANTS
  p1 = p1
  p2 = p2
  b1 = b1
  q1 = q1
  q2 = q2
  Nobody = Nobody
  NoCookie = NoCookie
  Keep = Keep
  Password = {p1, p2}
  Browser = {b1}
  Request = {q1, q2}
  MaxChanges = 2
PROPERTIES
  SameStartOneWins
