SPECIFICATION Spec
CONSTANTS
  e1 = e1
  e2 = e2
  p1 = p1
  p2 = p2
  x1 = x1
  x2 = x2
  r1 = r1
  r2 = r2
  d1 = d1
  d2 = d2
  Registration = {r1}
  Deploy = {d1}
  Email = {e1, e2}
  Phone = {p1, p2}
  Password = {x1, x2}
  Form <- Customers
  Environment <- OneAdmin
  MaxBalance = 1
  Listable = {e1, p1}
  Busy = {}
  Garbled = {"unclear"}
  NoInput = NoInput
PROPERTIES ScreenedOnly
