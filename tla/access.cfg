SPECIFICATION FairSpec
CONSTANTS
  User = {u1, u2}
  NoUser = NoUser
  Session = {c1}
  Password = {x1, x2}
  Administrators = {}
  Configured = {u2}
  Life = 2
  MaxTime = 4
INVARIANTS TokensExpire
PROPERTIES LoginsJustified RequestsJustified BlockedStayOut
