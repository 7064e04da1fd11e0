SPECIFICATION Spec
CONSTANTS
  u1 = u1
  other = other
  rt1 = rt1
  r1 = r1
  r2 = r2
  Users = {u1}
  UserIds = {u1, other}
  Logins = {rt1}
  Owner <- OwnerOf
  Requests = {r1, r2}
  me = me
  TokenTtl = 1
  cache_ttl = 1
  MaxTime = 3
  MaxChanges = 2
  MaxTokens = 1
SYMMETRY RequestSymmetry
INVARIANTS
  TypeOK
  RightsWereHeld
  LogoutEndsAccess
  AnswersWereTrue
