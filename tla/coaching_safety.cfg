SPECIFICATION Spec
CONSTANTS
  lea = lea
  ann = ann
  adm = adm
  s1 = s1
  math = math
  r1 = r1
  r2 = r2
  r3 = r3
  Users = {lea, ann, adm}
  Admins = {adm}
  Lecturers = {lea, adm}
  Slots = {s1}
  Skills = {math}
  Prices = {10}
  Qualified = {}
  Requests = {r1, r2, r3}
  MaxFailures = 1
  FeePercent = 30
  None = None
  NoRow = NoRow
SYMMETRY RequestSymmetry
CHECK_DEADLOCK FALSE
INVARIANTS
  TypeOK
  BookingBacked
  EmergencyEarned
  PayoutsBounded
  EmergencyOnce
  GivenOutOnce
  PaidInVain
  BookingShown
PROPERTIES
  ImplementsLifecycle
  OverIsFrozen
  PaidBeforeRemoved
