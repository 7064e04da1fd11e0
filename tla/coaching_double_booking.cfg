SPECIFICATION Spec
CONSTANTS
  lea = lea
  ann = ann
  adm = adm
  s1 = s1
  math = math
  r1 = r1
  r2 = r2
  Users = {lea, ann, adm}
  Admins = {adm}
  Lecturers = {lea}
  Slots = {s1}
  Skills = {math}
  Prices = {10}
  Qualified = {}
  Requests = {r1, r2}
  MaxFailures = 0
  FeePercent = 30
  None = None
  NoRow = NoRow
SYMMETRY RequestSymmetry
CHECK_DEADLOCK FALSE
PROPERTIES
  BookedSlotNotRebooked
