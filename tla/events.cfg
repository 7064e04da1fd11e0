SPECIFICATION FairSpec
CONSTANTS
  lea = lea
  ann = ann
  s1 = s1
  w1 = w1
  math = math
  q1 = q1
  q2 = q2
  r1 = r1
  r2 = r2
  Users = {lea, ann}
  Admins = {}
  Lecturers = {lea}
  Slots = {s1}
  Webinars = {w1}
  Skills = {math}
  Prices = {10}
  Seats = {1}
  Limit <- Enough
  SlotRequests = {q1, q2}
  WebinarRequests = {r1, r2}
  FeePercent = 30
  MaxFailures = 1
  None = None
  NoRow = NoRow
  Qualified = {}
  Starts = {2}
  MaxRequests = 3
CHECK_DEADLOCK FALSE
INVARIANTS
  FreeIsEarned
  OneFreeCoachingPerGrant
PROPERTIES
  EverythingEnds
