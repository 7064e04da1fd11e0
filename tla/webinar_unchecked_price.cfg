SPECIFICATION Spec
CONSTANTS
  lea = lea
  ann = ann
  adm = adm
  w1 = w1
  r1 = r1
  r2 = r2
  Users = {lea, ann}
  Admins = {}
  Lecturers = {lea}
  Webinars = {w1}
  Prices = {10, 30}
  Seats = {1}
  Limit <- LimitOfLea
  Starts = {1, 2, 3}
  Requests = {r1}
  MaxFailures = 1
  FeePercent = 30
  None = None
  NoRow = NoRow
SYMMETRY RequestSymmetry
CHECK_DEADLOCK FALSE
PROPERTIES
  PriceWithinRating
