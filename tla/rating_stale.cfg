SPECIFICATION Spec
CONSTANTS
  old = old
  mid = mid
  new = new
  r1 = r1
  r2 = r2
  r3 = r3
  Unborn = Unborn
  Unrated = Unrated
  Gone = Gone
  None = None
  When <- WhenOf
  MaxKeep = 730
  Rows = {new}
  Stars = {5}
  Ttl = 2
  Requests = {r1, r2, r3}
  MaxFailures = 0
SYMMETRY RequestSymmetry
CHECK_DEADLOCK FALSE
PROPERTIES
  RatingReturned
