SPECIFICATION FairSpec
CONSTANTS
  tue = tue
  r1 = r1
  r2 = r2
  Rules = {tue}
  Weekday <- WeekdayOf
  Start <- StartOf
  End <- EndOf
  Horizon = 8
  Clock <- ClockOf
  Requests = {r1, r2}
  MaxFailures = 1
  NoRule = NoRule
CHECK_DEADLOCK FALSE
INVARIANTS
  TypeOK
  SlotsFollowRule
  NoSlotTwice
  LinkedSlotsHaveRule
PROPERTIES
  BookingsOutliveRule
  HorizonReached
