SPECIFICATION Spec
CONSTANTS
  p1 = p1
  Pods = {p1}
  Services = {1, 2, 3}
  Listings <- OneListing
  Nothing = Nothing
INVARIANT DeletedServiceGone
CHECK_DEADLOCK FALSE
