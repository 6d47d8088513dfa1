SPECIFICATION Spec
CONSTANTS
  u1 = u1
  u2 = u2
  u3 = u3
  n1 = n1
  n2 = n2
  PodUIDs = {u1, u2, u3}
  Names = {n1, n2}
  NameOf <- MCNameOf
  Addresses = {a1}
  MayBeIgnored = {}
  GracePeriod = 1
  MaxTime = 1
  MaxEvents = 2
  None = None
PROPERTY SamePodDeleted
CHECK_DEADLOCK FALSE
