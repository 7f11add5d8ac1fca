CONSTANTS
  Admins = {adm1, adm2}
  KeyIds = {k1}
  Secrets = {s1, s2}
  Prices = {p1}
  None = None
  MaxWrites = 3
  MaxCrashes = 0
  Failures = {}
SPECIFICATION Spec
INVARIANT RotationIsFinal
