\* A run that nothing disturbs.
SPECIFICATION Spec
CONSTANTS
  r1 = r1
  r2 = r2
  Versions = {r1, r2}
  MaxEdits = 2
  Nothing = Nothing
INVARIANT ErrorsHaveCauses
