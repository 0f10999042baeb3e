\* A tag that exists, and a run without --retag.
SPECIFICATION Spec
CONSTANTS
  r1 = r1
  r2 = r2
  Versions = {r1, r2}
  MaxEdits = 2
  Nothing = Nothing
PROPERTY TagsKept
