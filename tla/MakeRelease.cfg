\* Two releases in any order, again and again, with two edits in between.
SPECIFICATION Spec
CONSTANTS
  r1 = r1
  r2 = r2
  Versions = {r1, r2}
  MaxEdits = 2
  Nothing = Nothing
INVARIANTS
  TypeOK
  TagsAreReleases
PROPERTY OnlyVersionCommitted
SYMMETRY Symmetry
