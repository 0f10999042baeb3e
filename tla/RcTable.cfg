\* Every order of every set of the five files, and every set of readable ones.
SPECIFICATION Spec
CONSTANTS
  Names <- MCNames
  Content <- MCContent
  Nul = Nul
  Null = Null
\* The generator ends.
CHECK_DEADLOCK FALSE
INVARIANTS
  TypeOK
  TableServesFiles
  TextsPrintWhole
