\* Two files open at a time, every table of the three resources.
SPECIFICATION FsSpec
CONSTANTS
  Names <- MCNames
  Content <- MCContent
  Nul = Nul
  Null = Null
  Dir <- MCDir
  Slash = "/"
  Requests <- MCRequests
  Handles = {1, 2}
  Counts = {1, 8}
INVARIANTS
  FileTypeOK
  HandlesServeOneshot
