\* The build as rtconfig.h configures it: AP web mode, AP stopped on success.
SPECIFICATION FairSpec
CONSTANTS
  s1 = s1
  s2 = s2
  k1 = k1
  k2 = k2
  Ssids = {s1, s2}
  Keys = {k1, k2}
  KeyLen <- MCKeyLen
  NetKey <- MCNetKey
  Absent = Absent
  Empty = Empty
  Null = Null
  Cut = Cut
  Mode = "apweb"
  StopApOnSuccess = TRUE
  SsidMax = 32
  PskMax = 32
INVARIANTS
  TypeOK
  FilesHoldAsked
  BootReadsFiles
  OnlyJoinedSaved
  ProvisioningCloses
PROPERTIES
  BootSettles
