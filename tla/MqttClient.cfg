\* main calls MQTT_Init once.
SPECIFICATION FairSpec
CONSTANTS
  c1 = c1
  c2 = c2
  Callers = {c1}
INVARIANTS
  TypeOK
  StartsComplete
  NoGhost
PROPERTIES
  Starts
  OnlineShown
  OfflineShown
