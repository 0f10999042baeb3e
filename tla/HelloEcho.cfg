\* Two messages, each played again at most twice.
SPECIFICATION FairSpec
CONSTANTS
  a = a
  b = b
  client = client
  NoLevel = NoLevel
  Devices = {a, b}
  Injections <- MCInjections
  MaxSent = 2
  MaxReplays = 2
\* The bounds stop the clients and the new subscriptions.
CHECK_DEADLOCK FALSE
INVARIANTS
  TypeOK
  EchoKeepsMessage
  NoStorm
PROPERTY EchoEnds
