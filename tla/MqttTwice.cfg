\* A second call of MQTT_Init.
SPECIFICATION Spec
CONSTANTS
  c1 = c1
  c2 = c2
  Callers = {c1, c2}
INVARIANT StartedOnce
