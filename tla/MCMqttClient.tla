---------------------------- MODULE MCMqttClient ----------------------------
(***************************************************************************)
(* Instances of MqttClient: the one call main makes, and two.              *)
(***************************************************************************)
EXTENDS MqttClient

CONSTANTS c1, c2

=============================================================================
