-------------------------- MODULE MCMqttWriteQueue --------------------------
(* The write side of an MQTT connection, on a small buffer. *)
EXTENDS MqttWriteQueue

=============================================================================
