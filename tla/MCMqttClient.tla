---------------------------- MODULE MCMqttClient ----------------------------
(* The lifecycle of an MQTT client, started a few times. *)
EXTENDS MqttClient

=============================================================================
