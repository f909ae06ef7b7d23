---------------------------- MODULE MCMqttClient ----------------------------
(* A small instance of MqttClient for TLC. *)
EXTENDS MqttClient
=============================================================================
