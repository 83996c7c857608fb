---------------------------- MODULE MCMqttBridge -----------------------------
(* MqttBridge as it is: its only constant is the bound on disturbances.       *)
EXTENDS MqttBridge
=============================================================================
