-------------------------- MODULE MCMqttConnection --------------------------
EXTENDS MqttConnection
=============================================================================
