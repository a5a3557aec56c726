--------------------------- MODULE MCMqttPublisher ---------------------------
(* One or two sensors' topics and the total's. *)
EXTENDS MqttPublisher

OneSensor  == <<"sensor1", "total">>
TwoSensors == <<"sensor1", "sensor2", "total">>
=============================================================================
