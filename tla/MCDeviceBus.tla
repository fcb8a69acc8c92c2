----------------------------- MODULE MCDeviceBus -----------------------------
(* The device bus with one command of each kind that matters to a cache: a   *)
(* refresh and a setting of the EPS, the repair of the sensor of the ADCS    *)
(* (the pass sets its mode).                                                 *)
EXTENDS DeviceBus

MCEpsCommands == {<<"STATUS", "NONE">>, <<"PDU", "ON">>}
MCAdcsCommands == {<<"CALIBRATE", "NONE">>}

ASSUME MCEpsCommands \subseteq EpsServices /\ MCAdcsCommands \subseteq AdcsServices
=============================================================================
