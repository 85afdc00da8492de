------------------------------ MODULE MCSensors ------------------------------
(* Inputs for Sensors: records cannot be written in a configuration file.   *)
EXTENDS Sensors

In(vbus, current, ntc, tip, vref) ==
    [vbus |-> vbus, current |-> current, ntc |-> ntc, tip |-> tip, vref |-> vref]

(* At rest, too much of everything at 20 V and with a lower supply of the   *)
(* processor, a short circuit.                                              *)
WarmInputs == {In(564, 0, 2048, 0, 1489), In(2250, 2900, 1088, 4095, 1460),
               In(1000, 4095, 1900, 500, 1489)}
=============================================================================
