---------------------------- MODULE MCDutyControl ----------------------------
(* Temperature differences for DutyControl: a configuration file has no     *)
(* negative numbers.  The extremes saturate the terms of the pid.           *)
EXTENDS DutyControl

FarAndNear == {-100, 3, 120}
=============================================================================
