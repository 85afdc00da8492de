----------------------------- MODULE IronModes -----------------------------
(* What the main loop of fw/main.c promises to the person holding the iron: *)
(* three modes, and a 12 V rail (PIN_12V, the supply of the mosfet driver)  *)
(* that may only come up in the heating mode, can never be reached from the *)
(* menu in one step, and always goes down again once heating has ended.     *)

VARIABLES
    mode,   \* "menu", "standby" (heating screen, not enabled) or "heating"
    rail    \* PIN_12V is high

vars == <<mode, rail>>

Init == mode = "menu" /\ ~rail

(* A press in the menu opens the heating screen with the heater disabled.   *)
OpenHeating == mode = "menu" /\ mode' = "standby" /\ UNCHANGED rail

(* A press on the heating screen enables the heater.                        *)
Arm == mode = "standby" /\ mode' = "heating" /\ UNCHANGED rail

(* A pass of the loop with the heater enabled drives the rail; a pass whose *)
(* safety checks fail also ends the heating.                                *)
Drive ==
    /\ mode = "heating"
    /\ rail' = TRUE
    /\ mode' \in {"heating", "standby"}

(* A press on the heating screen disables the heater, the rail stays up ... *)
Disarm == mode = "heating" /\ mode' = "standby" /\ UNCHANGED rail

(* ... until the next pass takes it down.                                   *)
Release == mode = "standby" /\ rail /\ rail' = FALSE /\ UNCHANGED mode

(* Turning the encoder opens the menu and takes the rail down at once.      *)
OpenMenu == mode # "menu" /\ mode' = "menu" /\ rail' = FALSE

Next == OpenHeating \/ Arm \/ Drive \/ Disarm \/ Release \/ OpenMenu

Safety == Init /\ [][Next]_vars

Spec == Safety /\ WF_vars(Release)
=============================================================================
