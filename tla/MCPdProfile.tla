----------------------------- MODULE MCPdProfile -----------------------------
(* Offers for PdProfile, in the units of the PD message.                    *)
EXTENDS PdProfile

Fixed(volts, amps) == [type |-> "fixed", v |-> volts * 20, a |-> amps * 100]
Battery(volts, watts) == [type |-> "battery", v |-> volts * 20, a |-> watts * 4]
Other == [type |-> "other", v |-> 0, a |-> 0]

(* Too little, all that may be asked for at the highest voltage allowed,     *)
(* too high a voltage, a battery whose 90 W make an exact square, one of    *)
(* the types that are passed over.                                          *)
MixedPDOs == {Fixed(5, 3), Fixed(28, 5), Fixed(36, 5), Battery(9, 90), Other}

FixedPDOs == {Fixed(5, 3), Fixed(20, 5), Fixed(28, 5)}
=============================================================================
