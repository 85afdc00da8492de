------------------------------ MODULE PdProfile ------------------------------
(* From the source's offer to the heater's duty limit: pd_get_profile       *)
(* (fw/pd.c, lines 64-127) with USBPD_SelectPDO (fw/usbpd.h, lines 751-801),*)
(* and the lines of main (fw/main.c, 603-612) that derive max_duty from its *)
(* result with isqrt (fw/filter.h, lines 25-44).  The search reads the      *)
(* capabilities where the interrupt handler writes them: a new offer may    *)
(* replace them between two PDOs, between a PDO, its test and the check of  *)
(* its index, and between that check and the Request.  A PDO is one word,   *)
(* read at once.                                                            *)
EXTENDS Integers

CONSTANTS
    PDOs,       \* the power data objects a source may offer: records with
                \* type, "fixed", "battery" or "other" (VARIABLE, AUGMENTED),
                \* v, the (maximum) voltage in 50 mV,
                \* a, the maximum current in 10 mA or the power in 250 mW
    MaxPDOs,    \* PDOs the capabilities message has room for
    MinPowers,  \* the values of the argument min_power, in W
    MaxPower,   \* the largest one it accepts (140)
    MaxVoltage, \* BOARD_MAX_VOLTAGE
    SetPower,   \* pd_profile.set_power, in W
    TipR,       \* pd_profile.tip_r, in mOhm
    Word        \* number of values of a uint16_t

ASSUME PDOsAssumption ==
    \A p \in PDOs : /\ p.type \in {"fixed", "battery", "other"}
                    /\ p.v \in 0..1023 /\ p.a \in 0..1023
                    /\ p.type = "battery" => p.v > 0
ASSUME LimitsAssumption ==
    /\ MaxPDOs \in Nat /\ MinPowers \subseteq Nat /\ MaxPower \in Nat
    /\ MaxVoltage \in Nat /\ SetPower \in Nat /\ TipR \in Nat

(* isqrt needs room for its argument plus one: with 65535 its upper bound   *)
(* would wrap to 0 and its loop never end.  main stays far below, with 237. *)
ASSUME WordAssumption ==
    Word \in Nat \ {0} /\ (SetPower * TipR) \div 1000 + 1 < Word

VARIABLES
    pc,         \* "start", "switch" (a PDO is read), "test", "request" (its
                \* index has been checked): pd_get_profile; "duty", "root"
                \* (the loop of isqrt), "done": main
    i,          \* the loop's index
    held,       \* the loop's voltage, current and power
    capCount,   \* cap_count, noted by pd_negotiate
    minPower,   \* the argument
    caps, pdoCount, \* s_instance.caps and s_instance.pdoCount
    result,     \* what pd_get_profile returns: "none" yet, "true" or "false"
    profile,    \* the global pd_profile, zero until it is filled in
    requested,  \* the object position of the Request, 0 for none
    x, l, r,    \* isqrt's argument and its two bounds
    maxDuty,    \* pd_profile.max_duty
    replaced,   \* history: the offer was replaced after capCount was noted
    seen        \* history: the PDOs as the loop read them

searchVars == <<i, held, capCount, minPower, result, profile, requested>>
offerVars  == <<caps, pdoCount, replaced>>
dutyVars   == <<x, l, r, maxDuty>>
vars == <<pc, searchVars, offerVars, dutyVars, seen>>

Unread == [type |-> "other", v |-> 0, a |-> 0]
Nothing == [voltage |-> 0, current |-> 0, power |-> 0]

(* The case of a fixed supply, and that of a battery.                       *)
FixedValues(p) ==
    [voltage |-> p.v * 50, current |-> p.a * 10,
     power |-> ((p.v * 50) * (p.a * 10)) \div 1000000]
BatteryValues(p) ==
    [voltage |-> p.v * 50, current |-> ((p.a \div 4) * 1000) \div (p.v * 50),
     power |-> p.a \div 4]

(* The switch: other PDOs leave the values of the one before in place.      *)
Converted(p, h) ==
    CASE p.type = "fixed"   -> FixedValues(p)
      [] p.type = "battery" -> BatteryValues(p)
      [] p.type = "other"   -> h

(* Mutant of Fits: the voltage limit of the board is forgotten.             *)
FitsAnyVoltage(h) == h.power >= minPower

(* The test: enough power, and not too much voltage for the board.          *)
Fits(h) == h.power >= minPower /\ h.voltage <= MaxVoltage

Lesser(a, b) == IF a < b THEN a ELSE b

(* The power the heater may use, and the argument of isqrt: the square of  *)
(* the voltage that dissipates it in the tip.                               *)
Budget == Lesser(SetPower, profile.power)
Square == (Budget * TipR) \div 1000

(* Mutant of UpperBound: x itself, which is no bound for 0 and 1.           *)
UpperBoundTight(n) == n

(* r = x + 1, in a uint16_t.                                                *)
UpperBound(n) == (n + 1) % Word

(* m, the midpoint isqrt tests.                                             *)
Middle == (l + r) \div 2

(* Mutant of DutyFor: no MIN with 100.                                      *)
DutyForUncut(root, voltage) ==
    IF voltage = 0 THEN 100 ELSE (100 * root * 1000) \div voltage

(* Mutant of DutyFor: the division rounded up.                              *)
DutyForRoundedUp(root, voltage) ==
    IF voltage = 0 THEN 100
    ELSE Lesser((100 * root * 1000 + voltage - 1) \div voltage, 100)

(* The duty limit.  A division by zero yields the largest unsigned integer  *)
(* on RISC-V, so MIN makes it 100.                                          *)
DutyFor(root, voltage) ==
    IF voltage = 0 THEN 100
    ELSE Lesser((100 * root * 1000) \div voltage, 100)

(* pd_negotiate has just succeeded, so there is at least one PDO; behind    *)
(* the last one the buffer holds leftovers of earlier messages.             *)
Init ==
    /\ pc = "start" /\ i = 0 /\ held = Nothing
    /\ caps \in [0..MaxPDOs - 1 -> PDOs] /\ pdoCount \in 1..MaxPDOs
    /\ capCount = pdoCount /\ minPower \in MinPowers
    /\ result = "none" /\ profile = Nothing /\ requested = 0
    /\ x = 0 /\ l = 0 /\ r = 0 /\ maxDuty = 0
    /\ replaced = FALSE /\ seen = [j \in 0..MaxPDOs - 1 |-> Unread]

-----------------------------------------------------------------------------
(* pd_get_profile                                                           *)

InRange == minPower # 0 /\ minPower <= MaxPower

Refuse ==
    /\ pc = "start" /\ ~InRange
    /\ pc' = "duty" /\ result' = "false"
    /\ UNCHANGED <<i, held, capCount, minPower, profile, requested, offerVars,
                   dutyVars, seen>>

Begin ==
    /\ pc = "start" /\ InRange
    /\ pc' = "switch"
    /\ UNCHANGED <<searchVars, offerVars, dutyVars, seen>>

Convert ==
    /\ pc = "switch" /\ i < capCount
    /\ pc' = "test"
    /\ held' = Converted(caps[i], held)
    /\ seen' = [seen EXCEPT ![i] = caps[i]]
    /\ UNCHANGED <<i, capCount, minPower, result, profile, requested, offerVars,
                   dutyVars>>

Exhausted ==
    /\ pc = "switch" /\ i >= capCount
    /\ pc' = "duty" /\ result' = "false"
    /\ UNCHANGED <<i, held, capCount, minPower, profile, requested, offerVars,
                   dutyVars, seen>>

(* Mutant of Skip: the search ends at the first PDO that does not fit.      *)
SkipToEnd ==
    /\ pc = "test" /\ ~Fits(held)
    /\ pc' = "switch" /\ i' = capCount
    /\ UNCHANGED <<held, capCount, minPower, result, profile, requested,
                   offerVars, dutyVars, seen>>

Skip ==
    /\ pc = "test" /\ ~Fits(held)
    /\ pc' = "switch" /\ i' = i + 1
    /\ UNCHANGED <<held, capCount, minPower, result, profile, requested,
                   offerVars, dutyVars, seen>>

(* USBPD_SelectPDO refuses an index beyond the offer of this moment.        *)
SelectRefused ==
    /\ pc = "test" /\ Fits(held) /\ i >= pdoCount
    /\ pc' = "duty" /\ result' = "false"
    /\ UNCHANGED <<i, held, capCount, minPower, profile, requested, offerVars,
                   dutyVars, seen>>

(* Or it takes it: the index of a PDO that fits lies within the offer ...   *)
Select ==
    /\ pc = "test" /\ Fits(held) /\ i < pdoCount
    /\ pc' = "request"
    /\ UNCHANGED <<searchVars, offerVars, dutyVars, seen>>

(* ... and builds and sends a Request for that position, whatever the offer *)
(* is by now (what the handler may do to it on the way: PdSink).  The       *)
(* profile is filled in.                                                    *)
Request ==
    /\ pc = "request" /\ pc' = "duty"
    /\ result' = "true"
    /\ requested' = i + 1
    /\ profile' = held
    /\ UNCHANGED <<i, held, capCount, minPower, offerVars, dutyVars, seen>>

(* The interrupt handler receives new capabilities at any point up to the   *)
(* Request (once: the bound of this model).                                 *)
NewOffer ==
    /\ pc \in {"start", "switch", "test", "request"} /\ ~replaced
    /\ caps' \in [0..MaxPDOs - 1 -> PDOs] /\ pdoCount' \in 1..MaxPDOs
    /\ replaced' = TRUE
    /\ UNCHANGED <<pc, searchVars, dutyVars, seen>>

-----------------------------------------------------------------------------
(* main goes on without looking at the result: max_duty                     *)

CallRoot ==
    /\ pc = "duty" /\ pc' = "root"
    /\ x' = Square
    /\ l' = 0 /\ r' = UpperBound(x')
    /\ UNCHANGED <<searchVars, offerVars, maxDuty, seen>>

(* Mutant of Probe: a square root that is met exactly is passed over.       *)
ProbeStrictly ==
    /\ pc = "root" /\ l # r - 1
    /\ IF Middle * Middle < x THEN l' = Middle /\ r' = r
                              ELSE r' = Middle /\ l' = l
    /\ UNCHANGED <<pc, x, maxDuty, searchVars, offerVars, seen>>

(* A round of isqrt.                                                        *)
Probe ==
    /\ pc = "root" /\ l # r - 1
    /\ IF Middle * Middle <= x THEN l' = Middle /\ r' = r
                               ELSE r' = Middle /\ l' = l
    /\ UNCHANGED <<pc, x, maxDuty, searchVars, offerVars, seen>>

(* isqrt returns l.                                                         *)
SetMaxDuty ==
    /\ pc = "root" /\ l = r - 1
    /\ pc' = "done"
    /\ maxDuty' = DutyFor(l, profile.voltage)
    /\ UNCHANGED <<x, l, r, searchVars, offerVars, seen>>

Main ==
    \/ Refuse \/ Begin \/ Convert \/ Exhausted \/ Skip
    \/ SelectRefused \/ Select \/ Request \/ CallRoot \/ Probe \/ SetMaxDuty

Next == Main \/ NewOffer

Spec == Init /\ [][Next]_vars

(* main is never blocked here, and interrupts return.                       *)
FairSpec == Spec /\ WF_vars(Main)

-----------------------------------------------------------------------------
(* Properties                                                               *)

(* The types of the variables.                                              *)
TypeOK ==
    /\ pc \in {"start", "switch", "test", "request", "duty", "root", "done"}
    /\ i \in 0..MaxPDOs
    /\ held \in [voltage : Nat, current : Nat, power : Nat]
    /\ capCount \in 1..MaxPDOs /\ pdoCount \in 1..MaxPDOs
    /\ minPower \in MinPowers
    /\ caps \in [0..MaxPDOs - 1 -> PDOs]
    /\ result \in {"none", "true", "false"}
    /\ profile \in [voltage : Nat, current : Nat, power : Nat]
    /\ requested \in 0..MaxPDOs
    /\ x \in 0..Word - 1 /\ l \in 0..Word - 1 /\ r \in 0..Word - 1
    /\ maxDuty \in 0..100
    /\ replaced \in {TRUE, FALSE}
    /\ seen \in [0..MaxPDOs - 1 -> PDOs \cup {Unread}]

(* A PDO that meets the requirement, in the units of the PD message: the    *)
(* power in uW or mW, the voltage in mV.  Only these types have any.        *)
Suits(p) ==
    /\ \/ p.type = "fixed" /\ p.v * p.a * 500 >= minPower * 1000000
       \/ p.type = "battery" /\ p.a * 250 >= minPower * 1000
    /\ p.v * 50 <= MaxVoltage

(* pd_get_profile requests the position of the first PDO that met the       *)
(* requirement when it was read (pd.c:114), also if the offer is replaced   *)
(* in the middle of the search, and the profile describes that PDO, never   *)
(* the values a PDO of another type carried over from the one before it.    *)
(* If the offer stays, those are the PDOs the source offers.                *)
RequestsFirstFit ==
    result = "true" =>
      /\ Suits(seen[requested - 1])
      /\ \A j \in 0..requested - 2 : ~Suits(seen[j])
      /\ profile = Converted(seen[requested - 1], Nothing)
      /\ ~replaced => \A j \in 0..requested - 1 : seen[j] = caps[j]

(* It fails only if no PDO meets the requirement.                           *)
FailsOnlyWithoutFit ==
    result = "false" /\ InRange /\ ~replaced =>
      \A j \in 0..pdoCount - 1 : ~Suits(caps[j])

(* isqrt returns the integer square root (filter.h:25).                     *)
RootIsExact == pc = "done" => l * l <= x /\ x < (l + 1) * (l + 1)

(* The mean voltage at the duty limit, in V, is at most the one that        *)
(* dissipates the power set and available in the tip: all the roundings on  *)
(* the way go down.                                                         *)
MeanVoltageFits ==
    pc = "done" => maxDuty * profile.voltage <= 100 * 1000 * l /\ l * l <= Square

(* main gets to its loop whatever is on offer, and also if nothing fits:    *)
(* the search and the square root of zero come to an end.                   *)
StartupEnds == <>(pc = "done")

(* What the struct says (pd.h:17): at the duty limit the tip, a resistor    *)
(* switched to VBUS, takes no more than the power limit.  In 50 mV.         *)
DutyWithinPowerLimit ==
    pc = "done" =>
      maxDuty * (profile.voltage \div 50) * (profile.voltage \div 50)
        <= 40 * TipR * Budget
=============================================================================
