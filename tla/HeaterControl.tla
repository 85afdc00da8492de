---------------------------- MODULE HeaterControl ----------------------------
(* The main loop of fw/main.c (lines 612-693), the encoder interrupt that   *)
(* runs beside it and the timer TIM3 that drives the mosfet gate.           *)
(* A pass of the loop is split where another actor can be seen: the value   *)
(* of pc names the code about to run.                                       *)
(*   top   button_update and update_power_and_temperature                   *)
(*   duty  c_update_duty up to its Delay_Ms, or its early return            *)
(*   tip   update_tip_and_vcc and the pid, with the PWM set to zero         *)
(*   ui    the first half of the MENU or HEATING case                       *)
(*   set   MENU: the encoder value was read and is about to be applied      *)
(*   btn   MENU: the button check                                           *)
(*   enc   HEATING: the encoder check                                       *)
(*   hbtn  HEATING: the button check                                        *)
(* Sensor readings are abstracted to "over its limit or not", and whether   *)
(* the 50 ms of the task timer have passed is a free choice here: the       *)
(* arithmetic of the timer is the subject of TaskTimer.                     *)
EXTENDS Integers

CONSTANTS
    MinSet, MaxSet,     \* MIN_TIP_SET_TEMP, MAX_TIP_SET_TEMP
    DefaultSet,         \* the set temperature main starts with
    FastFrom, FastStep, \* ENCODER_FAST, and the step a fast turn makes
    Word,               \* number of values of a uint16_t
    MaxDetents,         \* bound: detents counted between two reads of encoder
    TimMax,             \* tim_max, the PWM counter's last value
    Duties,             \* the values pid may return, in percent
    Sensors             \* what the safety logic looks at: "current", "board", "tip"

ASSUME SetTempAssumption ==
    /\ MinSet \in Nat /\ MaxSet \in Nat /\ DefaultSet \in MinSet..MaxSet
    /\ FastFrom \in Nat \ {0} /\ FastStep \in Nat \ {0}
    /\ MaxDetents \in Nat
    /\ Word \in Nat /\ MaxSet + FastStep < Word /\ MaxSet + FastFrom < Word

ASSUME DutyAssumption ==
    /\ TimMax \in Nat
    /\ Duties \subseteq 0..100

ASSUME SensorsAssumption == Sensors \subseteq {"current", "board", "tip"}

VARIABLES
    pc,
    state,      \* main's local: "MENU" or "HEATING"
    enabled,    \* the global flag
    pin,        \* the level of PIN_BTN, TRUE when released
    btn,        \* main's struct button
    encoder,    \* the counter the interrupt handler changes
    turned,     \* the value of encoder main has read and not yet applied
    setTemp,    \* pd_profile.set_temp
    duty,       \* the global duty
    over,       \* the sensors whose last reading is over its limit
    rail,       \* PIN_12V
    cvr,        \* TIM3->CH1CVR, the preload register pwm_set writes
    ccr,        \* the active compare value, loaded at an update event
    cen,        \* the counter runs
    gate,       \* the level of PIN_HEATER, "low" or "high"
    armed,      \* history: heating enabled by a press since the menu was left
    hotPasses   \* history: passes in a row that drove the rail during a fault

loopVars  == <<pc, state, enabled, btn, turned, setTemp, duty, over>>
timerVars == <<cvr, ccr, cen, gate>>
history   == <<armed, hotPasses>>
vars == <<loopVars, pin, encoder, rail, timerVars, history>>

PCs == {"top", "duty", "tip", "ui", "set", "btn", "enc", "hbtn"}

(* Mutant of Falling: the level of the button instead of its edge.          *)
HeldDown == ~btn.now

(* Button levels.  button_falling: the press seen in this pass.             *)
Falling == ~btn.now /\ btn.prev

(* A reading of the safety logic is over its limit.                         *)
Fault == over # {}

(* duty*tim_max/100, the pulse width for a duty cycle.                      *)
Pulse(d) == (d * TimMax) \div 100

(* PWM mode 1: the output is high while the counter is below the compare    *)
(* value, so it starts a period high unless that value is zero.             *)
PulseStart(c) == IF c > 0 THEN "high" ELSE "low"

(* Mutant of SetStep: the fast step also for a fast turn back.              *)
SetStepOfMagnitude(n) ==
    IF n >= FastFrom \/ n <= -FastFrom THEN FastStep ELSE n

(* encoder >= ENCODER_FAST ? 20 : encoder                                   *)
SetStep(n) == IF n >= FastFrom THEN FastStep ELSE n

(* Mutant of ClampSet: the clamp from below is missing.                     *)
ClampSetFromAbove(t) == IF t > MaxSet THEN MaxSet ELSE t

(* The two clamps of the menu, in the order of the code.                    *)
ClampSet(t) == LET u == IF t < MinSet THEN MinSet ELSE t
               IN  IF u > MaxSet THEN MaxSet ELSE u

(* set_temp += step in a uint16_t, then the clamps.                         *)
NewSetTemp(t, n) == ClampSet((t + SetStep(n)) % Word)

Init ==
    /\ pc = "top" /\ state = "MENU" /\ enabled = FALSE
    /\ pin = TRUE /\ btn = [now |-> TRUE, prev |-> TRUE]
    /\ encoder = 0 /\ turned = 0
    /\ setTemp = DefaultSet /\ duty = 0 /\ over = {}
    /\ rail = FALSE
    /\ cvr = 0 /\ ccr = 0 /\ cen = FALSE /\ gate = "low"
    /\ armed = FALSE /\ hotPasses = 0

-----------------------------------------------------------------------------
(* The top of a pass.                                                       *)

(* button_update, then update_power_and_temperature: new current and board  *)
(* readings, the tip's stays.                                               *)
Sample ==
    /\ pc = "top" /\ pc' = "duty"
    /\ btn' = [now |-> pin, prev |-> btn.now]
    /\ over' \in {o \in SUBSET Sensors : ("tip" \in o) <=> ("tip" \in over)}
    /\ UNCHANGED <<state, enabled, turned, setTemp, duty, pin, encoder, rail,
                   timerVars, history>>

(* c_update_duty while its timer has not expired.                           *)
DutyWait ==
    /\ pc = "duty" /\ pc' = "ui"
    /\ UNCHANGED <<state, enabled, btn, turned, setTemp, duty, over, pin,
                   encoder, rail, timerVars, history>>

(* c_update_duty once it has: pwm_set(0), then Delay_Ms(TURN_OFF_DELAY).    *)
DutyOff ==
    /\ pc = "duty" /\ pc' = "tip"
    /\ cvr' = 0
    /\ UNCHANGED <<state, enabled, btn, turned, setTemp, duty, over, pin,
                   encoder, rail, ccr, cen, gate, history>>

(* Mutant of DutyMeasure: no delay between pwm_set(0) and the conversion.   *)
DutyMeasureAtOnce ==
    /\ pc = "tip" /\ pc' = "ui"
    /\ over' \in {o \in SUBSET Sensors : o \ {"tip"} = over \ {"tip"}}
    /\ duty' \in IF enabled THEN Duties ELSE {0}
    /\ UNCHANGED <<state, enabled, btn, turned, setTemp, pin, encoder, rail,
                   timerVars, history>>

(* The delay lasts hundreds of PWM periods, so a running timer has loaded   *)
(* the new pulse width; then the tip is measured and duty recomputed.       *)
DutyMeasure ==
    /\ pc = "tip" /\ pc' = "ui"
    /\ cen => ccr = cvr
    /\ over' \in {o \in SUBSET Sensors : o \ {"tip"} = over \ {"tip"}}
    /\ duty' \in IF enabled THEN Duties ELSE {0}
    /\ UNCHANGED <<state, enabled, btn, turned, setTemp, pin, encoder, rail,
                   timerVars, history>>

-----------------------------------------------------------------------------
(* STATE_MENU                                                               *)

(* encoder is read ...                                                      *)
MenuRead ==
    /\ pc = "ui" /\ state = "MENU"
    /\ turned' = encoder
    /\ pc' = IF encoder # 0 THEN "set" ELSE "btn"
    /\ UNCHANGED <<state, enabled, btn, setTemp, duty, over, pin, encoder,
                   rail, timerVars, history>>

(* ... and added to the set temperature, then zeroed: detents the interrupt *)
(* counted in between are lost.                                             *)
MenuSet ==
    /\ pc = "set" /\ pc' = "btn"
    /\ setTemp' = NewSetTemp(setTemp, turned)
    /\ encoder' = 0
    /\ turned' = 0
    /\ UNCHANGED <<state, enabled, btn, duty, over, pin, rail, timerVars,
                   history>>

(* Mutant of MenuButton: enabled is left as it was.                         *)
MenuButtonKeepsEnabled ==
    /\ pc = "btn" /\ pc' = "top"
    /\ state' = IF Falling THEN "HEATING" ELSE state
    /\ UNCHANGED <<enabled, btn, turned, setTemp, duty, over, pin, encoder,
                   rail, timerVars, history>>

(* A press opens the heating screen with the heater disabled.               *)
MenuButton ==
    /\ pc = "btn" /\ pc' = "top"
    /\ IF Falling THEN state' = "HEATING" /\ enabled' = FALSE
                  ELSE UNCHANGED <<state, enabled>>
    /\ UNCHANGED <<btn, turned, setTemp, duty, over, pin, encoder, rail,
                   timerVars, history>>

-----------------------------------------------------------------------------
(* STATE_HEATING                                                            *)

(* With the heater enabled: rail up, the safety checks, pwm_set(duty).  A   *)
(* failed check only clears enabled; the rail goes down in the next pass.   *)
HeatEnabled ==
    /\ pc = "ui" /\ state = "HEATING" /\ enabled
    /\ pc' = "enc"
    /\ rail' = TRUE
    /\ enabled' = ~Fault
    /\ cvr' = Pulse(duty)
    /\ hotPasses' = IF Fault THEN hotPasses + 1 ELSE 0
    /\ UNCHANGED <<state, btn, turned, setTemp, duty, over, pin, encoder,
                   ccr, cen, gate, armed>>

(* Mutant of HeatDisabled: the write to PIN_12V is missing.                 *)
HeatDisabledKeepsRail ==
    /\ pc = "ui" /\ state = "HEATING" /\ ~enabled
    /\ pc' = "enc"
    /\ hotPasses' = 0
    /\ UNCHANGED <<state, enabled, btn, turned, setTemp, duty, over, pin,
                   encoder, rail, timerVars, armed>>

(* With the heater disabled: rail down.                                     *)
HeatDisabled ==
    /\ pc = "ui" /\ state = "HEATING" /\ ~enabled
    /\ pc' = "enc"
    /\ rail' = FALSE
    /\ hotPasses' = 0
    /\ UNCHANGED <<state, enabled, btn, turned, setTemp, duty, over, pin,
                   encoder, timerVars, armed>>

(* Mutant of HeatEncoder: the menu opens without pwm_set(0).                *)
HeatEncoderKeepsPulse ==
    /\ pc = "enc" /\ pc' = "hbtn"
    /\ IF encoder # 0
         THEN /\ state' = "MENU"
              /\ rail' = FALSE
              /\ armed' = FALSE /\ hotPasses' = 0
         ELSE UNCHANGED <<state, rail, history>>
    /\ UNCHANGED <<enabled, btn, turned, setTemp, duty, over, pin, encoder,
                   timerVars>>

(* A turned encoder opens the menu: rail down, pwm_set(0).                  *)
HeatEncoder ==
    /\ pc = "enc" /\ pc' = "hbtn"
    /\ IF encoder # 0
         THEN /\ state' = "MENU"
              /\ rail' = FALSE
              /\ cvr' = 0
              /\ armed' = FALSE /\ hotPasses' = 0
         ELSE UNCHANGED <<state, rail, cvr, history>>
    /\ UNCHANGED <<enabled, btn, turned, setTemp, duty, over, pin, encoder,
                   ccr, cen, gate>>

(* The button check, reached also when the menu was opened a line above.    *)
HeatNoPress ==
    /\ pc = "hbtn" /\ pc' = "top"
    /\ ~Falling
    /\ UNCHANGED <<state, enabled, btn, turned, setTemp, duty, over, pin,
                   encoder, rail, timerVars, history>>

(* A press enables the heater: pwm_on generates an update event, so the     *)
(* preload becomes active, and starts the counter.                          *)
HeatPressOn ==
    /\ pc = "hbtn" /\ pc' = "top"
    /\ Falling /\ ~enabled
    /\ enabled' = TRUE
    /\ ccr' = cvr /\ gate' = PulseStart(cvr) /\ cen' = TRUE
    /\ armed' = (state = "HEATING")
    /\ UNCHANGED <<state, btn, turned, setTemp, duty, over, pin, encoder,
                   rail, cvr, hotPasses>>

(* A press disables it: pwm_off stops the counter where it is, which leaves *)
(* the gate at its present level, and zeroes only the preload.              *)
HeatPressOff ==
    /\ pc = "hbtn" /\ pc' = "top"
    /\ Falling /\ enabled
    /\ enabled' = FALSE
    /\ cen' = FALSE /\ cvr' = 0
    /\ UNCHANGED <<state, btn, turned, setTemp, duty, over, pin, encoder,
                   rail, ccr, gate, history>>

MainLoop ==
    \/ Sample \/ DutyWait \/ DutyOff \/ DutyMeasure
    \/ MenuRead \/ MenuSet \/ MenuButton
    \/ HeatEnabled \/ HeatDisabled \/ HeatEncoder
    \/ HeatNoPress \/ HeatPressOn \/ HeatPressOff

-----------------------------------------------------------------------------
(* The hardware and the user.                                               *)

(* TIM3 overflows: the preload becomes the active compare value and the     *)
(* output starts its pulse.                                                 *)
TimerUpdate ==
    /\ cen
    /\ ccr' = cvr /\ gate' = PulseStart(cvr)
    /\ UNCHANGED <<loopVars, pin, encoder, rail, cvr, cen, history>>

(* TIM3 reaches the compare value: the pulse ends.                          *)
TimerMatch ==
    /\ cen /\ gate = "high" /\ ccr <= TimMax
    /\ gate' = "low"
    /\ UNCHANGED <<loopVars, pin, encoder, rail, cvr, ccr, cen, history>>

(* The encoder interrupt completes a detent.  It ignores the encoder while  *)
(* the button is held.                                                      *)
Detent ==
    /\ pin
    /\ \E d \in {-1, 1} : /\ encoder + d \in -MaxDetents..MaxDetents
                          /\ encoder' = encoder + d
    /\ UNCHANGED <<loopVars, pin, rail, timerVars, history>>

(* The user presses or releases the button.                                 *)
Press ==
    /\ pin' = ~pin
    /\ UNCHANGED <<loopVars, encoder, rail, timerVars, history>>

Environment == TimerUpdate \/ TimerMatch \/ Detent \/ Press

Next == MainLoop \/ Environment

(* The loop is for(;;) and never blocks, and a running timer overflows.     *)
Fairness == WF_vars(MainLoop) /\ WF_vars(TimerUpdate)

Spec == Init /\ [][Next]_vars

FairSpec == Spec /\ Fairness

-----------------------------------------------------------------------------
(* Properties                                                               *)

(* The types of the flags and of the other variables, and which half of the *)
(* switch a pc is in.                                                       *)
FlagsOK ==
    /\ enabled \in BOOLEAN /\ pin \in BOOLEAN
    /\ btn \in [now : BOOLEAN, prev : BOOLEAN]
    /\ rail \in BOOLEAN /\ cen \in BOOLEAN /\ armed \in BOOLEAN

ValuesOK ==
    /\ pc \in PCs /\ state \in {"MENU", "HEATING"}
    /\ encoder \in -MaxDetents..MaxDetents
    /\ turned \in -MaxDetents..MaxDetents
    /\ setTemp \in MinSet..MaxSet
    /\ duty \in 0..100 /\ over \in SUBSET Sensors
    /\ cvr \in Nat /\ ccr \in Nat /\ gate \in {"low", "high"}
    /\ hotPasses \in Nat
    /\ pc \in {"set", "btn"} => state = "MENU"
    /\ pc = "enc" => state = "HEATING"

TypeOK == FlagsOK /\ ValuesOK

(* Whatever way the menu was entered (start, encoder, encoder and press in  *)
(* the same pass), the rail is down and the pulse width is zero as long as  *)
(* it is shown, although enabled and the timer may still be on.             *)
MenuIsCold == state = "MENU" => ~rail /\ cvr = 0

(* The rail is only ever up when a press on the heating screen asked for it *)
(* since the menu was left: an enabled left over from before the menu must  *)
(* not start the heater again.                                              *)
RailNeedsPress == rail => armed

(* While a fault lasts, at most two passes in a row drive the rail: the one *)
(* that finds the fault and, if the user presses in that very pass, the     *)
(* next.  Pressing faster cannot keep the rail up.                          *)
FaultDrivesAtMostTwoPasses == hotPasses <= 2

(* The tip is never sampled during a pulse of the running timer: the delay  *)
(* of c_update_duty is long enough for pwm_set(0) to reach the output.      *)
SampledBetweenPulses == [][pc = "tip" /\ pc' = "ui" => ~(cen /\ gate = "high")]_vars

(* What the comment above c_update_duty asks (main.c:545): it runs only     *)
(* with the PWM off, so the tip is sampled with no power on the heater.     *)
SampledUnpowered == [][pc = "tip" /\ pc' = "ui" => ~(rail /\ gate = "high")]_vars

(* Turning the knob back never raises the set temperature, although the sum *)
(* is made in an unsigned 16-bit integer, where a step below zero would     *)
(* wrap to the maximum.  Turning it forward, slowly or fast, never lowers   *)
(* it.                                                                      *)
BackNeverRaises == turned < 0 => setTemp' <= setTemp
ForwardNeverLowers == turned > 0 => setTemp' >= setTemp
SetTempFollowsKnob == [][BackNeverRaises /\ ForwardNeverLowers]_vars

(* If a fault stays and the user stops pressing, the rail goes down for     *)
(* good, even if the timer is still on and the encoder is being turned.     *)
FaultEndsHeating == <>[](Fault /\ ~Falling) => <>[]~rail

(* The loop implements the modes promised to the user.                      *)
Mode == IF state = "MENU" THEN "menu"
        ELSE IF enabled THEN "heating" ELSE "standby"
Modes == INSTANCE IronModes WITH mode <- Mode
ModesSpec == Modes!Spec
=============================================================================
