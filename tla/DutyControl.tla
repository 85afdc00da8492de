----------------------------- MODULE DutyControl -----------------------------
(* The task c_update_duty of fw/main.c complete: the timer of TaskTimer     *)
(* and, each time it has expired and the tip has been measured, the pid     *)
(* (main.c lines 365-408) with its statics and its own clock, while the     *)
(* main loop enables and disables the heater.  How the tip answers is left  *)
(* open: the temperature difference is any of Deltas each time.             *)
EXTENDS TaskTimer, FixedPoint

CONSTANTS
    TicksPerMs, MsPerSecond, \* DELAY_MS_TIME, and 1000
    Full,                    \* 100, the pid's idea of full power
    MaxDuty,                 \* pd_profile.max_duty
    Deltas                   \* differences between set and tip temperature

ASSUME ControlAssumption ==
    /\ TicksPerMs \in Nat \ {0} /\ MsPerSecond \in 5..IntMax - 1
    /\ Full \in 1..IntMax - 1 /\ MaxDuty \in 0..Full /\ Full * Full < IntMax
    /\ Deltas \subseteq -IntMax..IntMax - 1

VARIABLES
    enabled, duty,            \* main's globals
    intgrt, prev_err, prev_t, \* statics of pid that outlive a call
    called,  \* history: the uptime of the last call of pid
    resumed, \* history: the uptime of the first call since the last pause
    oldest   \* history: the uptime of the oldest call that is in intgrt

pidVars == <<intgrt, prev_err, prev_t, called, resumed, oldest>>
controlVars == <<enabled, duty, pidVars>>

Kp == Num2fp(1, 1700, 10000)
Ti == Num2fp(10, 0, 10000)
Td == Num2fp(0, 1500, 10000)

ControlInit ==
    /\ Init
    /\ enabled = FALSE /\ duty = 0
    /\ intgrt = 0 /\ prev_err = 0 /\ prev_t = 0
    /\ called = 0 /\ resumed = 0 /\ oldest = 0

(* The time since the last call: the ticks wrap in a uint32_t, and the      *)
(* milliseconds in i2fp's int16_t.                                          *)
Dt == FpDiv(I2fp(ToInt(((Now - prev_t) % Word) \div TicksPerMs)), I2fp(MsPerSecond))

(* Mutant of Integral: a pause is not noticed.                              *)
IntegralKept == intgrt

(* if pid was paused, reset the integrator                                  *)
Integral == IF Dt > Num2fp(0, 2, 10) THEN 0 ELSE intgrt

(* The terms of the sum, in the order in which they are added.              *)
ErrI(err) == FpMul(FpDiv(err, Ti), Dt)
ErrD(err) == FpMul(FpDiv(FpSub(err, prev_err), Dt), Td)
Output(err) ==
    FpMul(FpAdd(FpAdd(FpAdd(FpAdd(0, err), ErrI(err)), Integral), ErrD(err)), Kp)

(* The output as a duty cycle.                                              *)
DutyOf(e) == Fp2i(FpMap(FpClamp(e, I2fp(0), I2fp(Full)), 0, I2fp(Full), 0, I2fp(MaxDuty)))

Pid(delta) ==
    LET err == I2fp(delta)
        e == Output(err)
        pause == (uptime - called) \div TicksPerMs > MsPerSecond \div 5
        integrates == e < I2fp(Full) /\ e > 0
    IN  /\ duty' = DutyOf(e)
        /\ intgrt' = IF integrates THEN FpAdd(Integral, ErrI(err)) ELSE Integral
        /\ prev_err' = err /\ prev_t' = Now
        /\ called' = uptime
        /\ resumed' = IF pause THEN uptime ELSE resumed
        /\ oldest' = IF Integral # 0 THEN oldest ELSE uptime

(* The end of c_update_duty's round                                         *)
MeasureAndControl ==
    /\ DutyMeasure
    /\ IF enabled THEN \E delta \in Deltas : Pid(delta)
                  ELSE duty' = 0 /\ UNCHANGED pidVars
    /\ UNCHANGED enabled

(* The main loop: a press, a fault, or the menu.                            *)
Toggle ==
    /\ pc = "rest" /\ enabled' = ~enabled
    /\ UNCHANGED <<vars, duty, pidVars>>

ControlNext ==
    \/ MeasureAndControl \/ Toggle
    \/ Timing /\ UNCHANGED controlVars

ControlSpec == ControlInit /\ [][ControlNext]_<<vars, controlVars>>

-----------------------------------------------------------------------------
(* Properties                                                               *)

(* The pid never asks for more than the power limit allows, nor for less    *)
(* than nothing, whatever its terms have saturated to and however much time *)
(* its 16-bit clock says has passed.                                        *)
DutyInRange == duty \in 0..MaxDuty

(* What the integrator has collected does not outlive a pause of more than  *)
(* 0.2 s (main.c:380): all of it is from the calls since.  As long as no    *)
(* pause is as long as half the milliseconds i2fp can tell apart.           *)
IntegralIsRecent == intgrt # 0 => oldest >= resumed
=============================================================================
