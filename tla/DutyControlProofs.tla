-------------------------- MODULE DutyControlProofs --------------------------
(* The duty cycle stays within its limits whatever the fixed-point terms    *)
(* saturate to, for all widths and limits; and as long as the clocks do not *)
(* wrap, the pid's integrator holds nothing from before a pause.            *)
EXTENDS DutyControl, TaskTimerProofs

(* The milliseconds observed fit i2fp, and a millisecond is not less than   *)
(* the smallest fraction of a second.                                       *)
NoIntWrap ==
    /\ MaxUptime \div TicksPerMs < IntMax
    /\ One >= MsPerSecond /\ (MsPerSecond \div 5) * 5 = MsPerSecond

-----------------------------------------------------------------------------
(* Division                                                                 *)

LEMMA DivInt ==
    ASSUME NEW a \in Int, NEW b \in Nat \ {0} PROVE a \div b \in Int
  OBVIOUS

LEMMA DivBounds ==
    ASSUME NEW a \in Nat, NEW b \in Nat \ {0}, NEW k \in Nat, a <= k * b
    PROVE  a \div b \in 0..k
  <1> DEFINE q == a \div b
  <1>1. q \in Int /\ a = b * q + (a % b) /\ a % b \in 0..b - 1
    OBVIOUS
  <1> HIDE DEF q
  <1>2. q >= 0
    <2>1. ASSUME q < 0 PROVE b * q <= -b
      <3>1. b * q = -(b * (-q)) /\ -q >= 1
        BY <1>1, <2>1
      <3>2. b * (-q) >= b
        BY <1>1, <3>1
      <3> QED BY <1>1, <3>1, <3>2
    <2> QED BY <1>1, <2>1
  <1>3. q <= k
    <2>1. ASSUME q > k PROVE b * q >= b * k + b
      <3>1. q = k + 1 + (q - k - 1) /\ q - k - 1 \in Nat
        BY <1>1, <2>1
      <3>2. b * q = b * k + b + b * (q - k - 1) /\ b * (q - k - 1) >= 0
        BY <1>1, <3>1
      <3> QED BY <1>1, <3>2
    <2>2. k * b = b * k /\ b * k \in Nat /\ b * q \in Int
      BY <1>1
    <2> QED BY <1>1, <2>1, <2>2
  <1> QED BY <1>2, <1>3, <1>1 DEF q

(* A multiple and less than the divisor.                                    *)
LEMMA DivExact ==
    ASSUME NEW n \in Nat, NEW b \in Nat \ {0}, NEW r \in 0..b - 1
    PROVE  (n * b + r) \div b = n
  <1> DEFINE a == n * b + r  q == a \div b
  <1>1. a \in Nat /\ a <= (n + 1) * b
    <2>1. (n + 1) * b = n * b + b /\ n * b \in Nat
      OBVIOUS
    <2> QED BY <2>1
  <1>2. q \in Int /\ a = b * q + (a % b) /\ a % b \in 0..b - 1
    BY <1>1
  <1>3. b * (q - n) = r - (a % b)
    <2>1. b * (q - n) = b * q - b * n /\ b * n = n * b
      BY <1>2
    <2> QED BY <1>1, <1>2, <2>1
  <1> HIDE DEF q, a
  <1>4. r - (a % b) < b /\ r - (a % b) > -b
    BY <1>2
  <1>5. ASSUME q - n >= 1 PROVE FALSE
    <2>1. b * (q - n) >= b
      BY <1>2, <1>5
    <2> QED BY <1>2, <1>3, <1>4, <2>1
  <1>6. ASSUME n - q >= 1 PROVE FALSE
    <2>1. b * (n - q) >= b /\ b * (q - n) = -(b * (n - q))
      BY <1>2, <1>6
    <2> QED BY <1>2, <1>3, <1>4, <2>1
  <1>7. q = n
    BY <1>2, <1>5, <1>6
  <1> QED BY <1>7 DEF q, a

-----------------------------------------------------------------------------
(* Fixed-point numbers are integers, whatever is done with them.            *)

LEMMA Limits ==
    /\ One \in Nat \ {0} /\ IntMax \in Nat \ {0}
    /\ FpMax \in Int /\ FpMin \in Int /\ FpMin <= 0 /\ FpMax >= 0
    /\ One \div 2 \in 0..One - 1
  <1>1. One \in Nat \ {0} /\ IntMax \in Nat \ {0} /\ IntMax * One >= 1
    BY FixedPointAssumption
  <1> QED BY <1>1, FixedPointAssumption DEF FpMax, FpMin

LEMMA SaturateInt == ASSUME NEW n \in Int PROVE Saturate(n) \in Int
  BY Limits DEF Saturate

LEMMA AddInt == ASSUME NEW a \in Int, NEW b \in Int PROVE FpAdd(a, b) \in Int
  BY Limits DEF FpAdd

LEMMA SubInt == ASSUME NEW a \in Int, NEW b \in Int PROVE FpSub(a, b) \in Int
  BY Limits DEF FpSub

LEMMA MulInt == ASSUME NEW a \in Int, NEW b \in Int PROVE FpMul(a, b) \in Int
  <1>1. a * b + (One \div 2) \in Int
    BY Limits
  <1>2. (a * b + (One \div 2)) \div One \in Int
    BY <1>1, Limits, DivInt
  <1> QED BY <1>2, SaturateInt DEF FpMul

LEMMA QuotientInt ==
    ASSUME NEW a \in Int, NEW b \in Int, b # 0 PROVE Quotient(a, b) \in Int
  <1>1. CASE b > 0
    <2>1. a \div b \in Int /\ (-a) \div b \in Int
      BY <1>1, DivInt
    <2> QED BY <1>1, <2>1 DEF Quotient
  <1>2. CASE b < 0
    <2>1. a \div (-b) \in Int /\ (-a) \div (-b) \in Int
      BY <1>2, DivInt
    <2> QED BY <1>2, <2>1 DEF Quotient
  <1> QED BY <1>1, <1>2

LEMMA DivFpInt == ASSUME NEW a \in Int, NEW b \in Int PROVE FpDiv(a, b) \in Int
  <1>1. CASE b = 0
    BY <1>1, Limits DEF FpDiv
  <1>2. CASE b # 0
    <2>1. a * One \in Int
      BY Limits
    <2>2. Saturate(Quotient(a * One, b)) \in Int
      BY <1>2, <2>1, QuotientInt, SaturateInt
    <2> QED BY <1>2, <2>2 DEF FpDiv
  <1> QED BY <1>1, <1>2

-----------------------------------------------------------------------------
(* Whatever number the pid arrives at becomes a duty cycle within limits:   *)
(* the clamp keeps it in range, and fp_map does not saturate then.          *)
LEMMA DutyBounded == ASSUME NEW e \in Int PROVE DutyOf(e) \in 0..MaxDuty
  <1> DEFINE c == FpClamp(e, I2fp(0), I2fp(Full))
  <1>0. Full \in Nat \ {0} /\ MaxDuty \in Nat /\ MaxDuty <= Full /\ Full < IntMax
    BY Limits, ControlAssumption
  <1>1. c \in 0..Full * One
    BY <1>0, Limits DEF FpClamp, I2fp
  <1> HIDE DEF c
  <1>2. /\ Full * One \in Nat \ {0} /\ Full * One <= FpMax
        /\ MaxDuty * One \in Nat /\ MaxDuty * One <= Full * One
    <2>1. Full * One >= 1 /\ MaxDuty * One >= 0
      BY <1>0, Limits
    <2>2. Full * One + One <= IntMax * One
      <3>1. (Full + 1) * One <= IntMax * One
        BY <1>0, Limits
      <3> QED BY <3>1, <1>0, Limits
    <2>3. MaxDuty * One <= Full * One
      BY <1>0, Limits
    <2> QED BY <1>0, <2>1, <2>2, <2>3, Limits DEF FpMax
  <1>3. /\ FpSub(c, 0) = c /\ FpSub(I2fp(MaxDuty), 0) = MaxDuty * One
        /\ FpSub(I2fp(Full), 0) = Full * One
    BY <1>1, <1>2, Limits DEF FpSub, I2fp
  <1>4. c * MaxDuty \in Nat /\ c * MaxDuty <= FpMax
    <2>1. c * MaxDuty <= (Full * One) * Full
      <3>1. c * MaxDuty <= c * Full
        BY <1>0, <1>1
      <3>2. c * Full <= (Full * One) * Full
        BY <1>0, <1>1, <1>2
      <3> QED BY <1>0, <1>1, <1>2, <3>1, <3>2
    <2>2. (Full * One) * Full = (Full * Full) * One
      BY <1>0, Limits
    <2>3. Full * Full + 1 <= IntMax
      BY <1>0, Limits, ControlAssumption
    <2>4. (Full * Full + 1) * One <= IntMax * One
      BY <2>3, <1>0, Limits
    <2>5. (Full * Full + 1) * One = (Full * Full) * One + One
      BY <1>0, Limits
    <2> QED BY <1>0, <1>1, <2>1, <2>2, <2>4, <2>5, Limits DEF FpMax
  <1>5. FpMul(c, MaxDuty * One) = c * MaxDuty
    <2>1. c * (MaxDuty * One) = (c * MaxDuty) * One
      BY <1>0, <1>1, Limits
    <2>2. ((c * MaxDuty) * One + (One \div 2)) \div One = c * MaxDuty
      BY <1>4, DivExact, Limits
    <2> QED BY <1>4, <2>1, <2>2, Limits DEF FpMul, Saturate
  <1> DEFINE q == ((c * MaxDuty) * One) \div (Full * One)
  <1>6. q \in 0..MaxDuty * One
    <2>1. (c * MaxDuty) * One <= (MaxDuty * One) * (Full * One)
      <3>1. c * (MaxDuty * One) <= (Full * One) * (MaxDuty * One)
        BY <1>1, <1>2
      <3>2. c * (MaxDuty * One) = (c * MaxDuty) * One
        BY <1>0, <1>1, Limits
      <3>3. (Full * One) * (MaxDuty * One) = (MaxDuty * One) * (Full * One)
        BY <1>2
      <3> QED BY <3>1, <3>2, <3>3
    <2>2. (c * MaxDuty) * One \in Nat
      BY <1>4, Limits
    <2> QED BY <1>2, <2>1, <2>2, DivBounds
  <1>7. FpDiv(c * MaxDuty, Full * One) = q
    <2>1. (c * MaxDuty) * One >= 0
      BY <1>4, Limits
    <2>2. Quotient((c * MaxDuty) * One, Full * One) = q
      BY <1>2, <2>1 DEF Quotient
    <2>3. q \in Int /\ q <= FpMax /\ q >= FpMin
      BY <1>2, <1>6, Limits
    <2> HIDE DEF q
    <2>4. Saturate(q) = q
      BY <2>3, Limits DEF Saturate
    <2> QED BY <1>2, <2>2, <2>4 DEF FpDiv
  <1> HIDE DEF q
  <1>8. FpAdd(q, 0) = q
    BY <1>2, <1>6, Limits DEF FpAdd
  <1>9. q \div One \in 0..MaxDuty
    BY <1>0, <1>6, DivBounds, Limits
  <1>10. DutyOf(e) = q \div One
    BY <1>3, <1>5, <1>7, <1>8 DEF DutyOf, FpMap, Fp2i, I2fp, c
  <1> QED BY <1>9, <1>10

-----------------------------------------------------------------------------
(* The state of the pid                                                     *)

PidInv ==
    /\ intgrt \in Int /\ prev_err \in Int /\ prev_t \in Nat
    /\ duty \in 0..MaxDuty

(* The clock the pid keeps, its history with it.                            *)
RecentInv ==
    /\ prev_t = called
    /\ called \in Nat /\ called <= uptime
    /\ resumed \in Nat /\ resumed <= uptime
    /\ oldest \in Nat
    /\ IntegralIsRecent

(* The duty task's round is one of TaskTimer's.                             *)
LEMMA StepIsTimer == ControlNext => [Next]_vars
  BY DEF ControlNext, MeasureAndControl, Toggle, Next

(* The composition with the pid and the main loop implements the timers on  *)
(* their own: none of its steps does what TaskTimer does not do.            *)
THEOREM ControlImplementsTimer == ControlSpec => Spec
  <1>1. ControlInit => Init
    BY DEF ControlInit
  <1>2. [ControlNext]_<<vars, controlVars>> => [Next]_vars
    BY StepIsTimer DEF vars
  <1> QED BY <1>1, <1>2, PTL DEF ControlSpec, Spec

LEMMA GainsInt == Kp \in Int /\ Ti \in Int /\ Td \in Int
  BY Limits, DivInt DEF Kp, Ti, Td, Num2fp, I2fp

LEMMA NowNat == uptime \in Nat => Now \in Nat
  BY TicksAssumption DEF Now

LEMMA ClockReads ==
    ASSUME NEW u \in Nat, NEW p \in Nat
    PROVE  ((u % Word) - p) % Word \in Nat
  BY TicksAssumption

LEMMA DtInt == ASSUME uptime \in Nat, PidInv PROVE Dt \in Int
  <1> DEFINE ms == ((Now - prev_t) % Word) \div TicksPerMs
  <1>1. (Now - prev_t) % Word \in Nat
    BY ClockReads DEF Now, PidInv
  <1>2. ms \in Int
    BY <1>1, ControlAssumption, DivInt
  <1> HIDE DEF ms
  <1>3. I2fp(ToInt(ms)) \in Int /\ I2fp(MsPerSecond) \in Int
    BY <1>2, Limits, ControlAssumption DEF I2fp, ToInt
  <1> QED BY <1>3, DivFpInt DEF Dt, ms

LEMMA PidSteps ==
    ASSUME uptime \in Nat, PidInv, NEW delta \in Deltas, Pid(delta)
    PROVE  PidInv'
  <1> DEFINE err == I2fp(delta)
  <1>1. err \in Int
    BY ControlAssumption, Limits DEF I2fp
  <1> HIDE DEF err
  <1>2. Dt \in Int
    BY DtInt
  <1>3. Integral \in Int
    BY DEF Integral, PidInv
  <1>4. ErrI(err) \in Int
    <2>1. FpDiv(err, Ti) \in Int
      BY <1>1, GainsInt, DivFpInt
    <2> QED BY <1>2, <2>1, MulInt DEF ErrI
  <1>5. ErrD(err) \in Int
    <2>1. FpSub(err, prev_err) \in Int
      BY <1>1, SubInt DEF PidInv
    <2>2. FpDiv(FpSub(err, prev_err), Dt) \in Int
      BY <1>2, <2>1, DivFpInt
    <2> QED BY <2>2, GainsInt, MulInt DEF ErrD
  <1>6. Output(err) \in Int
    <2>1. FpAdd(0, err) \in Int
      BY <1>1, AddInt
    <2>2. FpAdd(FpAdd(0, err), ErrI(err)) \in Int
      BY <1>4, <2>1, AddInt
    <2>3. FpAdd(FpAdd(FpAdd(0, err), ErrI(err)), Integral) \in Int
      BY <1>3, <2>2, AddInt
    <2>4. FpAdd(FpAdd(FpAdd(FpAdd(0, err), ErrI(err)), Integral), ErrD(err)) \in Int
      BY <1>5, <2>3, AddInt
    <2> QED BY <2>4, GainsInt, MulInt DEF Output
  <1>7. FpAdd(Integral, ErrI(err)) \in Int
    BY <1>3, <1>4, AddInt
  <1>8. intgrt' \in {FpAdd(Integral, ErrI(err)), Integral} /\ prev_err' = err
        /\ prev_t' = Now /\ duty' = DutyOf(Output(err))
    BY DEF Pid, err
  <1>9. duty' \in 0..MaxDuty
    BY <1>6, <1>8, DutyBounded
  <1> QED BY <1>1, <1>3, <1>7, <1>8, <1>9, NowNat DEF PidInv

LEMMA PidInvInit == ControlInit => PidInv
  BY ControlAssumption DEF ControlInit, PidInv

LEMMA PidInvStep ==
    ASSUME uptime \in Nat, PidInv, [ControlNext]_<<vars, controlVars>>
    PROVE  PidInv'
  <1>1. CASE MeasureAndControl
    <2>1. CASE enabled
      BY <1>1, <2>1, PidSteps DEF MeasureAndControl
    <2>2. CASE ~enabled
      BY <1>1, <2>2, ControlAssumption DEF MeasureAndControl, PidInv, pidVars
    <2> QED BY <2>1, <2>2
  <1>2. CASE Toggle
    BY <1>2 DEF Toggle, PidInv, pidVars
  <1>3. CASE UNCHANGED controlVars
    BY <1>3 DEF controlVars, PidInv, pidVars
  <1> QED BY <1>1, <1>2, <1>3 DEF ControlNext

(* The clock itself does not need the timers' assumption on wrapping.       *)
LEMMA UptimeStep ==
    ASSUME uptime \in Nat, [ControlNext]_<<vars, controlVars>>
    PROVE  uptime' \in Nat /\ uptime' >= uptime
  <1> USE TicksAssumption
  <1>1. CASE MeasureAndControl
    BY <1>1 DEF MeasureAndControl, DutyMeasure
  <1>2. CASE Toggle
    BY <1>2 DEF Toggle, vars
  <1>3. CASE Timing
    BY <1>3 DEF Timing, Start, DutyReturn, DutyExpired, DutyDelay, UiReturn,
       UiDraw, Rest, Elapse
  <1>4. CASE UNCHANGED vars
    BY <1>4 DEF vars
  <1> QED BY <1>1, <1>2, <1>3, <1>4 DEF ControlNext

-----------------------------------------------------------------------------
(* The pid's 16-bit clock                                                   *)

(* More than a fifth of a second, in whole milliseconds, is more than 0.2   *)
(* in fixed point.                                                          *)
LEMMA PauseSeen ==
    ASSUME NoIntWrap, NEW ms \in 0..IntMax - 1, ms > MsPerSecond \div 5
    PROVE  FpDiv(I2fp(ToInt(ms)), I2fp(MsPerSecond)) > Num2fp(0, 2, 10)
  <1> DEFINE S == MsPerSecond  k == S \div 5  q == (ms * One) \div S
             d == (2 * One) \div 10
  <1>1. /\ S \in Nat \ {0} /\ k \in Nat /\ k * 5 = S /\ ms >= k + 1
        /\ One >= S /\ One \in Nat \ {0} /\ S < IntMax
    BY ControlAssumption, Limits DEF NoIntWrap
  <1>2. ToInt(ms) = ms
    <2>1. (ms + IntMax) % (2 * IntMax) = ms + IntMax
      BY Limits
    <2> QED BY <2>1, Limits DEF ToInt
  <1>3. q \in Int /\ ms * One = S * q + ((ms * One) % S) /\ (ms * One) % S \in 0..S - 1
    BY <1>1
  <1>4. d \in Int /\ 10 * d <= 2 * One
    BY <1>1
  <1>5. Num2fp(0, 2, 10) = d
    BY <1>1 DEF Num2fp, I2fp
  <1>6. FpDiv(I2fp(ToInt(ms)), I2fp(S)) = q
    <2>1. (ms * One) * One = One * (S * q + ((ms * One) % S))
      BY <1>1, <1>3
    <2>2. ((ms * One) * One) = q * (S * One) + ((ms * One) % S) * One
      BY <1>1, <1>3, <2>1
    <2>3. ((ms * One) % S) * One \in 0..S * One - 1
      <3>1. ((ms * One) % S) * One <= (S - 1) * One
        BY <1>1, <1>3
      <3> QED BY <1>1, <1>3, <3>1
    <2>4. ((ms * One) * One) \div (S * One) = q
      <3>1. q \in Nat
        BY <1>1, DivBounds
      <3>2. S * One \in Nat \ {0}
        BY <1>1
      <3> HIDE DEF q
      <3>3. (q * (S * One) + ((ms * One) % S) * One) \div (S * One) = q
        BY <2>3, <3>1, <3>2, DivExact
      <3> QED BY <2>2, <3>3
    <2>5. q \in 0..ms * One
      <3>1. ms * One \in Nat /\ ms * One <= (ms * One) * S
        BY <1>1
      <3> QED BY <1>1, <3>1, DivBounds
    <2>6. ms * One <= FpMax
      <3>1. ms * One <= (IntMax - 1) * One
        BY <1>1, Limits
      <3>2. (IntMax - 1) * One = IntMax * One - One
        BY <1>1, Limits
      <3> QED BY <1>1, <3>1, <3>2, Limits DEF FpMax
    <2> HIDE DEF q
    <2>7. Saturate(q) = q
      BY <2>5, <2>6, Limits DEF Saturate
    <2>8. S * One # 0 /\ S * One > 0 /\ (ms * One) * One >= 0
      BY <1>1
    <2>9. Quotient((ms * One) * One, S * One) = q
      BY <2>4, <2>8 DEF Quotient
    <2> QED BY <1>2, <2>7, <2>8, <2>9 DEF FpDiv, I2fp
  <1>7. q > d
    <2>1. k >= 1
      BY <1>1, ControlAssumption
    <2>2. S * q > ms * One - S
      BY <1>1, <1>3
    <2>3. ms * One >= k * One + One
      <3>1. ms * One >= (k + 1) * One
        BY <1>1
      <3> QED BY <1>1, <3>1
    <2> HIDE DEF q, d, k
    <2>4. S * q = k * (5 * q)
      BY <1>1, <1>3
    <2>5. k * (5 * q) > k * One
      BY <1>1, <1>3, <2>2, <2>3, <2>4
    <2>6. ASSUME 5 * q <= One PROVE FALSE
      <3>1. k * (5 * q) <= k * One
        BY <1>1, <1>3, <2>6
      <3> QED BY <1>1, <1>3, <2>5, <3>1
    <2> QED BY <1>1, <1>3, <1>4, <2>6
  <1> HIDE DEF q, d
  <1> QED BY <1>5, <1>6, <1>7

(* So a pause that pid's history calls one empties the integrator.          *)
LEMMA PauseResets ==
    ASSUME NoWrap, NoIntWrap, ClockInv, prev_t = called, called \in Nat,
           called <= uptime,
           (uptime - called) \div TicksPerMs > MsPerSecond \div 5
    PROVE  Integral = 0
  <1> DEFINE gone == uptime - called  ms == gone \div TicksPerMs
  <1>1. /\ gone \in Nat /\ gone <= MaxUptime /\ MaxUptime \in Nat
        /\ MaxUptime < Word /\ uptime \in Nat /\ uptime < Word
    BY TicksAssumption DEF ClockInv, NoWrap
  <1>2. Now = uptime /\ (Now - prev_t) % Word = gone
    <2>1. uptime % Word = uptime
      BY <1>1, BelowWord
    <2>2. gone % Word = gone
      BY <1>1, BelowWord, TicksAssumption
    <2> QED BY <2>1, <2>2 DEF Now
  <1>3. ms \in 0..IntMax - 1
    <2> DEFINE m == MaxUptime \div TicksPerMs
    <2>1. TicksPerMs \in Nat \ {0}
      BY ControlAssumption
    <2>2. /\ m \in Int /\ MaxUptime = TicksPerMs * m + (MaxUptime % TicksPerMs)
          /\ MaxUptime % TicksPerMs \in 0..TicksPerMs - 1
      BY <1>1, <2>1
    <2>3. m \in Nat
      BY <1>1, <2>1
    <2> HIDE DEF m
    <2>4. gone < (m + 1) * TicksPerMs
      <3>1. (m + 1) * TicksPerMs = TicksPerMs * m + TicksPerMs
        BY <2>1, <2>3
      <3> QED BY <1>1, <2>1, <2>2, <2>3, <3>1
    <2>5. /\ ms \in Int /\ gone = TicksPerMs * ms + (gone % TicksPerMs)
          /\ gone % TicksPerMs \in 0..TicksPerMs - 1
      BY <1>1, <2>1
    <2>6. ms >= 0
      BY <1>1, <2>1
    <2> HIDE DEF ms, gone
    <2>7. ASSUME ms >= m + 1 PROVE FALSE
      <3>1. ms * TicksPerMs >= (m + 1) * TicksPerMs
        BY <2>1, <2>3, <2>5, <2>7
      <3> QED BY <1>1, <2>1, <2>3, <2>4, <2>5, <3>1
    <2> QED BY <2>3, <2>5, <2>6, <2>7, Limits DEF NoIntWrap, m
  <1>4. Dt > Num2fp(0, 2, 10)
    BY <1>2, <1>3, PauseSeen DEF Dt
  <1> QED BY <1>4 DEF Integral

LEMMA RecentInit == ControlInit => RecentInv
  BY DEF ControlInit, Init, RecentInv, IntegralIsRecent

LEMMA RecentStep ==
    ASSUME NoWrap, NoIntWrap, ClockInv, PidInv, RecentInv,
           [ControlNext]_<<vars, controlVars>>
    PROVE  RecentInv'
  <1>1. uptime \in Nat /\ uptime' \in Nat /\ uptime' >= uptime
    BY UptimeStep DEF ClockInv
  <1>2. ASSUME NEW delta \in Deltas, Pid(delta), DutyMeasure PROVE RecentInv'
    <2> DEFINE pause == (uptime - called) \div TicksPerMs > MsPerSecond \div 5
    <2>1. Now = uptime
      BY BelowWord, TicksAssumption DEF ClockInv, NoWrap, Now
    <2>2. /\ prev_t' = uptime /\ called' = uptime /\ uptime' = uptime
          /\ resumed' = IF pause THEN uptime ELSE resumed
          /\ oldest' = IF Integral # 0 THEN oldest ELSE uptime
      BY <1>2, <2>1 DEF Pid, DutyMeasure
    <2>3. pause => Integral = 0
      BY PauseResets DEF RecentInv
    <2> HIDE DEF pause
    <2>4. CASE Integral = 0
      BY <1>1, <2>2, <2>4 DEF RecentInv, IntegralIsRecent
    <2>5. CASE Integral # 0
      <3>1. intgrt # 0 /\ oldest >= resumed
        BY <2>5 DEF Integral, RecentInv, IntegralIsRecent
      <3> QED BY <1>1, <2>2, <2>3, <2>5, <3>1 DEF RecentInv, IntegralIsRecent
    <2> QED BY <2>4, <2>5
  <1>3. ASSUME UNCHANGED pidVars PROVE RecentInv'
    BY <1>1, <1>3 DEF pidVars, RecentInv, IntegralIsRecent
  <1> QED BY <1>2, <1>3
          DEF ControlNext, MeasureAndControl, Toggle, controlVars

-----------------------------------------------------------------------------
(* The pid never asks for more than the power limit allows (main.c:404-407) *)
(* for any gain, width, difference of temperatures and wrap of its clocks.  *)
THEOREM DutyAlwaysInRange == ControlSpec => []DutyInRange
  <1>1. ControlInit => uptime \in Nat
    BY DEF ControlInit, Init
  <1>2. uptime \in Nat /\ [ControlNext]_<<vars, controlVars>> => (uptime \in Nat)'
    BY UptimeStep
  <1>3. uptime \in Nat /\ PidInv /\ [ControlNext]_<<vars, controlVars>> => PidInv'
    BY PidInvStep
  <1>4. PidInv => DutyInRange
    BY DEF PidInv, DutyInRange
  <1> QED BY <1>1, <1>2, <1>3, <1>4, PidInvInit, PTL DEF ControlSpec

(* The integrator holds nothing from before a pause (main.c:380), as long   *)
(* as neither the tick counter nor the pid's milliseconds wrap.             *)
THEOREM IntegralAlwaysRecent ==
    NoWrap /\ NoIntWrap => (ControlSpec => []IntegralIsRecent)
  <1> SUFFICES ASSUME NoWrap, NoIntWrap PROVE ControlSpec => []IntegralIsRecent
    OBVIOUS
  <1>1. ControlInit => ClockInv
    BY ClockInit DEF ControlInit
  <1>2. ClockInv /\ [ControlNext]_<<vars, controlVars>> => ClockInv'
    BY ClockStep, StepIsTimer DEF vars
  <1>3. ClockInv => uptime \in Nat
    BY DEF ClockInv
  <1>4. uptime \in Nat /\ PidInv /\ [ControlNext]_<<vars, controlVars>> => PidInv'
    BY PidInvStep
  <1>5. ClockInv /\ PidInv /\ RecentInv /\ [ControlNext]_<<vars, controlVars>>
          => RecentInv'
    BY RecentStep
  <1>6. RecentInv => IntegralIsRecent
    BY DEF RecentInv
  <1> QED BY <1>1, <1>2, <1>3, <1>4, <1>5, <1>6, PidInvInit, RecentInit, PTL
          DEF ControlSpec

(* With the pid in it, the duty task keeps what its timer promises, however *)
(* often the tick counter wraps: the reading that the pid works with gets   *)
(* stale, and the heater is paused too early, only by a deadline near the   *)
(* wrap (main.c:546).                                                       *)
THEOREM ControlKeepsTiming == ControlSpec => []StaleOnlyByWrap /\ PausesSpaced
  BY ControlImplementsTimer, AlwaysStaleOnlyByWrap, AlwaysSpaced, PTL
=============================================================================
