------------------------------- MODULE Sensors -------------------------------
(* What the firmware knows of the world: the ADC with its DMA and injected  *)
(* conversions (fw/main.c lines 187-300), the conversions to volts, amperes *)
(* and degrees (main.c 71-78, fw/ntc.h), the moving averages of fw/filter.h *)
(* that main keeps of them (main.c 482-512), the comparisons of the safety  *)
(* logic with these averages (main.c 656-665), and what the main screen     *)
(* shows of them (main.c 518-542, fw/display.c).  All numbers have the      *)
(* scale of the code.                                                       *)
(* An input stays for Burst passes of the main loop at most, or until the   *)
(* averages have had Settle updates to follow it.                           *)
EXTENDS Integers, Sequences

CONSTANTS
    Inputs,     \* raw ADC readings, see Channels: records of values below 4096
    MaxCurrent, \* pd_profile.max_current
    SetPower,   \* pd_profile.set_power
    MaxBoardTemp, MaxTipTemp, \* MAX_BOARD_TEMP, MAX_TIP_TEMP
    TipEvery,   \* passes from one measurement of the tip to the next, a set
    Burst, Settle, \* see above
    MaxChanges, \* bound: changes of the input
    MaxTimeouts \* bound: injected conversions that time out

(* What the 12 bits of the ADC can read                                     *)
AdcValues == 0..4095

ASSUME InputsAssumption ==
    Inputs \subseteq [vbus : AdcValues, current : AdcValues, ntc : AdcValues,
                      tip : AdcValues, vref : AdcValues \ {0}]
ASSUME LimitsAssumption ==
    /\ MaxCurrent \in Nat /\ SetPower \in Nat \ {0}
    /\ MaxBoardTemp \in Int /\ MaxTipTemp \in Nat
ASSUME PaceAssumption ==
    /\ TipEvery \subseteq Nat \ {0} /\ Burst \in Nat /\ Settle \in Nat
    /\ MaxChanges \in Nat /\ MaxTimeouts \in Nat

VARIABLES
    input,    \* what the pins carry
    seq, dma, \* the next position of the scan, and of the DMA's transfers
    adc_buffer, injection_results,
    vcc_mv, vbus_mv, current_ma, power, temp_c, tip_temp_c,
    every, wait,     \* passes between measurements of the tip, passes to go
    scanned,         \* conversions of the last round before a pass
    passes, updates, \* history: passes, tip measurements with this input
    changes, timeouts

adcVars  == <<seq, dma, adc_buffer, scanned>>
readings == <<vbus_mv, current_ma, power, temp_c>>
tipVars  == <<injection_results, vcc_mv, tip_temp_c, timeouts>>
vars == <<input, adcVars, readings, tipVars, every, wait, passes, updates, changes>>

-----------------------------------------------------------------------------
(* Arithmetic                                                               *)

Word == 65536
I16(n) == LET m == n % Word IN IF m >= 32768 THEN m - Word ELSE m

(* C's division, for a positive divisor.                                    *)
Trunc(a, b) == IF a >= 0 THEN a \div b ELSE -((-a) \div b)

(* Mutant of U16Ema: the average with k = 8.                                *)
U16EmaSlow(x, s) == ((255 * x + s) \div 256) % Word

(* Mutant of U16Ema: the old value is not reduced.                          *)
U16EmaKeepsAll(x, s) == ((16 * x + s) \div 16) % Word

(* U16_FP_EMA_K4.  The shift of the uint32_t and of the int32_t only differ *)
(* in bits the cast removes.                                                *)
U16Ema(x, s) == ((15 * x + s) \div 16) % Word
I16Ema(x, s) == I16(U16Ema(x, s))

(* 1200*4096 / reading; the processor answers a division by 0 with the      *)
(* largest uint32_t, which the average takes as -1.                         *)
VccOf(reading) == IF reading = 0 THEN -1 ELSE 4915200 \div reading

VbusOf(reading, vcc) == (reading * vcc * 11) \div 4096

(* get_current_ma, with its int16_t result                                  *)
CurrentOf(reading, vcc) == I16((((reading * vcc) \div 4096) * 10) \div 4)

(* Watts, of millivolts and milliamperes                                    *)
PowerOf(mv, ma) == (mv * ma) \div 1000000

(* fp2i(fp_mul(i2fp(tip_mv), tip_k)), with tip_k 9485 / 2^16: the product   *)
(* is a multiple of 2^16, so that nothing is rounded before fp2i.           *)
TipOf(reading, vcc) == I16(((((reading * vcc) \div 4096) % Word) * 9485) \div Word)

Lut == <<1316, 197, 155, 133, 119, 108, 100, 93, 87, 82, 77, 73, 69, 66, 63, 60,
         57, 54, 52, 50, 47, 45, 43, 41, 39, 37, 35, 34, 32, 30, 28, 27,
         25, 23, 22, 20, 19, 17, 15, 14, 12, 11, 9, 7, 6, 4, 2, 0,
         -1, -3, -5, -7, -9, -11, -14, -16, -19, -22, -25, -28, -32, -38, -44, -55,
         -55>>

(* Mutant of NtcOf: the interpolation starts from the wrong end.            *)
NtcOfBackwards(reading) ==
    LET base == Lut[reading \div 64 + 1]  next == Lut[reading \div 64 + 2]
    IN  base + Trunc((next - base) * (64 - (reading % 64)), 64)

(* get_temp_c                                                               *)
NtcOf(reading) ==
    LET base == Lut[reading \div 64 + 1]  next == Lut[reading \div 64 + 2]
    IN  IF reading > 4095 THEN 0 ELSE base + Trunc((next - base) * (reading % 64), 64)

-----------------------------------------------------------------------------
(* The ADC                                                                  *)

(* The channels setup_adc_and_dma puts in the regular sequence, and those   *)
(* it injects, whose results are read in their order.                       *)
Channels == <<"vbus", "current", "ntc">>
Injected == <<"tip", "vref">>

(* Mutant of Transfers: one too many.                                       *)
TransfersAndOne == Len(Channels) + 1

(* The DMA starts again after as many transfers as there are channels.      *)
Transfers == Len(Channels)

Init ==
    /\ input \in Inputs
    /\ seq = 0 /\ dma = 0 /\ scanned = 0
    /\ adc_buffer = [k \in 0..3 |-> 0]
    /\ injection_results = [k \in 0..1 |-> 0]
    /\ vcc_mv = 3300 /\ vbus_mv = 0 /\ current_ma = 0 /\ power = 0
    /\ temp_c = 0 /\ tip_temp_c = 0
    /\ every \in TipEvery /\ wait = every
    /\ passes = 0 /\ updates = 0 /\ changes = 0 /\ timeouts = 0

(* The continuous conversion: one channel after the other, each result to   *)
(* the next half-word of the buffer.  Of the many rounds between two passes *)
(* of the loop this is the last; the input may change in the middle of it.  *)
Convert ==
    /\ scanned < Len(Channels)
    /\ adc_buffer' = [adc_buffer EXCEPT ![dma] = input[Channels[seq + 1]]]
    /\ seq' = (seq + 1) % Len(Channels)
    /\ dma' = (dma + 1) % Transfers
    /\ scanned' = scanned + 1
    /\ UNCHANGED <<input, readings, tipVars, every, wait, passes, updates, changes>>

(* update_power_and_temperature, once in each pass: c_update_duty waits     *)
(* between one measurement of the tip and the next.                         *)
UpdatePower ==
    /\ scanned = Len(Channels) /\ wait > 0
    /\ vbus_mv' = U16Ema(vbus_mv, VbusOf(adc_buffer[0], vcc_mv))
    /\ current_ma' = U16Ema(current_ma, CurrentOf(adc_buffer[1], vcc_mv))
    /\ power' = PowerOf(vbus_mv', current_ma')
    /\ temp_c' = I16Ema(temp_c, NtcOf(adc_buffer[2]))
    /\ scanned' = 0 /\ wait' = wait - 1
    /\ passes' = IF passes < Settle THEN passes + 1 ELSE passes
    /\ UNCHANGED <<input, seq, dma, adc_buffer, tipVars, every, updates, changes>>

(* adc_injection_conversion: the results are read unless the poll for JEOC  *)
(* runs out.                                                                *)
Inject ==
    \/ injection_results' = [k \in 0..1 |-> input[Injected[k + 1]]] /\ UNCHANGED timeouts
    \/ timeouts < MaxTimeouts /\ timeouts' = timeouts + 1
       /\ UNCHANGED injection_results

(* update_tip_and_vcc goes on with the results there are.                   *)
UpdateTip ==
    /\ wait = 0 /\ wait' = every
    /\ Inject
    /\ vcc_mv' = U16Ema(vcc_mv, VccOf(injection_results'[1]))
    /\ tip_temp_c' = U16Ema(tip_temp_c, TipOf(injection_results'[0], vcc_mv') + temp_c)
    /\ updates' = IF updates < Settle THEN updates + 1 ELSE updates
    /\ UNCHANGED <<input, adcVars, readings, every, passes, changes>>

(* The world changes.                                                       *)
Change ==
    /\ changes < MaxChanges /\ changes' = changes + 1
    /\ passes <= Burst \/ updates = Settle
    /\ input' \in Inputs \ {input}
    /\ passes' = 0 /\ updates' = 0
    /\ UNCHANGED <<adcVars, readings, tipVars, every, wait>>

Next == Convert \/ UpdatePower \/ UpdateTip \/ Change

Spec == Init /\ [][Next]_vars

-----------------------------------------------------------------------------
(* The safety logic and the screen                                          *)

(* The comparisons that switch the heater off.                              *)
Over ==
    {s \in {"current", "board", "tip"} :
       \/ s = "current" /\ current_ma > MaxCurrent + MaxCurrent \div 10
       \/ s = "board" /\ temp_c > MaxBoardTemp
       \/ s = "tip" /\ tip_temp_c > MaxTipTemp}

(* Mutant of Digits: a pair that begins with a zero loses it.               *)
DigitsShort(value) ==
    LET d[v \in 0..Word - 1] == IF v < 10 THEN <<v>>
                                ELSE d[v \div 100] \o
                                     (IF v % 100 < 10 THEN <<v % 100>>
                                      ELSE <<(v % 100) \div 10, v % 10>>)
    IN  d[value]

(* u16toa: pairs of digits from the right, then one digit or two.           *)
Digits(value) ==
    LET d[v \in 0..Word - 1] == IF v < 10 THEN <<v>>
                                ELSE IF v < 100 THEN <<v \div 10, v % 10>>
                                ELSE d[v \div 100] \o <<(v % 100) \div 10, v % 10>>
    IN  d[value]

(* The segments draw_7seg switches on                                       *)
Segments(n) ==
    {s \in {"top", "bottom", "center", "top left", "bottom left", "top right",
            "bottom right"} :
       n \in CASE s = "top"          -> {0, 2, 3, 5, 6, 7, 8, 9}
               [] s = "bottom"       -> {0, 2, 3, 5, 6, 8, 9}
               [] s = "center"       -> {2, 3, 4, 5, 6, 8, 9}
               [] s = "top left"     -> {0, 4, 5, 6, 8, 9}
               [] s = "bottom left"  -> {0, 2, 6, 8}
               [] s = "top right"    -> {0, 1, 2, 3, 4, 7, 8, 9}
               [] s = "bottom right" -> {0, 1, 3, 4, 5, 6, 7, 8, 9}}

(* draw_temp takes the reading as an int16_t and draws 000 for what does    *)
(* not fit three digits.                                                    *)
ShownTemp ==
    LET t == I16(tip_temp_c)
        s == IF t > 999 \/ t < 0 THEN 0 ELSE t
    IN  <<Segments(s \div 100), Segments((s \div 10) % 10), Segments(s % 10)>>

(* The lines of c_draw_main_ui: amperes, volts and the width of the bar,    *)
(* with the uint8_t in between.                                             *)
ShownAmps == Digits((current_ma + 500) \div 1000)
ShownVolts == Digits((vbus_mv + 500) \div 1000)
Bar == LET p == ((power * 100) \div SetPower) % 256 IN ((p * 54) \div 100) % 256

-----------------------------------------------------------------------------
(* Properties                                                               *)

(* A truncating average ends within 15 below a constant value, and never    *)
(* above it.                                                                *)
Near(average, value) == average \in value - 15..value

(* Whatever the averages held before, the channels the scan was at when the *)
(* input changed and the conversions that timed out, a constant input is    *)
(* read as what it is: so what stays over a limit by more than 15 is seen   *)
(* by the safety logic, and what stays below it raises no false alarm.      *)
AveragesSettle ==
    updates = Settle =>
      /\ Near(vcc_mv, VccOf(input.vref))
      /\ Near(vbus_mv, VbusOf(input.vbus, vcc_mv))
      /\ Near(current_ma, CurrentOf(input.current, vcc_mv))
      /\ Near(temp_c, NtcOf(input.ntc))
      /\ Near(tip_temp_c, TipOf(input.tip, vcc_mv) + temp_c)

(* A current of full scale is over the limit after 21 passes of the loop at *)
(* the latest, also if the supply voltage is a little off because the first *)
(* injected conversion timed out.                                           *)
ShortSeenInTime == input.current = 4095 /\ passes >= 21 => "current" \in Over

(* The reading of the tip is never farther above the warmest board there is *)
(* than the full scale of its amplifier: no false alarm below that, but the *)
(* comparison with MAX_TIP_TEMP (main.c:663) cannot see more either.        *)
TipInReach ==
    \E i \in Inputs, v \in {3300} \cup {VccOf(j.vref) : j \in Inputs} :
      tip_temp_c <= TipOf(4095, v) + NtcOf(i.ntc)

(* What the screen shows can be read back: the segments of two digits are   *)
(* never the same, no digit of a number is lost, and a power over the limit *)
(* fills the bar (54 pixels), up to twice the limit.                        *)
Reads(digits, value) ==
    /\ Len(digits) = 1 \/ digits[1] # 0
    /\ LET n[k \in 0..Len(digits)] == IF k = 0 THEN 0 ELSE 10 * n[k - 1] + digits[k]
       IN  n[Len(digits)] = value

DigitsDiffer == \A a, b \in 0..9 : Segments(a) = Segments(b) => a = b

ScreenTells ==
    /\ DigitsDiffer
    /\ tip_temp_c <= 999 =>
         LET digit(k) == CHOOSE d \in 0..9 : ShownTemp[k] = Segments(d)
         IN  100 * digit(1) + 10 * digit(2) + digit(3) = tip_temp_c
    /\ Reads(ShownAmps, (current_ma + 500) \div 1000)
    /\ Reads(ShownVolts, (vbus_mv + 500) \div 1000)
    /\ Reads(Digits(vbus_mv), vbus_mv) /\ Reads(Digits(vcc_mv), vcc_mv)
    /\ power <= 2 * SetPower => (power >= SetPower <=> Bar >= 54)

(* A colder thermistor has the higher reading, and never reads as warmer;   *)
(* between two entries of the table the temperature lies between theirs.    *)
TableFalls ==
    \A reading \in AdcValues :
      /\ reading < 4095 => NtcOf(reading + 1) <= NtcOf(reading)
      /\ NtcOf(reading) \in Lut[reading \div 64 + 2]..Lut[reading \div 64 + 1]

(* So a colder board never reads as warmer, and its average never leaves    *)
(* the range of the table, whatever the thermistor did before.              *)
NtcFalls == TableFalls /\ temp_c \in NtcOf(4095)..NtcOf(0)
=============================================================================
