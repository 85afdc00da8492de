---------------------------- MODULE SensorsProofs ----------------------------
(* Proofs about Sensors, for every set of readings, every limit and every   *)
(* pace of the tip's measurement that the module's assumptions admit, and   *)
(* the assumptions SupplyOK and BoardWarm about the board where a theorem   *)
(* names them.                                                              *)
EXTENDS Sensors, SequenceTheorems, TLAPS

-----------------------------------------------------------------------------
(* Moving averages                                                          *)

(* An average that is at most m above its target is at most 15m/16 above it *)
(* after one update, and one that is more than 15 below comes nearer        *)
(* likewise. Margin(k) bounds what is left after k updates, however far the *)
(* average was: 16 updates more than halve it, from 2^16, and after 208 it  *)
(* is 0.                                                                    *)
Scale == <<2048, 1024, 512, 256, 128, 64, 32, 16, 8, 4, 2, 1>>
Margin(k) == IF k < 192 THEN (32 - (k % 16)) * Scale[k \div 16 + 1]
             ELSE IF k < 208 THEN 208 - k ELSE 0

(* The average x is within the margin of k updates of its target s, and     *)
(* truncation has cost it 15 at most.                                       *)
Within(x, s, k) == x \in s - 15 - Margin(k) .. s + Margin(k)

(* One update shrinks the margin by a sixteenth.                            *)
LEMMA AverageStep ==
    ASSUME NEW x \in Int, NEW s \in Int, NEW m \in Nat, NEW n \in Nat,
           (15 * m) \div 16 <= n, x \in s - 15 - m..s + m
    PROVE  (15 * x + s) \div 16 \in s - 15 - n..s + n
  OBVIOUS

(* Margin falls at least as slowly as the average: case by case in the      *)
(* table of powers of two.                                                  *)
LEMMA MarginShrinks ==
    ASSUME NEW k \in Nat
    PROVE  /\ Margin(k) \in Nat
           /\ (15 * Margin(k)) \div 16 <= Margin(k + 1)
           /\ Margin(k + 1) <= Margin(k)
  <1> DEFINE j == k \div 16  t == k % 16
  <1>1. k = 16 * j + t /\ j \in Nat /\ t \in 0..15
    OBVIOUS
  <1> HIDE DEF j, t
  <1>2. CASE k < 191
    <2>1. j \in 0..11
      BY <1>1, <1>2
    <2>2. Margin(k) = (32 - t) * Scale[j + 1]
      BY <1>2 DEF Margin, j, t
    <2>3. CASE t < 15
      <3>1. (k + 1) \div 16 = j /\ (k + 1) % 16 = t + 1
        BY <1>1, <2>3
      <3>2. Margin(k + 1) = (31 - t) * Scale[j + 1]
        BY <1>2, <3>1, <1>1 DEF Margin
      <3> QED BY <2>1, <2>2, <3>2, <1>1, <2>3 DEF Scale
    <2>4. CASE t = 15
      <3>1. (k + 1) \div 16 = j + 1 /\ (k + 1) % 16 = 0 /\ j < 11
        BY <1>1, <2>4, <1>2
      <3>2. Margin(k + 1) = 32 * Scale[j + 2]
        BY <1>2, <3>1, <1>1 DEF Margin
      <3>3. Margin(k) = 17 * Scale[j + 1]
        BY <2>2, <2>4
      <3> QED BY <2>1, <3>1, <3>2, <3>3 DEF Scale
    <2> QED BY <1>1, <2>3, <2>4
  <1>3. CASE k >= 191
    <2>1. Margin(k) = IF k = 191 THEN 17 ELSE IF k < 208 THEN 208 - k ELSE 0
      BY <1>3 DEF Margin, Scale
    <2>2. Margin(k + 1) = IF k + 1 < 208 THEN 207 - k ELSE 0
      BY <1>3 DEF Margin
    <2> QED BY <1>3, <2>1, <2>2
  <1> QED BY <1>2, <1>3

LEMMA WordIs == Word = 65536
  BY DEF Word

LEMMA Div16 ==
    ASSUME NEW a \in Int
    PROVE  a \div 16 \in Int /\ 16 * (a \div 16) <= a /\ a <= 16 * (a \div 16) + 15
  OBVIOUS

LEMMA ModWord ==
    ASSUME NEW n \in Nat, n < Word
    PROVE  n % Word = n
  BY DEF Word

(* What a uint16_t holds                                                    *)
U16(n) == n \in Nat /\ n < Word

(* U16_FP_EMA_K4 of two 16-bit numbers overflows nowhere.                   *)
LEMMA AverageU16 ==
    ASSUME NEW x, U16(x), NEW s, U16(s)
    PROVE  U16Ema(x, s) = (15 * x + s) \div 16 /\ U16(U16Ema(x, s))
  <1> DEFINE q == (15 * x + s) \div 16
  <1>1. q \in Int /\ 16 * q <= 15 * x + s /\ 15 * x + s <= 16 * q + 15
    BY Div16 DEF U16
  <1> HIDE DEF q
  <1>2. U16(q)
    BY <1>1, WordIs DEF U16
  <1>3. q % Word = q
    BY <1>2, ModWord DEF U16
  <1> QED BY <1>2, <1>3 DEF U16Ema, q

(* The cast to int16_t keeps what fits.                                     *)
LEMMA SignedWord ==
    ASSUME NEW q \in Int, -32768 <= q, q <= 32767
    PROVE  I16(q % Word) = q
  <1>1. CASE q >= 0
    BY <1>1 DEF I16, Word
  <1>2. CASE q < 0
    <2>1. q % 65536 = q + 65536
      BY <1>2
    <2>2. (q + 65536) % 65536 = q + 65536
      BY <1>2
    <2> QED BY <1>2, <2>1, <2>2 DEF I16, Word
  <1> QED BY <1>1, <1>2

(* What the table of the thermistor holds                                   *)
Temp(t) == t \in Int /\ -55 <= t /\ t <= 1316

(* The average of two temperatures, with the sign it gets back from the     *)
(* cast                                                                     *)
LEMMA AverageI16 ==
    ASSUME NEW x, Temp(x), NEW s, Temp(s)
    PROVE  I16Ema(x, s) = (15 * x + s) \div 16 /\ Temp(I16Ema(x, s))
  <1> DEFINE q == (15 * x + s) \div 16
  <1>1. q \in Int /\ 16 * q <= 15 * x + s /\ 15 * x + s <= 16 * q + 15
    BY Div16 DEF Temp
  <1> HIDE DEF q
  <1>2. Temp(q)
    BY <1>1 DEF Temp
  <1>3. I16(q % Word) = q
    BY <1>2, SignedWord DEF Temp
  <1> QED BY <1>2, <1>3 DEF I16Ema, U16Ema, q

(* The table falls.                                                         *)
LEMMA LutFalls ==
    \A i \in 1..64 : Temp(Lut[i]) /\ Temp(Lut[i + 1]) /\ Lut[i + 1] <= Lut[i]
  BY DEF Lut, Temp

(* Membership, so that no proof has to look into the interval               *)
LEMMA Adc == \A r : r \in AdcValues <=> r \in Nat /\ r <= 4095
  <1>1. ASSUME NEW r \in AdcValues PROVE r \in Nat /\ r <= 4095
    BY DEF AdcValues
  <1>2. ASSUME NEW r \in Nat, r <= 4095 PROVE r \in AdcValues
    <2> DEFINE top == 4095
    <2>1. top \in Nat /\ r <= top
      BY <1>2
    <2>2. r \in 0..top
      <3> HIDE DEF top
      <3> QED BY <2>1
    <2> QED BY <2>2 DEF AdcValues
  <1> QED BY <1>1, <1>2

(* The reading that lies m 64ths past the entry i of the table.             *)
At(i, m) == 64 * (i - 1) + m

(* What is interpolated there                                               *)
LEMMA NtcIs ==
    ASSUME NEW i \in 1..64, NEW m \in 0..63
    PROVE  NtcOf(At(i, m)) = Lut[i] - (((Lut[i] - Lut[i + 1]) * m) \div 64)
  <1> DEFINE reading == At(i, m)  d == (Lut[i] - Lut[i + 1]) * m
  <1>1. reading \in 0..4095 /\ reading \div 64 + 1 = i /\ reading % 64 = m
    BY DEF At
  <1> HIDE DEF reading
  <1>2. NtcOf(reading) = Lut[i] + Trunc((Lut[i + 1] - Lut[i]) * m, 64)
    BY <1>1 DEF NtcOf
  <1>3. Lut[i] \in Int /\ Lut[i + 1] \in Int /\ Lut[i + 1] <= Lut[i]
    BY LutFalls DEF Temp
  <1>4. (Lut[i + 1] - Lut[i]) * m = -d /\ d \in Nat
    BY <1>3
  <1> HIDE DEF d
  <1>5. Trunc(-d, 64) = -(d \div 64) /\ d \div 64 \in Int
    BY <1>4 DEF Trunc
  <1>6. NtcOf(reading) = Lut[i] - (d \div 64)
    BY <1>2, <1>3, <1>4, <1>5
  <1> QED BY <1>1, <1>6 DEF d, reading

(* Every reading lies between two entries.                                  *)
LEMMA Split ==
    ASSUME NEW r \in AdcValues
    PROVE  \E i \in 1..64, m \in 0..63 :
              r = At(i, m) /\ r \div 64 + 1 = i /\ r \div 64 + 2 = i + 1
  <1>1. /\ r \div 64 + 1 \in 1..64 /\ r % 64 \in 0..63
        /\ r = At(r \div 64 + 1, r % 64) /\ r \div 64 + 2 = (r \div 64 + 1) + 1
    BY Adc DEF At
  <1> DEFINE i == r \div 64 + 1  m == r % 64
  <1> HIDE DEF m
  <1>2. i \in 1..64 /\ m \in 0..63 /\ r = At(i, m) /\ r \div 64 + 1 = i /\ r \div 64 + 2 = i + 1
    BY <1>1 DEF m
  <1> HIDE DEF i
  <1> QED BY <1>2

(* The interpolation between them lies between them, and moves one way.     *)
LEMMA Interpolation ==
    ASSUME NEW d \in Nat, NEW m \in 0..63
    PROVE  /\ (d * m) \div 64 \in Nat /\ (d * m) \div 64 <= d
           /\ (d * m) \div 64 <= (d * (m + 1)) \div 64
  <1> DEFINE p == d * m
  <1>1. p \in Nat /\ p <= 63 * d /\ d * (m + 1) = p + d
    OBVIOUS
  <1> HIDE DEF p
  <1>2. p \div 64 \in Nat /\ p \div 64 <= d /\ p \div 64 <= (p + d) \div 64
    BY <1>1
  <1> QED BY <1>1, <1>2 DEF p

(* So does what get_temp_c returns,                                         *)
LEMMA NtcBetween ==
    ASSUME NEW i \in 1..64, NEW m \in 0..63
    PROVE  NtcOf(At(i, m)) \in Lut[i + 1]..Lut[i] /\ Temp(NtcOf(At(i, m)))
  <1> DEFINE d == Lut[i] - Lut[i + 1]  q == (d * m) \div 64
  <1>1. /\ Temp(Lut[i]) /\ Temp(Lut[i + 1]) /\ d \in Nat /\ Lut[i] = Lut[i + 1] + d
    BY LutFalls DEF Temp
  <1>2. NtcOf(At(i, m)) = Lut[i] - q
    BY NtcIs
  <1> HIDE DEF d
  <1>3. q \in Nat /\ q <= d
    BY <1>1, Interpolation
  <1> HIDE DEF q
  <1> QED BY <1>1, <1>2, <1>3 DEF Temp

(* and it falls from one reading to the next, across an entry too.          *)
LEMMA NtcNext ==
    ASSUME NEW i \in 1..64, NEW m \in 0..63, m < 63 \/ i < 64
    PROVE  NtcOf(At(i, m) + 1) <= NtcOf(At(i, m))
  <1> DEFINE d == Lut[i] - Lut[i + 1]  q == (d * m) \div 64  p == (d * (m + 1)) \div 64
  <1>1. Temp(Lut[i]) /\ Temp(Lut[i + 1]) /\ d \in Nat
    BY LutFalls DEF Temp
  <1>2. NtcOf(At(i, m)) = Lut[i] - q
    BY NtcIs
  <1>3. CASE m < 63
    <2>1. m + 1 \in 0..63 /\ At(i, m) + 1 = At(i, m + 1)
      BY <1>3 DEF At
    <2>2. NtcOf(At(i, m + 1)) = Lut[i] - p
      BY <2>1, NtcIs
    <2> HIDE DEF d
    <2>3. q \in Nat /\ q <= p /\ p \in Int
      BY <1>1, Interpolation
    <2> HIDE DEF q, p
    <2> QED BY <1>1, <1>2, <2>1, <2>2, <2>3 DEF Temp
  <1>4. CASE m = 63
    <2> DEFINE n == i + 1  z == 0
    <2>1. n \in 1..64 /\ z \in 0..63 /\ At(i, m) + 1 = At(n, z)
      BY <1>4 DEF At
    <2>2. Temp(Lut[n]) /\ Temp(Lut[n + 1])
      BY <2>1, LutFalls
    <2> HIDE DEF n, z
    <2>3. NtcOf(At(n, z)) = Lut[n] - (((Lut[n] - Lut[n + 1]) * z) \div 64)
      BY <2>1, NtcIs
    <2>4. NtcOf(At(n, z)) = Lut[i + 1]
      BY <2>2, <2>3 DEF Temp, n, z
    <2>5. NtcOf(At(i, m)) \in Lut[i + 1]..Lut[i]
      BY NtcBetween
    <2> QED BY <1>1, <2>1, <2>4, <2>5 DEF Temp
  <1> QED BY <1>3, <1>4

LEMMA NtcInTable ==
    ASSUME NEW r \in AdcValues
    PROVE  Temp(NtcOf(r))
  BY Split, NtcBetween

(* TableFalls holds, and the ends of the table are its extremes.            *)
LEMMA TableAlwaysFalls == TableFalls /\ NtcOf(0) = 1316 /\ NtcOf(4095) = -55
  <1>1. TableFalls
    <2> SUFFICES ASSUME NEW reading \in AdcValues
                 PROVE  /\ reading < 4095 => NtcOf(reading + 1) <= NtcOf(reading)
                        /\ NtcOf(reading) \in Lut[reading \div 64 + 2]..Lut[reading \div 64 + 1]
      BY DEF TableFalls
    <2>2. PICK i \in 1..64, m \in 0..63 :
             reading = At(i, m) /\ reading \div 64 + 1 = i /\ reading \div 64 + 2 = i + 1
      BY Split
    <2>3. i \in 1..64 /\ m \in 0..63
      BY <2>2
    <2>4. NtcOf(At(i, m)) \in Lut[i + 1]..Lut[i]
      BY <2>3, NtcBetween
    <2>5. ASSUME m < 63 \/ i < 64 PROVE NtcOf(At(i, m) + 1) <= NtcOf(At(i, m))
      BY <2>3, <2>5, NtcNext
    <2>6. reading < 4095 => m < 63 \/ i < 64
      BY <2>2, <2>3 DEF At
    <2> QED BY <2>2, <2>4, <2>5, <2>6
  <1>2. NtcOf(0) = 1316
    BY DEF NtcOf, Trunc, Lut
  <1>3. NtcOf(4095) = -55
    BY DEF NtcOf, Trunc, Lut
  <1> QED BY <1>1, <1>2, <1>3

-----------------------------------------------------------------------------
(* Averages near their input                                                *)

LEMMA EmaRange ==
    ASSUME NEW x \in Int, NEW s \in Int
    PROVE  U16(U16Ema(x, s))
  <1>1. (15 * x + s) \div 16 \in Int
    BY Div16
  <1>2. \A n \in Int : n % 65536 \in Nat /\ n % 65536 < 65536
    OBVIOUS
  <1> QED BY <1>1, <1>2 DEF U16Ema, U16, Word

(* Any average is within the margin of no updates, and each update          *)
(* (WithinStep) takes one more; a pass that the input did not change        *)
(* forgets at most one (WithinLess). After 208 the average is Near, and     *)
(* stays (NearStays).                                                       *)
LEMMA WithinStart ==
    ASSUME NEW x \in Int, NEW s \in Int, -1316 <= x, x < Word, -1316 <= s, s < Word,
           x - s <= 65536, s - x <= 65536
    PROVE  Within(x, s, 0)
  <1>1. Margin(0) = 65536
    BY DEF Margin, Scale
  <1> QED BY <1>1 DEF Within

LEMMA WithinStep ==
    ASSUME NEW x \in Int, NEW s \in Int, NEW k \in Nat, Within(x, s, k)
    PROVE  Within((15 * x + s) \div 16, s, k + 1)
  <1>1. /\ Margin(k) \in Nat /\ Margin(k + 1) \in Nat
        /\ (15 * Margin(k)) \div 16 <= Margin(k + 1)
    BY MarginShrinks
  <1> QED BY <1>1, AverageStep DEF Within

LEMMA WithinLess ==
    ASSUME NEW x \in Int, NEW s \in Int, NEW k \in Nat, Within(x, s, k + 1)
    PROVE  Within(x, s, k)
  <1>1. Margin(k) \in Nat /\ Margin(k + 1) \in Nat /\ Margin(k + 1) <= Margin(k)
    BY MarginShrinks
  <1> QED BY <1>1 DEF Within

LEMMA WithinEnd ==
    ASSUME NEW x \in Int, NEW s \in Int, NEW k \in Nat, k >= 208, Within(x, s, k)
    PROVE  Near(x, s)
  BY DEF Within, Near, Margin

LEMMA NearStays ==
    ASSUME NEW x \in Int, NEW s \in Int, Near(x, s)
    PROVE  (15 * x + s) \div 16 = x
  BY DEF Near

-----------------------------------------------------------------------------
(* The conversions                                                          *)

LEMMA DivInt ==
    ASSUME NEW a \in Int, NEW b \in Nat \ {0}
    PROVE  a \div b \in Int /\ b * (a \div b) <= a /\ a < b * (a \div b) + b
  OBVIOUS

(* Products of bounded factors, for readings times millivolts               *)
LEMMA ProductBound ==
    ASSUME NEW a \in Nat, NEW b \in Nat, NEW m \in Nat, NEW n \in Nat, a <= m, b <= n
    PROVE  a * b \in Nat /\ a * b <= m * n
  <1>1. a * b <= m * b /\ m * b <= m * n
    OBVIOUS
  <1> QED BY <1>1

LEMMA VccInt == ASSUME NEW r \in AdcValues PROVE VccOf(r) \in Int
  BY Adc, DivInt DEF VccOf

(* The supply computed from a reference of 894 to 1589 is 3.1 to 5.5 V,     *)
LEMMA VccRange ==
    ASSUME NEW r \in Int, 894 <= r, r <= 1589
    PROVE  VccOf(r) \in Nat /\ 3093 <= VccOf(r) /\ VccOf(r) <= 5500
  <1> DEFINE q == 4915200 \div r
  <1>1. q \in Int /\ r * q <= 4915200 /\ 4915200 < r * q + r
    BY DivInt
  <1>2. VccOf(r) = q
    BY DEF VccOf
  <1> HIDE DEF q
  <1>3. ASSUME q <= 3092 PROVE FALSE
    <2>1. r * (q + 1) = r * q + r
      BY <1>1
    <2>2. r * (q + 1) <= r * 3093
      BY <1>1, <1>3
    <2>3. r * 3093 <= 4914777
      OBVIOUS
    <2> QED BY <1>1, <2>1, <2>2, <2>3
  <1>4. ASSUME q >= 5501 PROVE FALSE
    <2>1. r * q >= r * 5501
      BY <1>1, <1>4
    <2>2. r * 5501 >= 894 * 5501
      OBVIOUS
    <2> QED BY <1>1, <2>1, <2>2
  <1> QED BY <1>1, <1>2, <1>3, <1>4

LEMMA ConversionsInt ==
    ASSUME NEW r \in AdcValues, NEW v \in Nat
    PROVE  VbusOf(r, v) \in Int /\ CurrentOf(r, v) \in Int
  <1> DEFINE p == r * v
  <1>1. p \in Nat
    BY Adc
  <1>2. VbusOf(r, v) = (p * 11) \div 4096 /\ CurrentOf(r, v) = I16(((p \div 4096) * 10) \div 4)
    BY DEF VbusOf, CurrentOf
  <1> HIDE DEF p
  <1>3. (p * 11) \div 4096 \in Int /\ ((p \div 4096) * 10) \div 4 \in Int
    BY <1>1
  <1>4. \A n \in Int : I16(n) \in Int
    BY DEF I16, Word
  <1> QED BY <1>2, <1>3, <1>4

(* and with it no conversion to volts or amperes overflows.                 *)
LEMMA ConversionsRange ==
    ASSUME NEW r \in AdcValues, NEW v \in Nat, v <= 5500
    PROVE  U16(VbusOf(r, v)) /\ U16(CurrentOf(r, v))
  <1> DEFINE p == r * v
  <1>1. p \in Nat /\ p <= 4095 * 5500
    BY Adc, ProductBound
  <1>2. VbusOf(r, v) = (p * 11) \div 4096 /\ CurrentOf(r, v) = I16(((p \div 4096) * 10) \div 4)
    BY DEF VbusOf, CurrentOf
  <1> HIDE DEF p
  <1>3. U16((p * 11) \div 4096)
    BY <1>1, WordIs DEF U16
  <1> DEFINE c == ((p \div 4096) * 10) \div 4
  <1>4. c \in Nat /\ c <= 32767
    BY <1>1
  <1> HIDE DEF c
  <1>5. I16(c) = c
    BY <1>4 DEF I16, Word
  <1> QED BY <1>2, <1>3, <1>4, <1>5, WordIs DEF U16, c

LEMMA PowerNat ==
    ASSUME NEW mv \in Nat, NEW ma \in Nat
    PROVE  PowerOf(mv, ma) \in Nat
  <1> DEFINE n == mv * ma
  <1>1. n \in Nat
    OBVIOUS
  <1>2. PowerOf(mv, ma) = n \div 1000000
    BY SMT DEF PowerOf
  <1> HIDE DEF n
  <1> QED BY <1>1, <1>2, SMT

(* The tip amplifier never reads more than 9484 degrees above the board.    *)
LEMMA TipRange ==
    ASSUME NEW r \in AdcValues, NEW v \in Nat
    PROVE  TipOf(r, v) \in Nat /\ TipOf(r, v) <= 9484
  <1> DEFINE m == ((r * v) \div 4096) % Word  c == (m * 9485) \div Word
  <1>1. (r * v) \div 4096 \in Int
    <2>1. r * v \in Nat
      BY Adc
    <2> QED BY <2>1
  <1>2. m \in Nat /\ m <= 65535
    BY <1>1 DEF Word
  <1> HIDE DEF m
  <1>3. c \in Nat /\ c <= 9484
    BY <1>2 DEF Word
  <1>4. TipOf(r, v) = I16(c)
    BY DEF TipOf, m
  <1> HIDE DEF c
  <1>5. I16(c) = c
    BY <1>3 DEF I16, Word
  <1> QED BY <1>3, <1>4, <1>5

-----------------------------------------------------------------------------
(* The ranges of the state                                                  *)

Ranges ==
    /\ input \in Inputs
    /\ scanned \in 0..3 /\ seq = (IF scanned = 3 THEN 0 ELSE scanned) /\ dma = seq
    /\ adc_buffer \in [0..3 -> AdcValues] /\ injection_results \in [0..1 -> AdcValues]
    /\ U16(vcc_mv) /\ U16(vbus_mv) /\ U16(current_ma) /\ U16(tip_temp_c)
    /\ power \in Nat /\ Temp(temp_c)
    /\ every \in Nat \ {0} /\ wait \in 0..every
    /\ passes \in 0..Settle /\ updates \in 0..Settle /\ timeouts \in 0..MaxTimeouts

(* What the pins carry is within the range of the ADC.                      *)
LEMMA InputFields ==
    ASSUME NEW i \in Inputs
    PROVE  /\ i.vbus \in AdcValues /\ i.current \in AdcValues /\ i.ntc \in AdcValues
           /\ i.tip \in AdcValues /\ i.vref \in AdcValues /\ i.vref # 0
  BY InputsAssumption

(* The scan has the three channels, in this order, and the DMA as many      *)
(* transfers.                                                               *)
LEMMA Scan ==
    /\ Len(Channels) = 3 /\ Transfers = 3
    /\ Channels[1] = "vbus" /\ Channels[2] = "current" /\ Channels[3] = "ntc"
    /\ Injected[1] = "tip" /\ Injected[2] = "vref"
  BY DEF Channels, Injected, Transfers

(* Ranges holds initially, and each action keeps it.                        *)
LEMMA RangesInit == Init => Ranges
  <1> SUFFICES ASSUME Init PROVE Ranges
    OBVIOUS
  <1>1. 0 \in AdcValues /\ U16(0) /\ U16(3300) /\ Temp(0)
    BY Adc, WordIs DEF U16, Temp
  <1> QED BY <1>1, PaceAssumption DEF Init, Ranges

LEMMA ConvertRanges == Ranges /\ Convert => Ranges'
  <1> SUFFICES ASSUME Ranges, Convert PROVE Ranges'
    OBVIOUS
  <1> USE DEF Ranges
  <1>1. scanned \in 0..2 /\ seq = scanned /\ dma = scanned /\ scanned' = scanned + 1
    BY Scan DEF Convert
  <1>5. seq' = (scanned + 1) % 3 /\ dma' = (scanned + 1) % 3
    <2>1. seq' = (seq + 1) % Len(Channels) /\ dma' = (dma + 1) % Transfers
      BY DEF Convert
    <2> QED BY <1>1, <2>1, Scan
  <1>6. adc_buffer' = [adc_buffer EXCEPT ![scanned] = input[Channels[scanned + 1]]]
    BY <1>1 DEF Convert
  <1>2. /\ seq' = (IF scanned' = 3 THEN 0 ELSE scanned') /\ dma' = seq' /\ scanned' \in 0..3
    BY <1>1, <1>5
  <1>3. input[Channels[scanned + 1]] \in AdcValues
    BY <1>1, Scan, InputFields
  <1>4. adc_buffer' \in [0..3 -> AdcValues]
    BY <1>1, <1>3, <1>6
  <1> QED BY <1>2, <1>4 DEF Convert, readings, tipVars

LEMMA PowerRanges == Ranges /\ UpdatePower => Ranges'
  <1> SUFFICES ASSUME Ranges, UpdatePower PROVE Ranges'
    OBVIOUS
  <1> USE DEF Ranges
  <1>1. adc_buffer[0] \in AdcValues /\ adc_buffer[1] \in AdcValues /\ adc_buffer[2] \in AdcValues
    OBVIOUS
  <1>2. vcc_mv \in Nat /\ vbus_mv \in Nat /\ current_ma \in Nat
    BY DEF U16
  <1>3. U16(vbus_mv') /\ U16(current_ma')
    <2>1. VbusOf(adc_buffer[0], vcc_mv) \in Int /\ CurrentOf(adc_buffer[1], vcc_mv) \in Int
      BY <1>1, <1>2, ConversionsInt
    <2>2. /\ vbus_mv' = U16Ema(vbus_mv, VbusOf(adc_buffer[0], vcc_mv))
          /\ current_ma' = U16Ema(current_ma, CurrentOf(adc_buffer[1], vcc_mv))
      BY DEF UpdatePower
    <2> QED BY <1>2, <2>1, <2>2, EmaRange
  <1>4. Temp(temp_c')
    BY <1>1, NtcInTable, AverageI16 DEF UpdatePower
  <1>5. power' \in Nat
    BY <1>3, PowerNat DEF UpdatePower, U16
  <1>6. wait' \in 0..every'
    BY DEF UpdatePower
  <1>8. scanned' \in 0..3 /\ seq' = (IF scanned' = 3 THEN 0 ELSE scanned') /\ dma' = seq'
    <2>1. scanned = 3 /\ scanned' = 0 /\ seq' = seq /\ dma' = dma
      BY Scan DEF UpdatePower
    <2> QED BY <2>1
  <1>7. passes' \in 0..Settle
    BY PaceAssumption DEF UpdatePower
  <1> QED BY <1>3, <1>4, <1>5, <1>6, <1>7, <1>8 DEF UpdatePower, tipVars

LEMMA TipRanges == Ranges /\ UpdateTip => Ranges'
  <1> SUFFICES ASSUME Ranges, UpdateTip PROVE Ranges'
    OBVIOUS
  <1> USE DEF Ranges
  <1>1. injection_results' \in [0..1 -> AdcValues]
    <2>1. CASE UNCHANGED injection_results
      BY <2>1
    <2>2. CASE injection_results' = [k \in 0..1 |-> input[Injected[k + 1]]]
      <3>1. \A k \in 0..1 : input[Injected[k + 1]] \in AdcValues
        BY Scan, InputFields
      <3> QED BY <2>2, <3>1
    <2> QED BY <2>1, <2>2 DEF UpdateTip, Inject
  <1>2. timeouts' \in 0..MaxTimeouts
    BY PaceAssumption DEF UpdateTip, Inject
  <1>3. VccOf(injection_results'[1]) \in Int
    BY <1>1, VccInt
  <1>4. U16(vcc_mv')
    BY <1>3, EmaRange DEF UpdateTip, U16
  <1>5. TipOf(injection_results'[0], vcc_mv') + temp_c \in Int
    BY <1>1, <1>4, TipRange DEF U16, Temp
  <1>6. U16(tip_temp_c')
    BY <1>5, EmaRange DEF UpdateTip, U16
  <1>7. updates' \in 0..Settle /\ wait' \in 0..every'
    BY PaceAssumption DEF UpdateTip
  <1> QED BY <1>1, <1>2, <1>4, <1>6, <1>7 DEF UpdateTip, adcVars, readings

LEMMA ChangeRanges == Ranges /\ Change => Ranges'
  <1> SUFFICES ASSUME Ranges, Change PROVE Ranges'
    OBVIOUS
  <1> QED BY PaceAssumption DEF Ranges, Change, adcVars, readings, tipVars

LEMMA RangesStep == Ranges /\ [Next]_vars => Ranges'
  <1> SUFFICES ASSUME Ranges, [Next]_vars PROVE Ranges'
    OBVIOUS
  <1>1. CASE UNCHANGED vars
    BY <1>1 DEF Ranges, vars, adcVars, readings, tipVars
  <1> QED BY <1>1, ConvertRanges, PowerRanges, TipRanges, ChangeRanges DEF Next

(* The thermistor never reads as warmer when it is colder (ntc.h:27), and   *)
(* the average of its readings does not leave the table.                    *)
THEOREM NtcAlwaysFalls == Spec => []NtcFalls
  <1>1. Ranges => NtcFalls
    BY TableAlwaysFalls DEF Ranges, NtcFalls, Temp
  <1> QED BY <1>1, RangesInit, RangesStep, PTL DEF Spec

-----------------------------------------------------------------------------
(* Settling                                                                 *)

(* The processor's supply is 3.1 to 5.5 V, around the 3.3 V that vcc_mv     *)
(* starts from (main.c:60).                                                 *)
SupplyOK == \A i \in Inputs : 894 <= i.vref /\ i.vref <= 1589

(* No board is below freezing: a tip and a board with a negative sum would  *)
(* be averaged as a large positive number.                                  *)
BoardWarm == \A i \in Inputs : NtcOf(i.ntc) >= 0

(* Whether the loop has made a pass since the last measurement of the tip   *)
Polled == IF wait < every THEN 1 ELSE 0

(* The updates after which the supply is Near, and after which the tip's    *)
(* target, which is computed from it, no longer moves                       *)
VccSettled == MaxTimeouts + 208
AllSettled == VccSettled + 2

(* The order of things: the buffer holds the new input as far as the scan   *)
(* has come since the first pass with it; the injected results do, unless   *)
(* all the conversions since have timed out; and a measurement of the tip   *)
(* finds at least one pass behind it.                                       *)
SchedInv ==
    /\ passes > 0 => \A k \in 0..2 : k < scanned => adc_buffer[k] = input[Channels[k + 1]]
    /\ \/ injection_results = [k \in 0..1 |-> input[Injected[k + 1]]]
       \/ updates <= timeouts
    /\ passes = 0 => updates = 0 \/ (updates = 1 /\ wait = every)

LEMMA SchedInit == Init => SchedInv
  BY DEF Init, SchedInv

LEMMA SchedStep == Ranges /\ SchedInv /\ [Next]_vars => SchedInv'
  <1> SUFFICES ASSUME Ranges, SchedInv, [Next]_vars PROVE SchedInv'
    OBVIOUS
  <1>1. CASE Convert
    <2>1. scanned \in 0..2 /\ dma = scanned /\ seq = scanned /\ scanned' = scanned + 1
      BY <1>1, Scan DEF Convert, Ranges
    <2>2. adc_buffer' = [adc_buffer EXCEPT ![scanned] = input[Channels[scanned + 1]]]
      BY <1>1, <2>1 DEF Convert
    <2>3. adc_buffer \in [0..3 -> AdcValues]
      BY DEF Ranges
    <2>4. ASSUME passes > 0, NEW k \in 0..2, k < scanned'
          PROVE  adc_buffer'[k] = input[Channels[k + 1]]
      BY <2>1, <2>2, <2>3, <2>4 DEF SchedInv
    <2> QED BY <1>1, <2>4 DEF Convert, SchedInv, tipVars
  <1>2. CASE UpdatePower
    <2>1. scanned' = 0 /\ UNCHANGED <<injection_results, updates, timeouts, input>>
      BY <1>2 DEF UpdatePower, tipVars
    <2>2. passes' = 0 => updates' = 0
      BY <1>2, PaceAssumption DEF UpdatePower, Ranges
    <2> QED BY <2>1, <2>2 DEF SchedInv
  <1>3. CASE UpdateTip
    <2>1. UNCHANGED <<passes, scanned, adc_buffer, input, every>>
      BY <1>3 DEF UpdateTip, adcVars
    <2>2. \/ injection_results' = [k \in 0..1 |-> input[Injected[k + 1]]]
          \/ timeouts' = timeouts + 1 /\ UNCHANGED injection_results
      BY <1>3 DEF UpdateTip, Inject
    <2>3. updates' \in {updates, updates + 1} /\ updates' <= updates + 1
      BY <1>3 DEF UpdateTip, Ranges
    <2>4. wait = 0 /\ wait' = every /\ every # 0
      BY <1>3 DEF UpdateTip, Ranges
    <2>5. passes = 0 => updates = 0
      BY <2>4 DEF SchedInv, Ranges
    <2>6. updates \in Nat /\ timeouts \in Nat
      BY DEF Ranges
    <2>7. \/ injection_results' = [k \in 0..1 |-> input[Injected[k + 1]]]
          \/ updates' <= timeouts'
      BY <2>2, <2>3, <2>6 DEF SchedInv
    <2> QED BY <2>1, <2>3, <2>4, <2>5, <2>6, <2>7 DEF SchedInv
  <1>4. CASE Change
    <2>1. passes' = 0 /\ updates' = 0 /\ timeouts' = timeouts
      BY <1>4 DEF Change, tipVars
    <2> QED BY <2>1 DEF SchedInv, Ranges
  <1>5. CASE UNCHANGED vars
    BY <1>5 DEF vars, SchedInv, adcVars, tipVars
  <1> QED BY <1>1, <1>2, <1>3, <1>4, <1>5 DEF Next

(* What the last pass has read                                              *)
LEMMA PassReads ==
    Ranges /\ SchedInv /\ UpdatePower /\ passes > 0 =>
      /\ adc_buffer[0] = input.vbus /\ adc_buffer[1] = input.current
      /\ adc_buffer[2] = input.ntc
  <1> SUFFICES ASSUME Ranges, SchedInv, UpdatePower, passes > 0
               PROVE  /\ adc_buffer[0] = input.vbus /\ adc_buffer[1] = input.current
                      /\ adc_buffer[2] = input.ntc
    OBVIOUS
  <1>1. scanned = 3
    BY Scan DEF UpdatePower
  <1>2. \A k \in 0..2 : adc_buffer[k] = input[Channels[k + 1]]
    BY <1>1 DEF SchedInv
  <1> QED BY <1>2, Scan

(* The board never reads below freezing.                                    *)
Warm == temp_c >= 0 /\ NtcOf(adc_buffer[2]) >= 0

(* Each average with the updates it has had since its target stopped        *)
(* moving: the supply after the time-outs, the board's temperature after    *)
(* the pass that may have read half of the old input, voltage and current   *)
(* once the supply is Near, the tip last of all.                            *)
VccNear == updates >= MaxTimeouts =>
    Within(vcc_mv, VccOf(input.vref), updates - MaxTimeouts)
TempNear == updates >= 2 =>
    Within(temp_c, NtcOf(input.ntc), (updates - 2) + Polled)
PowerNear == updates >= VccSettled =>
    /\ Within(vbus_mv, VbusOf(input.vbus, vcc_mv), (updates - VccSettled) + Polled)
    /\ Within(current_ma, CurrentOf(input.current, vcc_mv), (updates - VccSettled) + Polled)
TipNear == updates >= AllSettled =>
    Within(tip_temp_c, TipOf(input.tip, vcc_mv) + temp_c, updates - AllSettled)

SettleInv == VccNear /\ TempNear /\ PowerNear /\ TipNear

(* One update brings an average nearer, and never farther away.             *)
LEMMA EmaNearer ==
    ASSUME NEW x, U16(x), NEW s, U16(s), NEW k \in Nat, Within(x, s, k)
    PROVE  Within(U16Ema(x, s), s, k + 1) /\ Within(U16Ema(x, s), s, k)
  <1>1. U16Ema(x, s) = (15 * x + s) \div 16 /\ U16(U16Ema(x, s))
    BY AverageU16
  <1>2. Within(U16Ema(x, s), s, k + 1)
    BY <1>1, WithinStep DEF U16
  <1> QED BY <1>1, <1>2, WithinLess DEF U16

LEMMA EmaNearerTemp ==
    ASSUME NEW x, Temp(x), NEW s, Temp(s), NEW k \in Nat, Within(x, s, k)
    PROVE  Within(I16Ema(x, s), s, k + 1) /\ Within(I16Ema(x, s), s, k)
  <1>1. I16Ema(x, s) = (15 * x + s) \div 16 /\ Temp(I16Ema(x, s))
    BY AverageI16
  <1>2. Within(I16Ema(x, s), s, k + 1)
    BY <1>1, WithinStep DEF Temp
  <1> QED BY <1>1, <1>2, WithinLess DEF Temp

LEMMA EmaStays ==
    ASSUME NEW x, U16(x), NEW s, U16(s), Near(x, s)
    PROVE  U16Ema(x, s) = x
  BY AverageU16, NearStays DEF U16

LEMMA EmaStaysTemp ==
    ASSUME NEW x, Temp(x), NEW s, Temp(s), Near(x, s)
    PROVE  I16Ema(x, s) = x
  <1>1. I16Ema(x, s) = (15 * x + s) \div 16
    BY AverageI16
  <1>2. x \in Int /\ s \in Int
    BY DEF Temp
  <1> QED BY <1>1, <1>2, NearStays

LEMMA StartU16 ==
    ASSUME NEW x, U16(x), NEW s, U16(s)
    PROVE  Within(x, s, 0)
  BY WithinStart, WordIs DEF U16

LEMMA StartTemp ==
    ASSUME NEW x, Temp(x), NEW s, Temp(s)
    PROVE  Within(x, s, 0)
  BY WithinStart, WordIs DEF Temp

LEMMA WarmInit == ASSUME BoardWarm PROVE Init => Warm
  <1>1. NtcOf(0) >= 0
    BY TableAlwaysFalls
  <1> QED BY <1>1 DEF Init, Warm

LEMMA WarmStep == ASSUME BoardWarm PROVE Ranges /\ Warm /\ [Next]_vars => Warm'
  <1> SUFFICES ASSUME Ranges, Warm, [Next]_vars PROVE Warm'
    OBVIOUS
  <1>1. CASE Convert
    <2>1. scanned \in 0..2 /\ dma = scanned /\ seq = scanned
      BY <1>1, Scan DEF Convert, Ranges
    <2>2. adc_buffer' = [adc_buffer EXCEPT ![scanned] = input[Channels[scanned + 1]]]
      BY <1>1, <2>1 DEF Convert
    <2>3. adc_buffer'[2] = adc_buffer[2] \/ adc_buffer'[2] = input.ntc
      BY <2>1, <2>2, Scan DEF Ranges
    <2>4. NtcOf(input.ntc) >= 0
      BY DEF BoardWarm, Ranges
    <2> QED BY <1>1, <2>3, <2>4 DEF Convert, Warm, readings
  <1>2. CASE UpdatePower
    <2>1. adc_buffer[2] \in AdcValues
      BY DEF Ranges
    <2>2. Temp(NtcOf(adc_buffer[2])) /\ Temp(temp_c)
      BY <2>1, NtcInTable DEF Ranges
    <2>3. temp_c' = (15 * temp_c + NtcOf(adc_buffer[2])) \div 16
      BY <1>2, <2>2, AverageI16 DEF UpdatePower
    <2>4. temp_c' >= 0
      BY <2>2, <2>3 DEF Warm, Temp
    <2> QED BY <1>2, <2>4 DEF UpdatePower, Warm
  <1>3. CASE UpdateTip \/ Change \/ UNCHANGED vars
    BY <1>3 DEF UpdateTip, Change, vars, Warm, adcVars, readings
  <1> QED BY <1>1, <1>2, <1>3 DEF Next

(* With a supply in range, every conversion is a 16-bit number.             *)
LEMMA Targets ==
    ASSUME SupplyOK, Ranges
    PROVE  /\ U16(VccOf(input.vref)) /\ VccOf(input.vref) <= 5500
           /\ Temp(NtcOf(input.ntc))
  <1>1. input \in Inputs /\ input.vref \in AdcValues /\ input.ntc \in AdcValues
    BY InputFields DEF Ranges
  <1>2. VccOf(input.vref) \in Nat /\ VccOf(input.vref) <= 5500
    BY <1>1, VccRange, Adc DEF SupplyOK
  <1> QED BY <1>1, <1>2, NtcInTable, WordIs DEF U16

LEMMA VccInReach ==
    ASSUME SupplyOK, NEW i \in Inputs, NEW v, U16(v), NEW u \in Nat, u >= VccSettled,
           Within(v, VccOf(i.vref), u - MaxTimeouts)
    PROVE  Near(v, VccOf(i.vref)) /\ v \in Nat /\ v <= 5500
  <1>1. u - MaxTimeouts \in Nat /\ u - MaxTimeouts >= 208
    BY PaceAssumption DEF VccSettled
  <1>2. i.vref \in AdcValues
    BY InputFields
  <1>3. VccOf(i.vref) \in Nat /\ VccOf(i.vref) <= 5500
    BY <1>2, VccRange, Adc DEF SupplyOK
  <1>4. Near(v, VccOf(i.vref))
    BY <1>1, <1>3, WithinEnd DEF U16
  <1> QED BY <1>3, <1>4 DEF Near, U16

LEMMA SettledVcc ==
    ASSUME SupplyOK, Ranges, VccNear, updates >= VccSettled
    PROVE  Near(vcc_mv, VccOf(input.vref)) /\ vcc_mv \in Nat /\ vcc_mv <= 5500
  <1>1. updates >= MaxTimeouts /\ updates \in Nat
    BY PaceAssumption DEF Ranges, VccSettled
  <1>2. Within(vcc_mv, VccOf(input.vref), updates - MaxTimeouts)
    BY <1>1 DEF VccNear
  <1> QED BY <1>1, <1>2, VccInReach DEF Ranges

(* A pass keeps all of them; the supply is settled or the voltage and the   *)
(* current have no bound yet.                                               *)
LEMMA PowerSettleStep ==
    ASSUME SupplyOK, Ranges, SchedInv, SettleInv, UpdatePower
    PROVE  SettleInv'
  <1>1. /\ UNCHANGED <<input, vcc_mv, tip_temp_c, updates, every>>
        /\ wait \in Nat /\ wait' = wait - 1 /\ wait <= every /\ every \in Nat
        /\ updates \in Nat
    BY DEF UpdatePower, Ranges, tipVars
  <1>2. Polled \in {0, 1} /\ Polled' = 1
    BY <1>1 DEF Polled
  <1>3. VccNear'
    BY <1>1 DEF VccNear, SettleInv
  <1>4. ASSUME updates >= 2
        PROVE  /\ passes > 0 /\ temp_c' = I16Ema(temp_c, NtcOf(input.ntc))
               /\ vbus_mv' = U16Ema(vbus_mv, VbusOf(input.vbus, vcc_mv))
               /\ current_ma' = U16Ema(current_ma, CurrentOf(input.current, vcc_mv))
    <2>1. passes > 0
      BY <1>1, <1>4 DEF SchedInv, Ranges
    <2> QED BY <2>1, PassReads DEF UpdatePower
  <1>5. TempNear'
    <2> SUFFICES ASSUME updates >= 2
                 PROVE  Within(temp_c', NtcOf(input.ntc), (updates - 2) + 1)
      BY <1>1, <1>2 DEF TempNear
    <2> DEFINE k == (updates - 2) + Polled
    <2>1. k \in Nat /\ (k + 1 = (updates - 2) + 1 \/ k = (updates - 2) + 1)
      BY <1>1, <1>2
    <2>2. Within(temp_c, NtcOf(input.ntc), k)
      BY DEF SettleInv, TempNear
    <2> HIDE DEF k
    <2>3. Within(temp_c', NtcOf(input.ntc), k + 1) /\ Within(temp_c', NtcOf(input.ntc), k)
      BY <1>4, <2>1, <2>2, Targets, EmaNearerTemp DEF Ranges
    <2> QED BY <2>1, <2>3
  <1>6. PowerNear'
    <2> SUFFICES ASSUME updates >= VccSettled
                 PROVE  /\ Within(vbus_mv', VbusOf(input.vbus, vcc_mv), (updates - VccSettled) + 1)
                        /\ Within(current_ma', CurrentOf(input.current, vcc_mv), (updates - VccSettled) + 1)
      BY <1>1, <1>2 DEF PowerNear
    <2> DEFINE k == (updates - VccSettled) + Polled
    <2>1. /\ k \in Nat /\ (k + 1 = (updates - VccSettled) + 1 \/ k = (updates - VccSettled) + 1)
          /\ updates >= 2
      BY <1>1, <1>2, PaceAssumption DEF VccSettled
    <2>2. /\ Within(vbus_mv, VbusOf(input.vbus, vcc_mv), k)
          /\ Within(current_ma, CurrentOf(input.current, vcc_mv), k)
      BY DEF SettleInv, PowerNear
    <2>3. U16(VbusOf(input.vbus, vcc_mv)) /\ U16(CurrentOf(input.current, vcc_mv))
      BY SettledVcc, ConversionsRange, InputFields DEF SettleInv, Ranges
    <2> HIDE DEF k
    <2>4. /\ Within(vbus_mv', VbusOf(input.vbus, vcc_mv), k + 1)
          /\ Within(vbus_mv', VbusOf(input.vbus, vcc_mv), k)
      BY <1>4, <2>1, <2>2, <2>3, EmaNearer DEF Ranges
    <2>5. /\ Within(current_ma', CurrentOf(input.current, vcc_mv), k + 1)
          /\ Within(current_ma', CurrentOf(input.current, vcc_mv), k)
      BY <1>4, <2>1, <2>2, <2>3, EmaNearer DEF Ranges
    <2> QED BY <2>1, <2>4, <2>5
  <1>7. TipNear'
    <2> SUFFICES ASSUME updates >= AllSettled
                 PROVE  Within(tip_temp_c, TipOf(input.tip, vcc_mv) + temp_c', updates - AllSettled)
      BY <1>1 DEF TipNear
    <2> DEFINE k == (updates - 2) + Polled
    <2>1. k \in Nat /\ k >= 208 /\ updates >= 2
      BY <1>1, <1>2, PaceAssumption DEF AllSettled, VccSettled
    <2>2. Within(temp_c, NtcOf(input.ntc), k)
      BY <2>1 DEF SettleInv, TempNear
    <2> HIDE DEF k
    <2>3. Near(temp_c, NtcOf(input.ntc))
      BY <2>1, <2>2, Targets, WithinEnd DEF Ranges, Temp
    <2>4. temp_c' = temp_c
      BY <1>4, <2>1, <2>3, Targets, EmaStaysTemp DEF Ranges
    <2> QED BY <2>4 DEF SettleInv, TipNear
  <1> QED BY <1>3, <1>5, <1>6, <1>7 DEF SettleInv

(* A measurement of the tip moves the supply, which moves the targets of    *)
(* the voltage and the current until it is settled.                         *)
LEMMA TipSettleStep ==
    ASSUME SupplyOK, Ranges, SchedInv', Ranges', Warm, SettleInv, UpdateTip
    PROVE  SettleInv'
  <1>1. /\ UNCHANGED <<input, vbus_mv, current_ma, temp_c, every, adc_buffer>>
        /\ wait = 0 /\ wait' = every /\ every \in Nat \ {0} /\ updates \in Nat
        /\ MaxTimeouts \in Nat /\ timeouts' <= MaxTimeouts /\ timeouts' \in Nat
    BY PaceAssumption DEF UpdateTip, Ranges, adcVars, readings
  <1>2. updates' = updates + 1 \/ updates' = updates
    BY DEF UpdateTip
  <1>3. Polled = 1 /\ Polled' = 0
    BY <1>1 DEF Polled
  <1>4. /\ vcc_mv' = U16Ema(vcc_mv, VccOf(injection_results'[1]))
        /\ tip_temp_c' = U16Ema(tip_temp_c, TipOf(injection_results'[0], vcc_mv') + temp_c)
    BY DEF UpdateTip
  <1>5. ASSUME updates' > MaxTimeouts
        PROVE  injection_results'[0] = input.tip /\ injection_results'[1] = input.vref
    <2>1. injection_results' = [k \in 0..1 |-> input[Injected[k + 1]]]
      BY <1>1, <1>2, <1>5 DEF SchedInv
    <2> QED BY <2>1, Scan
  <1>6. ASSUME updates >= VccSettled PROVE vcc_mv' = vcc_mv
    <2>1. updates' > MaxTimeouts
      BY <1>1, <1>2, <1>6 DEF VccSettled
    <2>2. vcc_mv' = U16Ema(vcc_mv, VccOf(input.vref))
      BY <1>4, <1>5, <2>1
    <2> QED BY <1>6, <2>2, SettledVcc, Targets, EmaStays DEF SettleInv, Ranges
  <1>7. VccNear'
    <2> SUFFICES ASSUME updates' >= MaxTimeouts
                 PROVE  Within(vcc_mv', VccOf(input.vref), updates' - MaxTimeouts)
      BY <1>1 DEF VccNear
    <2>1. CASE updates' = MaxTimeouts
      BY <1>1, <2>1, StartU16, Targets DEF Ranges
    <2>2. CASE updates' > MaxTimeouts
      <3> DEFINE k == updates - MaxTimeouts
      <3>1. /\ k \in Nat /\ updates >= MaxTimeouts
            /\ updates' - MaxTimeouts = k + 1 \/ updates' - MaxTimeouts = k
        BY <1>1, <1>2, <2>2
      <3>2. Within(vcc_mv, VccOf(input.vref), k)
        BY <3>1 DEF SettleInv, VccNear
      <3>3. vcc_mv' = U16Ema(vcc_mv, VccOf(input.vref))
        BY <1>4, <1>5, <2>2
      <3> HIDE DEF k
      <3>4. /\ Within(vcc_mv', VccOf(input.vref), k + 1)
            /\ Within(vcc_mv', VccOf(input.vref), k)
        BY <3>1, <3>2, <3>3, EmaNearer, Targets DEF Ranges
      <3> QED BY <3>1, <3>4
    <2> QED BY <1>1, <1>2, <2>1, <2>2
  <1>8. TempNear'
    <2> SUFFICES ASSUME updates' >= 2
                 PROVE  Within(temp_c, NtcOf(input.ntc), (updates' - 2) + 0)
      BY <1>1, <1>3 DEF TempNear
    <2>1. CASE updates' = 2
      BY <2>1, StartTemp, Targets DEF Ranges
    <2>2. CASE updates' > 2
      <3> DEFINE k == updates' - 2
      <3>1. k \in Nat /\ updates >= 2 /\ ((updates - 2) + 1 = k \/ (updates - 2) + 1 = k + 1) /\ (updates' - 2) + 0 = k
        BY <1>1, <1>2, <2>2
      <3>2. Within(temp_c, NtcOf(input.ntc), (updates - 2) + 1)
        BY <1>3, <3>1 DEF SettleInv, TempNear
      <3> HIDE DEF k
      <3>3. Within(temp_c, NtcOf(input.ntc), k)
        <4>1. temp_c \in Int /\ NtcOf(input.ntc) \in Int
          BY Targets DEF Ranges, Temp
        <4> QED BY <3>1, <3>2, <4>1, WithinLess
      <3> QED BY <3>1, <3>3
    <2> QED BY <1>1, <1>2, <2>1, <2>2
  <1>9. PowerNear'
    <2> DEFINE tv == VbusOf(input.vbus, vcc_mv')  tc == CurrentOf(input.current, vcc_mv')
    <2> SUFFICES ASSUME updates' >= VccSettled
                 PROVE  /\ Within(vbus_mv, tv, (updates' - VccSettled) + 0)
                        /\ Within(current_ma, tc, (updates' - VccSettled) + 0)
      BY <1>1, <1>3 DEF PowerNear
    <2>1. U16(tv) /\ U16(tc)
      <3>1. updates' >= MaxTimeouts /\ updates' \in Nat /\ U16(vcc_mv') /\ input \in Inputs
        BY <1>1, <1>2 DEF VccSettled, Ranges
      <3>2. Within(vcc_mv', VccOf(input.vref), updates' - MaxTimeouts)
        BY <1>1, <1>7, <3>1 DEF VccNear
      <3>3. vcc_mv' \in Nat /\ vcc_mv' <= 5500
        BY <3>1, <3>2, VccInReach
      <3>4. input.vbus \in AdcValues /\ input.current \in AdcValues
        BY <3>1, InputFields
      <3> QED BY <3>3, <3>4, ConversionsRange
    <2>2. U16(vbus_mv) /\ U16(current_ma)
      BY DEF Ranges
    <2> HIDE DEF tv, tc
    <2>3. CASE updates' = VccSettled
      <3>1. (updates' - VccSettled) + 0 = 0
        BY <1>1, <2>3 DEF VccSettled
      <3> QED BY <2>1, <2>2, <3>1, StartU16
    <2>4. CASE updates' > VccSettled
      <3> DEFINE k == updates' - VccSettled
      <3>1. /\ k \in Nat /\ updates >= VccSettled /\ (updates' - VccSettled) + 0 = k
            /\ (updates - VccSettled) + 1 = k \/ (updates - VccSettled) + 1 = k + 1
        BY <1>1, <1>2, <2>4 DEF VccSettled
      <3>2. /\ Within(vbus_mv, tv, (updates - VccSettled) + 1)
            /\ Within(current_ma, tc, (updates - VccSettled) + 1)
        BY <1>3, <1>6, <3>1 DEF SettleInv, PowerNear, tv, tc
      <3> HIDE DEF k
      <3>3. Within(vbus_mv, tv, k) /\ Within(current_ma, tc, k)
        BY <2>1, <2>2, <3>1, <3>2, WithinLess DEF U16
      <3> QED BY <3>1, <3>3
    <2> QED BY <1>1, <1>2, <2>3, <2>4 DEF VccSettled
  <1>10. TipNear'
    <2> DEFINE t == TipOf(input.tip, vcc_mv') + temp_c
    <2> SUFFICES ASSUME updates' >= AllSettled
                 PROVE  Within(tip_temp_c', t, updates' - AllSettled)
      BY <1>1 DEF TipNear
    <2>1. U16(t) /\ U16(tip_temp_c) /\ U16(tip_temp_c')
      <3>1. input.tip \in AdcValues /\ vcc_mv' \in Nat
        BY <1>1, InputFields DEF Ranges, U16
      <3>2. TipOf(input.tip, vcc_mv') \in Nat /\ TipOf(input.tip, vcc_mv') <= 9484
        BY <3>1, TipRange
      <3>3. temp_c \in Nat /\ temp_c <= 1316
        BY DEF Warm, Ranges, Temp
      <3>4. t \in Nat /\ t <= 10800
        BY <3>2, <3>3
      <3> HIDE DEF t
      <3> QED BY <3>4, WordIs DEF U16, Ranges
    <2>2. tip_temp_c' = U16Ema(tip_temp_c, t)
      <3>1. updates' > MaxTimeouts
        BY <1>1, <1>2 DEF AllSettled, VccSettled
      <3> QED BY <1>4, <1>5, <3>1
    <2>3. CASE updates' = AllSettled
      <3>1. updates' - AllSettled = 0
        BY <1>1, <2>3 DEF VccSettled, AllSettled
      <3> HIDE DEF t
      <3> QED BY <2>1, <3>1, StartU16
    <2>4. CASE updates' > AllSettled
      <3> DEFINE k == updates - AllSettled
      <3>1. /\ k \in Nat /\ updates >= AllSettled /\ updates >= VccSettled
            /\ updates' - AllSettled = k \/ updates' - AllSettled = k + 1
        BY <1>1, <1>2, <2>4 DEF VccSettled, AllSettled
      <3>2. Within(tip_temp_c, t, k)
        BY <1>6, <3>1 DEF SettleInv, TipNear
      <3> HIDE DEF k, t
      <3>3. Within(tip_temp_c', t, k + 1) /\ Within(tip_temp_c', t, k)
        BY <2>1, <2>2, <3>1, <3>2, EmaNearer
      <3> QED BY <3>1, <3>3
    <2> QED BY <1>1, <1>2, <2>3, <2>4 DEF VccSettled, AllSettled
  <1> QED BY <1>7, <1>8, <1>9, <1>10 DEF SettleInv

LEMMA SettleInit == ASSUME SupplyOK PROVE Init => SettleInv
  <1> SUFFICES ASSUME Init PROVE SettleInv
    OBVIOUS
  <1>1. Ranges
    BY RangesInit
  <1>2. Within(vcc_mv, VccOf(input.vref), 0)
    BY <1>1, StartU16, Targets DEF Ranges
  <1>3. updates = 0
    BY DEF Init
  <1>4. MaxTimeouts \in Nat
    BY PaceAssumption
  <1>5. VccNear
    <2>1. updates >= MaxTimeouts => updates - MaxTimeouts = 0
      BY <1>3, <1>4
    <2> QED BY <1>2, <2>1 DEF VccNear
  <1> QED BY <1>3, <1>4, <1>5
          DEF SettleInv, TempNear, PowerNear, TipNear, VccSettled, AllSettled

LEMMA ChangeSettleStep ==
    ASSUME SupplyOK, Ranges', Change
    PROVE  SettleInv'
  <1>1. updates' = 0 /\ input' \in Inputs /\ U16(vcc_mv') /\ MaxTimeouts \in Nat
    BY PaceAssumption DEF Change, Ranges
  <1>2. U16(VccOf(input'.vref))
    BY <1>1, InputFields, VccRange, Adc, WordIs DEF SupplyOK, U16
  <1>3. Within(vcc_mv', VccOf(input'.vref), 0)
    BY <1>1, <1>2, StartU16
  <1>4. VccNear'
    <2>1. updates' >= MaxTimeouts => updates' - MaxTimeouts = 0
      BY <1>1
    <2> QED BY <1>3, <2>1 DEF VccNear
  <1> QED BY <1>1, <1>4
          DEF SettleInv, TempNear, PowerNear, TipNear, VccSettled, AllSettled

LEMMA SettleStep ==
    ASSUME SupplyOK
    PROVE  /\ Ranges /\ Ranges' /\ SchedInv /\ SchedInv' /\ Warm /\ SettleInv /\ [Next]_vars
           => SettleInv'
  <1> SUFFICES ASSUME Ranges, Ranges', SchedInv, SchedInv', Warm, SettleInv, [Next]_vars
               PROVE  SettleInv'
    OBVIOUS
  <1>1. CASE Convert \/ UNCHANGED vars
    <2>1. UNCHANGED <<input, vcc_mv, vbus_mv, current_ma, temp_c, tip_temp_c, updates, wait, every>>
      BY <1>1 DEF Convert, vars, readings, tipVars
    <2> QED BY <2>1 DEF SettleInv, VccNear, TempNear, PowerNear, TipNear, Polled
  <1>2. CASE UpdatePower
    BY <1>2, PowerSettleStep
  <1>3. CASE UpdateTip
    BY <1>3, TipSettleStep
  <1>4. CASE Change
    BY <1>4, ChangeSettleStep
  <1> QED BY <1>1, <1>2, <1>3, <1>4 DEF Next

(* 208 updates after the last of the targets stopped, all the averages are  *)
(* Near.                                                                    *)
LEMMA SettledMeans ==
    ASSUME SupplyOK, Settle >= MaxTimeouts + 418
    PROVE  Ranges /\ Warm /\ SettleInv => AveragesSettle
  <1> SUFFICES ASSUME Ranges, Warm, SettleInv, updates = Settle
               PROVE  /\ Near(vcc_mv, VccOf(input.vref))
                      /\ Near(vbus_mv, VbusOf(input.vbus, vcc_mv))
                      /\ Near(current_ma, CurrentOf(input.current, vcc_mv))
                      /\ Near(temp_c, NtcOf(input.ntc))
                      /\ Near(tip_temp_c, TipOf(input.tip, vcc_mv) + temp_c)
    BY DEF AveragesSettle
  <1>1. MaxTimeouts \in Nat /\ updates \in Nat /\ updates >= MaxTimeouts + 418
    BY PaceAssumption DEF Ranges
  <1>2. Polled \in {0, 1}
    BY DEF Polled
  <1>3. Near(vcc_mv, VccOf(input.vref)) /\ vcc_mv \in Nat /\ vcc_mv <= 5500
    BY <1>1, SettledVcc DEF VccSettled, SettleInv
  <1>4. U16(VbusOf(input.vbus, vcc_mv)) /\ U16(CurrentOf(input.current, vcc_mv))
    BY <1>3, ConversionsRange, InputFields DEF Ranges
  <1>5. Near(vbus_mv, VbusOf(input.vbus, vcc_mv)) /\ Near(current_ma, CurrentOf(input.current, vcc_mv))
    <2> DEFINE k == (updates - VccSettled) + Polled
    <2>1. k \in Nat /\ k >= 208 /\ updates >= VccSettled
      BY <1>1, <1>2 DEF VccSettled
    <2>2. /\ Within(vbus_mv, VbusOf(input.vbus, vcc_mv), k)
          /\ Within(current_ma, CurrentOf(input.current, vcc_mv), k)
      BY <2>1 DEF SettleInv, PowerNear
    <2> HIDE DEF k
    <2> QED BY <1>4, <2>1, <2>2, WithinEnd DEF Ranges, U16
  <1>6. Near(temp_c, NtcOf(input.ntc))
    <2> DEFINE k == (updates - 2) + Polled
    <2>1. k \in Nat /\ k >= 208 /\ updates >= 2
      BY <1>1, <1>2
    <2>2. Within(temp_c, NtcOf(input.ntc), k)
      BY <2>1 DEF SettleInv, TempNear
    <2> HIDE DEF k
    <2> QED BY <2>1, <2>2, WithinEnd, Targets DEF Ranges, Temp
  <1>7. Near(tip_temp_c, TipOf(input.tip, vcc_mv) + temp_c)
    <2> DEFINE k == updates - AllSettled
    <2>1. k \in Nat /\ k >= 208 /\ updates >= AllSettled
      BY <1>1 DEF AllSettled, VccSettled
    <2>2. Within(tip_temp_c, TipOf(input.tip, vcc_mv) + temp_c, k)
      BY <2>1 DEF SettleInv, TipNear
    <2>5. input.tip \in AdcValues
      BY InputFields DEF Ranges
    <2>3. TipOf(input.tip, vcc_mv) \in Nat
      BY <1>3, <2>5, TipRange
    <2>4. temp_c \in Int /\ tip_temp_c \in Int
      BY DEF Ranges, Temp, U16
    <2> HIDE DEF k
    <2> QED BY <2>1, <2>2, <2>3, <2>4, WithinEnd
  <1> QED BY <1>3, <1>5, <1>6, <1>7

(* Whatever the averages held, whichever conversions time out and however   *)
(* the passes and the measurements of the tip are interleaved, MaxTimeouts  *)
(* + 418 updates of an input leave all five averages (main.c 482-512) at    *)
(* what the input is, up to the truncation. 208 of them settle the supply,  *)
(* two more the board's temperature behind it, 208 the rest.                *)
THEOREM AveragesAlwaysSettle ==
    ASSUME SupplyOK, BoardWarm, Settle >= MaxTimeouts + 418
    PROVE  Spec => []AveragesSettle
  <1> DEFINE IInv == Ranges /\ SchedInv /\ Warm /\ SettleInv
  <1>1. Init => IInv
    BY RangesInit, SchedInit, WarmInit, SettleInit
  <1>2. IInv /\ [Next]_vars => IInv'
    BY RangesStep, SchedStep, WarmStep, SettleStep
  <1>3. IInv => AveragesSettle
    BY SettledMeans
  <1> HIDE DEF IInv
  <1> QED BY <1>1, <1>2, <1>3, PTL DEF Spec

-----------------------------------------------------------------------------
(* Short circuits                                                           *)

(* What is left of the supply voltage if the first conversion timed out.    *)
Supplied ==
    /\ vcc_mv \in Nat /\ 3093 <= vcc_mv /\ vcc_mv <= 5500
    /\ \/ injection_results[1] = 0 /\ timeouts = 0 /\ vcc_mv = 3300
       \/ injection_results[1] = 0 /\ timeouts = 1
       \/ 894 <= injection_results[1] /\ injection_results[1] <= 1589

(* The least the average of a full-scale current can be after some passes,  *)
(* the first of which may still have read something else.                   *)
RiseTable == <<0, 483, 935, 1359, 1757, 2130, 2480, 2808, 3115, 3403, 3673, 3926,
               4163, 4385, 4594, 4790, 4973, 5145, 5306, 5457, 5599>>
Rise(p) == IF p = 0 THEN 0 ELSE IF p <= 20 THEN RiseTable[p] ELSE 5599

(* What has been at full scale for some passes is read as at least that.    *)
ShortInv == input.current = 4095 => current_ma >= Rise(passes)

(* The table is what the average does with 7730 mA, the full scale at 3.1   *)
(* V.                                                                       *)
LEMMA RiseStep ==
    ASSUME NEW p \in Nat, NEW x \in Nat, NEW t \in Nat, x >= Rise(p), t >= 7730
    PROVE  /\ Rise(p) \in Nat /\ Rise(0) = 0 /\ Rise(1) = 0
           /\ p >= 1 => (15 * x + t) \div 16 >= Rise(p + 1)
           /\ (15 * x + t) \div 16 >= Rise(p)
  <1>1. Rise(0) = 0 /\ Rise(1) = 0
    BY DEF Rise, RiseTable
  <1>2. \A q \in 1..20 : /\ RiseTable[q] \in Nat /\ RiseTable[q] <= 5457
                         /\ (15 * RiseTable[q] + 7730) \div 16 >= RiseTable[q]
                         /\ (15 * RiseTable[q] + 7730) \div 16 >= RiseTable[q + 1]
                         /\ q = 20 => RiseTable[q + 1] = 5599
    BY DEF RiseTable
  <1> DEFINE r == Rise(p)
  <1>3. /\ r \in Nat /\ (15 * r + 7730) \div 16 >= r
        /\ p >= 1 => (15 * r + 7730) \div 16 >= Rise(p + 1)
        /\ Rise(p + 1) \in Nat
    <2>1. CASE p = 0
      BY <1>1, <2>1
    <2>2. CASE p \in 1..20
      BY <1>2, <2>2 DEF Rise
    <2>3. CASE p > 20
      BY <2>3 DEF Rise
    <2> QED BY <2>1, <2>2, <2>3
  <1> HIDE DEF r
  <1>4. (15 * x + t) \div 16 >= (15 * r + 7730) \div 16
    BY <1>3 DEF r
  <1>5. (15 * x + t) \div 16 \in Int /\ (15 * r + 7730) \div 16 \in Int
    BY <1>3
  <1> QED BY <1>1, <1>3, <1>4, <1>5 DEF r

(* Full scale reads 7.7 A or more, and never overflows the int16_t.         *)
LEMMA FullScale ==
    ASSUME NEW v \in Nat, 3093 <= v, v <= 5500
    PROVE  CurrentOf(4095, v) \in Nat /\ CurrentOf(4095, v) >= 7730 /\ U16(CurrentOf(4095, v))
  <1>1. 4095 \in AdcValues
    BY Adc
  <1>2. U16(CurrentOf(4095, v))
    BY <1>1, ConversionsRange
  <1> DEFINE c == (((4095 * v) \div 4096) * 10) \div 4
  <1>3. c \in Nat /\ c >= 7730 /\ c <= 32767
    OBVIOUS
  <1>4. CurrentOf(4095, v) = I16(c)
    BY DEF CurrentOf
  <1> HIDE DEF c
  <1>5. I16(c) = c
    BY <1>3 DEF I16, Word
  <1> QED BY <1>2, <1>3, <1>4, <1>5

(* At most one conversion times out, and if it is the first the average of  *)
(* the supply takes in -1 once: 3093 mV.                                    *)
LEMMA SuppliedStep ==
    ASSUME SupplyOK, MaxTimeouts <= 1
    PROVE  Ranges /\ Supplied /\ [Next]_vars => Supplied'
  <1> SUFFICES ASSUME Ranges, Supplied, [Next]_vars PROVE Supplied'
    OBVIOUS
  <1>1. CASE UpdateTip
    <2> DEFINE r == injection_results[1]  s == injection_results'[1]
    <2>1. vcc_mv' = U16Ema(vcc_mv, VccOf(s)) /\ input \in Inputs /\ input.vref \in AdcValues
      BY <1>1, InputFields DEF UpdateTip, Ranges
    <2>2. \/ s = input.vref
          \/ s = r /\ timeouts = 0 /\ timeouts' = 1
      <3>1. CASE injection_results' = [k \in 0..1 |-> input[Injected[k + 1]]]
        BY <3>1, Scan
      <3>2. CASE UNCHANGED injection_results /\ timeouts < MaxTimeouts /\ timeouts' = timeouts + 1
        BY <3>2, PaceAssumption DEF Ranges
      <3>3. Inject
        BY <1>1 DEF UpdateTip
      <3> HIDE DEF r, s
      <3> QED BY <3>1, <3>2, <3>3 DEF Inject
    <2>3. CASE 894 <= s /\ s <= 1589
      <3>1. s \in Nat
        BY <2>1, <2>2, Adc DEF Ranges
      <3>2. VccOf(s) \in Nat /\ 3093 <= VccOf(s) /\ VccOf(s) <= 5500
        BY <2>3, <3>1, VccRange
      <3>3. U16(VccOf(s)) /\ U16(vcc_mv)
        BY <3>2, WordIs DEF U16, Ranges
      <3>4. vcc_mv' = (15 * vcc_mv + VccOf(s)) \div 16
        BY <2>1, <3>3, AverageU16
      <3>5. vcc_mv' \in Nat /\ 3093 <= vcc_mv' /\ vcc_mv' <= 5500
        BY <3>2, <3>4 DEF Supplied
      <3> QED BY <2>3, <3>5 DEF Supplied
    <2>4. CASE ~(894 <= s /\ s <= 1589)
      <3>1. s = r /\ r = 0 /\ timeouts' = 1 /\ vcc_mv = 3300
        BY <2>1, <2>2, <2>4 DEF SupplyOK, Supplied
      <3>2. VccOf(s) = -1
        BY <3>1 DEF VccOf
      <3>3. vcc_mv' = 3093
        BY <2>1, <3>1, <3>2 DEF U16Ema, Word
      <3> QED BY <3>1, <3>3 DEF Supplied
    <2> QED BY <2>3, <2>4
  <1>2. CASE Convert \/ UpdatePower \/ Change \/ UNCHANGED vars
    BY <1>2 DEF Convert, UpdatePower, Change, vars, Supplied, tipVars
  <1> QED BY <1>1, <1>2 DEF Next

LEMMA ShortStep ==
    Ranges /\ SchedInv /\ Supplied /\ ShortInv /\ [Next]_vars => ShortInv'
  <1> SUFFICES ASSUME Ranges, SchedInv, Supplied, ShortInv, [Next]_vars, input'.current = 4095
               PROVE  current_ma' >= Rise(passes')
    BY DEF ShortInv
  <1>1. CASE UpdatePower
    <2>1. input' = input /\ (passes' = passes + 1 \/ passes' = passes) /\ passes \in Nat
          /\ (passes = 0 => passes' \in {0, 1})
      BY <1>1 DEF UpdatePower, Ranges
    <2>2. CASE passes = 0
      <3>1. Rise(passes') = 0
        BY <2>1, <2>2 DEF Rise, RiseTable
      <3>2. current_ma' >= 0
        BY <1>1, RangesStep DEF Ranges, U16, Next
      <3> QED BY <3>1, <3>2
    <2>3. CASE passes > 0
      <3> DEFINE t == CurrentOf(4095, vcc_mv)
      <3>1. current_ma' = U16Ema(current_ma, t)
        BY <1>1, <2>1, <2>3, PassReads DEF UpdatePower
      <3>2. t \in Nat /\ t >= 7730 /\ U16(t)
        BY FullScale DEF Supplied
      <3> HIDE DEF t
      <3>3. current_ma' = (15 * current_ma + t) \div 16 /\ current_ma \in Nat
        BY <3>1, <3>2, AverageU16 DEF Ranges, U16
      <3>4. current_ma >= Rise(passes)
        BY <2>1 DEF ShortInv
      <3> QED BY <2>1, <2>3, <3>2, <3>3, <3>4, RiseStep
    <2> QED BY <2>1, <2>2, <2>3
  <1>2. CASE Change
    <2>1. passes' = 0 /\ current_ma' = current_ma /\ current_ma >= 0
      BY <1>2 DEF Change, readings, Ranges, U16
    <2> QED BY <2>1 DEF Rise
  <1>3. CASE Convert \/ UpdateTip \/ UNCHANGED vars
    <2>1. UNCHANGED <<input, current_ma, passes>>
      BY <1>3 DEF Convert, UpdateTip, vars, readings
    <2> QED BY <2>1 DEF ShortInv
  <1> QED BY <1>1, <1>2, <1>3 DEF Next

(* A short circuit is seen by the comparison of main.c 656 after 21 passes, *)
(* if the supply is 3.1 V or more, the negotiated current 5 A or less and   *)
(* no more than one injected conversion times out.                          *)
THEOREM ShortAlwaysSeen ==
    ASSUME SupplyOK, MaxTimeouts <= 1, MaxCurrent <= 5000
    PROVE  Spec => []ShortSeenInTime
  <1> DEFINE IInv == Ranges /\ SchedInv /\ Supplied /\ ShortInv
  <1>1. Init => IInv
    <2>1. Init => Supplied /\ ShortInv
      BY DEF Init, Supplied, ShortInv, Rise
    <2> QED BY <2>1, RangesInit, SchedInit
  <1>2. IInv /\ [Next]_vars => IInv'
    BY RangesStep, SchedStep, SuppliedStep, ShortStep
  <1>3. IInv => ShortSeenInTime
    <2> SUFFICES ASSUME IInv, input.current = 4095, passes >= 21
                 PROVE  current_ma > MaxCurrent + MaxCurrent \div 10
      BY DEF ShortSeenInTime, Over
    <2>1. current_ma >= 5599 /\ current_ma \in Nat
      BY DEF ShortInv, Rise, Ranges, U16
    <2>2. MaxCurrent + MaxCurrent \div 10 <= 5500 /\ MaxCurrent \in Nat
      BY LimitsAssumption
    <2> QED BY <2>1, <2>2
  <1> HIDE DEF IInv
  <1> QED BY <1>1, <1>2, <1>3, PTL DEF Spec

-----------------------------------------------------------------------------
(* The reach of the tip's reading                                           *)

(* What the average of the supply starts from and what it follows           *)
Supplies == {3300} \cup {VccOf(j.vref) : j \in Inputs}

(* What the tip's reading is made of: the buffer's board temperature and    *)
(* the injected reference are those of some input (or the reference is      *)
(* still 0), and the averages never exceed the greatest of what they        *)
(* averaged.                                                                *)
ReachInv ==
    /\ temp_c >= 0 /\ vcc_mv <= 5500
    /\ scanned = 3 => \E i \in Inputs : adc_buffer[2] = i.ntc
    /\ injection_results[1] = 0 \/ \E j \in Inputs : injection_results[1] = j.vref
    /\ \E i \in Inputs : temp_c <= NtcOf(i.ntc)
    /\ \E v \in Supplies : vcc_mv <= v
    /\ TipInReach

(* The tip's conversion grows with the reading and with the supply, and     *)
(* does not wrap.                                                           *)
LEMMA TipGrows ==
    ASSUME NEW r \in AdcValues, NEW u \in Nat, NEW v \in Nat, u <= v, v <= 5500
    PROVE  TipOf(r, u) <= TipOf(4095, v) /\ TipOf(4095, v) \in Nat /\ TipOf(r, u) \in Nat
  <1>1. r * u \in Nat /\ r * u <= 4095 * v
    BY Adc, ProductBound
  <1> DEFINE p == r * u  q == 4095 * v
  <1>2. q \in Nat /\ q <= 4095 * 5500 /\ p \in Nat /\ p <= q
    BY <1>1
  <1> HIDE DEF p, q
  <1>3. /\ p \div 4096 \in Nat /\ q \div 4096 \in Nat
        /\ p \div 4096 <= q \div 4096 /\ q \div 4096 < 5500
    BY <1>2
  <1>4. (p \div 4096) % Word = p \div 4096 /\ (q \div 4096) % Word = q \div 4096
    BY <1>3, ModWord, WordIs
  <1> DEFINE a == p \div 4096  b == q \div 4096
  <1> HIDE DEF a, b
  <1>5. /\ (a * 9485) \div Word \in Nat /\ (b * 9485) \div Word \in Nat
        /\ (a * 9485) \div Word <= (b * 9485) \div Word /\ (b * 9485) \div Word <= 32767
    BY <1>3 DEF Word, a, b
  <1>6. \A n \in Nat : n <= 32767 => I16(n) = n
    BY DEF I16, Word
  <1>7. TipOf(r, u) = I16((a * 9485) \div Word) /\ TipOf(4095, v) = I16((b * 9485) \div Word)
    BY <1>4 DEF TipOf, p, q, a, b
  <1> QED BY <1>5, <1>6, <1>7

(* Each of the supplies is a 16-bit number of at most 5.5 V.                *)
LEMMA SupplyBounds ==
    ASSUME SupplyOK, NEW v \in Supplies
    PROVE  v \in Nat /\ v <= 5500 /\ U16(v)
  <1>1. CASE v = 3300
    BY <1>1, WordIs DEF U16
  <1>2. ASSUME NEW j \in Inputs, v = VccOf(j.vref)
        PROVE  v \in Nat /\ v <= 5500
    BY <1>2, InputFields, Adc, VccRange DEF SupplyOK
  <1> QED BY <1>1, <1>2, WordIs DEF Supplies, U16

(* Of two bounds, one bounds what lies below either.                        *)
LEMMA AverageBelow ==
    ASSUME NEW x \in Int, NEW s \in Int, NEW m \in Int, NEW n \in Int, x <= m, s <= n
    PROVE  (15 * x + s) \div 16 <= m \/ (15 * x + s) \div 16 <= n
  OBVIOUS

LEMMA ReachInit ==
    ASSUME BoardWarm
    PROVE  Init => ReachInv
  <1> SUFFICES ASSUME Init PROVE ReachInv
    OBVIOUS
  <1>1. input \in Inputs /\ NtcOf(input.ntc) >= 0 /\ NtcOf(input.ntc) \in Int
    <2>1. input \in Inputs /\ input.ntc \in AdcValues
      BY InputFields DEF Init
    <2> QED BY <2>1, NtcInTable DEF BoardWarm, Temp
  <1>2. 3300 \in Supplies /\ TipOf(4095, 3300) \in Nat
    <2>1. 3300 \in Supplies
      BY DEF Supplies
    <2>2. 4095 \in AdcValues
      BY Adc
    <2> QED BY <2>1, <2>2, TipRange
  <1>3. temp_c = 0 /\ tip_temp_c = 0 /\ vcc_mv = 3300 /\ scanned = 0
        /\ injection_results[1] = 0
    BY DEF Init
  <1>4. tip_temp_c <= TipOf(4095, 3300) + NtcOf(input.ntc)
    BY <1>1, <1>2, <1>3
  <1>5. TipInReach
    BY <1>1, <1>2, <1>4 DEF TipInReach, Supplies
  <1> QED BY <1>1, <1>2, <1>3, <1>5 DEF ReachInv

(* TipInReach only depends on the tip's reading.                            *)
LEMMA ReachKept == TipInReach /\ tip_temp_c' = tip_temp_c => TipInReach'
  <1> DEFINE reach(t) == \E i \in Inputs, v \in {3300} \cup {VccOf(j.vref) : j \in Inputs} :
                           t <= TipOf(4095, v) + NtcOf(i.ntc)
  <1>1. TipInReach <=> reach(tip_temp_c)
    BY DEF TipInReach
  <1>2. TipInReach' <=> reach(tip_temp_c')
    BY DEF TipInReach
  <1> HIDE DEF reach
  <1> QED BY <1>1, <1>2

LEMMA ConvertReach ==
    Ranges /\ ReachInv /\ Convert => ReachInv'
  <1> SUFFICES ASSUME Ranges, ReachInv, Convert PROVE ReachInv'
    OBVIOUS
  <1>1. scanned \in 0..2 /\ dma = scanned /\ seq = scanned /\ scanned' = scanned + 1
    BY Scan DEF Convert, Ranges
  <1>2. adc_buffer' = [adc_buffer EXCEPT ![scanned] = input[Channels[scanned + 1]]]
    BY <1>1 DEF Convert
  <1>3. scanned' = 3 => adc_buffer'[2] = input.ntc
    BY <1>1, <1>2, Scan DEF Ranges
  <1>4. UNCHANGED <<temp_c, vcc_mv, injection_results, tip_temp_c>> /\ input \in Inputs
    BY DEF Convert, readings, tipVars, Ranges
  <1>5. TipInReach'
    BY <1>4, ReachKept DEF ReachInv
  <1>6. \E i \in Inputs : temp_c' <= NtcOf(i.ntc)
    BY <1>4 DEF ReachInv
  <1>7. \E v \in Supplies : vcc_mv' <= v
    BY <1>4 DEF ReachInv
  <1>8. injection_results'[1] = 0 \/ \E j \in Inputs : injection_results'[1] = j.vref
    BY <1>4 DEF ReachInv
  <1>9. temp_c' >= 0 /\ vcc_mv' <= 5500
    BY <1>4 DEF ReachInv
  <1> QED BY <1>3, <1>4, <1>5, <1>6, <1>7, <1>8, <1>9 DEF ReachInv

LEMMA PowerReach ==
    ASSUME BoardWarm
    PROVE  Ranges /\ ReachInv /\ UpdatePower => ReachInv'
  <1> SUFFICES ASSUME Ranges, ReachInv, UpdatePower PROVE ReachInv'
    OBVIOUS
  <1>1. scanned = 3 /\ scanned' = 0
        /\ UNCHANGED <<vcc_mv, injection_results, tip_temp_c>>
    BY Scan DEF UpdatePower, tipVars
  <1>2. PICK i \in Inputs : adc_buffer[2] = i.ntc
    BY <1>1 DEF ReachInv
  <1>3. PICK j \in Inputs : temp_c <= NtcOf(j.ntc)
    BY DEF ReachInv
  <1>4. i \in Inputs /\ j \in Inputs /\ i.ntc \in AdcValues /\ j.ntc \in AdcValues
    BY <1>2, <1>3, InputFields
  <1>5. Temp(NtcOf(i.ntc)) /\ Temp(NtcOf(j.ntc)) /\ NtcOf(i.ntc) >= 0
    BY <1>4, NtcInTable DEF BoardWarm
  <1>6. temp_c' = (15 * temp_c + NtcOf(i.ntc)) \div 16
    BY <1>2, <1>5, AverageI16 DEF UpdatePower, Ranges
  <1>7. temp_c \in Int /\ temp_c >= 0 /\ NtcOf(i.ntc) \in Int /\ NtcOf(j.ntc) \in Int
    BY <1>5 DEF Ranges, ReachInv, Temp
  <1>8. temp_c' >= 0
    BY <1>5, <1>6, <1>7
  <1>9. temp_c' <= NtcOf(j.ntc) \/ temp_c' <= NtcOf(i.ntc)
    BY <1>3, <1>6, <1>7, AverageBelow
  <1>10. TipInReach'
    BY <1>1, ReachKept DEF ReachInv
  <1>11. \E k \in Inputs : temp_c' <= NtcOf(k.ntc)
    BY <1>4, <1>9
  <1>12. \E v \in Supplies : vcc_mv' <= v
    BY <1>1 DEF ReachInv
  <1>13. injection_results'[1] = 0 \/ \E k \in Inputs : injection_results'[1] = k.vref
    BY <1>1 DEF ReachInv
  <1>14. vcc_mv' <= 5500
    BY <1>1 DEF ReachInv
  <1> QED BY <1>1, <1>8, <1>10, <1>11, <1>12, <1>13, <1>14 DEF ReachInv

LEMMA TipReach ==
    ASSUME SupplyOK, MaxTimeouts <= 1
    PROVE  Ranges /\ Supplied /\ Supplied' /\ Ranges' /\ ReachInv /\ UpdateTip => ReachInv'
  <1> SUFFICES ASSUME Ranges, Supplied, Supplied', Ranges', ReachInv, UpdateTip
               PROVE  ReachInv'
    OBVIOUS
  <1> DEFINE s == injection_results'[1]  a == injection_results'[0]
  <1>1. /\ vcc_mv' = U16Ema(vcc_mv, VccOf(s))
        /\ tip_temp_c' = U16Ema(tip_temp_c, TipOf(a, vcc_mv') + temp_c)
        /\ UNCHANGED <<temp_c, scanned, adc_buffer>>
        /\ a \in AdcValues /\ s \in AdcValues /\ vcc_mv' \in Nat /\ vcc_mv' <= 5500
        /\ input \in Inputs /\ input.vref # 0
    BY InputFields DEF UpdateTip, readings, adcVars, Ranges, Supplied
  <1>2. s = input.vref \/ (s = injection_results[1] /\ timeouts < MaxTimeouts)
    <2>1. CASE injection_results' = [k \in 0..1 |-> input[Injected[k + 1]]]
      BY <2>1, Scan
    <2>2. CASE UNCHANGED injection_results /\ timeouts < MaxTimeouts
      BY <2>2
    <2>3. Inject
      BY DEF UpdateTip
    <2> HIDE DEF s
    <2> QED BY <2>1, <2>2, <2>3 DEF Inject
  <1>3. s = 0 \/ \E j \in Inputs : s = j.vref
    BY <1>1, <1>2 DEF ReachInv
  <1> HIDE DEF s, a
  <1>4. PICK u \in Supplies : vcc_mv <= u
    BY DEF ReachInv
  <1>5. u \in Nat /\ u <= 5500 /\ U16(u) /\ u \in Supplies
    BY <1>4, SupplyBounds
  <1>6. PICK v \in Supplies : vcc_mv' <= v
    <2>1. CASE s = 0
      <3>1. injection_results[1] = 0 /\ timeouts < MaxTimeouts
        BY <1>1, <1>2, <2>1
      <3>2. timeouts = 0 /\ vcc_mv = 3300
        <4>1. timeouts # 1
          BY <3>1, PaceAssumption DEF Ranges
        <4> QED BY <3>1, <4>1 DEF Supplied
      <3>3. vcc_mv' = 3093
        BY <1>1, <2>1, <3>2 DEF U16Ema, Word, VccOf
      <3>4. 3300 \in Supplies
        BY DEF Supplies
      <3>5. vcc_mv' <= 3300
        BY <3>3
      <3> QED BY <3>4, <3>5
    <2>2. ASSUME NEW k \in Inputs, s = k.vref
          PROVE  \E v \in Supplies : vcc_mv' <= v
      <3>1. VccOf(s) \in Supplies
        BY <2>2 DEF Supplies
      <3>2. VccOf(s) \in Nat /\ U16(VccOf(s)) /\ U16(vcc_mv)
        BY <3>1, SupplyBounds DEF Ranges
      <3>3. vcc_mv' = (15 * vcc_mv + VccOf(s)) \div 16
        BY <1>1, <3>2, AverageU16
      <3>4. vcc_mv \in Int /\ VccOf(s) <= VccOf(s)
        BY <3>2 DEF U16
      <3>5. vcc_mv' <= u \/ vcc_mv' <= VccOf(s)
        BY <1>4, <1>5, <3>2, <3>3, <3>4, AverageBelow
      <3>6. CASE vcc_mv' <= u
        BY <1>5, <3>6
      <3>7. CASE vcc_mv' <= VccOf(s)
        BY <3>1, <3>7
      <3> QED BY <3>5, <3>6, <3>7
    <2> QED BY <1>3, <2>1, <2>2
  <1>7. v \in Nat /\ v <= 5500 /\ v \in Supplies
    BY <1>6, SupplyBounds
  <1>8. PICK i \in Inputs : temp_c <= NtcOf(i.ntc)
    BY DEF ReachInv
  <1>9. PICK j \in Inputs, w \in Supplies : tip_temp_c <= TipOf(4095, w) + NtcOf(j.ntc)
    <2>1. TipInReach
      BY DEF ReachInv
    <2> QED BY <2>1 DEF TipInReach, Supplies
  <1>10. i \in Inputs /\ j \in Inputs /\ w \in Supplies
    BY <1>8, <1>9
  <1>11. w \in Nat
    BY <1>10, SupplyBounds
  <1> DEFINE f == TipOf(4095, v)  g == TipOf(4095, w)
             m == NtcOf(i.ntc)  n == NtcOf(j.ntc)  t == TipOf(a, vcc_mv') + temp_c
  <1>12. f \in Nat /\ f <= 9484 /\ g \in Nat /\ g <= 9484
    BY <1>7, <1>11, Adc, TipRange
  <1>13. m \in Int /\ m <= 1316 /\ n \in Int
    BY <1>10, InputFields, NtcInTable DEF Temp
  <1>14. TipOf(a, vcc_mv') <= f /\ TipOf(a, vcc_mv') \in Nat
    BY <1>1, <1>6, <1>7, TipGrows
  <1>15. temp_c \in Nat
    BY DEF ReachInv, Ranges, Temp
  <1>16. t \in Nat /\ t <= f + m /\ t <= 10800
    BY <1>8, <1>12, <1>13, <1>14, <1>15
  <1>17. tip_temp_c <= g + n /\ tip_temp_c \in Nat
    BY <1>9 DEF Ranges, U16
  <1>18. tip_temp_c' = (15 * tip_temp_c + t) \div 16
    <2>1. U16(t) /\ U16(tip_temp_c)
      <3> HIDE DEF t
      <3> QED BY <1>16, WordIs DEF U16, Ranges
    <2> HIDE DEF t
    <2>2. U16Ema(tip_temp_c, t) = (15 * tip_temp_c + t) \div 16
      BY <2>1, AverageU16
    <2> QED BY <1>1, <2>2 DEF t
  <1> HIDE DEF f, g, m, n, t
  <1>19. tip_temp_c' <= f + m \/ tip_temp_c' <= g + n
    BY <1>12, <1>13, <1>16, <1>17, <1>18, AverageBelow
  <1>20. TipInReach'
    BY <1>7, <1>10, <1>19 DEF TipInReach, Supplies, f, g, m, n
  <1>21. temp_c' >= 0 /\ vcc_mv' <= 5500 /\ temp_c' <= NtcOf(i.ntc) /\ vcc_mv' <= v
         /\ (scanned' = 3 => \E k \in Inputs : adc_buffer'[2] = k.ntc)
    BY <1>1, <1>6, <1>8 DEF ReachInv
  <1>22. injection_results'[1] = 0 \/ \E k \in Inputs : injection_results'[1] = k.vref
    BY <1>3 DEF s
  <1>23. \E k \in Inputs : temp_c' <= NtcOf(k.ntc)
    BY <1>10, <1>21
  <1>24. \E k \in Supplies : vcc_mv' <= k
    BY <1>7, <1>21
  <1> QED BY <1>20, <1>21, <1>22, <1>23, <1>24 DEF ReachInv

LEMMA ReachStep ==
    ASSUME SupplyOK, BoardWarm, MaxTimeouts <= 1
    PROVE  Ranges /\ Ranges' /\ Supplied /\ Supplied' /\ ReachInv /\ [Next]_vars => ReachInv'
  <1> SUFFICES ASSUME Ranges, Ranges', Supplied, Supplied', ReachInv, [Next]_vars
               PROVE  ReachInv'
    OBVIOUS
  <1>1. CASE Change \/ UNCHANGED vars
    <2>1. UNCHANGED <<temp_c, vcc_mv, scanned, adc_buffer, injection_results, tip_temp_c>>
      BY <1>1 DEF Change, vars, adcVars, readings, tipVars
    <2>2. TipInReach'
      BY <2>1, ReachKept DEF ReachInv
    <2> QED BY <2>1, <2>2 DEF ReachInv
  <1>2. CASE Convert
    BY <1>2, ConvertReach
  <1>3. CASE UpdatePower
    BY <1>3, PowerReach
  <1>4. CASE UpdateTip
    BY <1>4, TipReach
  <1> QED BY <1>1, <1>2, <1>3, <1>4 DEF Next

(* The tip's reading is never farther above the warmest board than the full *)
(* scale of the amplifier: main.c 663 compares it with a limit it may be    *)
(* unable to reach.                                                         *)
THEOREM TipAlwaysInReach ==
    ASSUME SupplyOK, BoardWarm, MaxTimeouts <= 1
    PROVE  Spec => []TipInReach
  <1> DEFINE IInv == Ranges /\ Supplied /\ ReachInv
  <1>1. Init => IInv
    <2>1. Init => Supplied
      BY DEF Init, Supplied
    <2> QED BY <2>1, RangesInit, ReachInit
  <1>2. IInv /\ [Next]_vars => IInv'
    BY RangesStep, SuppliedStep, ReachStep
  <1>3. IInv => TipInReach
    BY DEF ReachInv
  <1> HIDE DEF IInv
  <1> QED BY <1>1, <1>2, <1>3, PTL DEF Spec

(* A reference of 1489 or more means a supply of 3.3 V or less.             *)
LEMMA VccAtMost ==
    ASSUME NEW r \in Nat, r >= 1489
    PROVE  VccOf(r) <= 3301
  <1> DEFINE q == 4915200 \div r
  <1>1. q \in Int /\ r * q <= 4915200
    BY DivInt
  <1>2. VccOf(r) = q
    BY DEF VccOf
  <1> HIDE DEF q
  <1>3. ASSUME q >= 3302 PROVE FALSE
    <2>1. r * q >= r * 3302
      BY <1>1, <1>3
    <2>2. r * 3302 >= 4916678
      OBVIOUS
    <2> QED BY <1>1, <2>1, <2>2
  <1> QED BY <1>1, <1>2, <1>3

(* What follows for the comparison with MAX_TIP_TEMP: with a supply of up   *)
(* to 3.3 V the full scale of the amplifier is 477 degrees, so that a board *)
(* that is never warmer than the limit less 477 (23 degrees, for the limit  *)
(* of the code) keeps the limit out of reach: the heater is never switched  *)
(* off because of its tip, however hot that is.                             *)
THEOREM TipLimitOutOfReach ==
    ASSUME SupplyOK, BoardWarm, MaxTimeouts <= 1,
           \A i \in Inputs : i.vref >= 1489 /\ NtcOf(i.ntc) + 477 <= MaxTipTemp
    PROVE  Spec => []("tip" \notin Over)
  <1>1. ASSUME NEW v \in Supplies PROVE TipOf(4095, v) \in Nat /\ TipOf(4095, v) <= 477
    <2>1. v \in Nat /\ v <= 3301
      <3>1. CASE v = 3300
        BY <3>1
      <3>2. ASSUME NEW j \in Inputs, v = VccOf(j.vref) PROVE v \in Nat /\ v <= 3301
        <4>1. v \in Nat
          BY SupplyBounds
        <4>2. j.vref \in Nat /\ j.vref >= 1489 /\ v = 4915200 \div j.vref
          BY <3>2, InputFields, Adc DEF VccOf
        <4> QED BY <3>2, <4>1, <4>2, VccAtMost
      <3> QED BY <3>1, <3>2 DEF Supplies
    <2> DEFINE m == (4095 * v) \div 4096  c == (m * 9485) \div Word
    <2>2. m \in Nat /\ m <= 3300
      BY <2>1
    <2>3. TipOf(4095, v) = I16(c)
      BY <2>2, ModWord, WordIs DEF TipOf
    <2> HIDE DEF m
    <2>4. c \in Nat /\ c <= 477
      BY <2>2 DEF Word
    <2> HIDE DEF c
    <2>5. I16(c) = c
      BY <2>4 DEF I16, Word
    <2> QED BY <2>3, <2>4, <2>5
  <1>2. TipInReach /\ Ranges => "tip" \notin Over
    <2> SUFFICES ASSUME TipInReach, Ranges PROVE "tip" \notin Over
      OBVIOUS
    <2>1. PICK i \in Inputs, v \in Supplies : tip_temp_c <= TipOf(4095, v) + NtcOf(i.ntc)
      BY DEF TipInReach, Supplies
    <2>2. TipOf(4095, v) \in Nat /\ TipOf(4095, v) <= 477
      BY <1>1, <2>1
    <2>3. NtcOf(i.ntc) \in Int /\ NtcOf(i.ntc) + 477 <= MaxTipTemp
      BY <2>1, InputFields, NtcInTable DEF Temp
    <2>4. ~(tip_temp_c > MaxTipTemp)
      BY <2>1, <2>2, <2>3, LimitsAssumption DEF Ranges, U16
    <2> QED BY <2>4 DEF Over
  <1>3. Spec => []TipInReach
    BY TipAlwaysInReach
  <1>4. Spec => []Ranges
    BY RangesInit, RangesStep, PTL DEF Spec
  <1> QED BY <1>2, <1>3, <1>4, PTL

-----------------------------------------------------------------------------
(* The screen                                                               *)

(* What the recursion of Digits amounts to for up to 6 digits: Top is       *)
(* Digits with the recursion unrolled twice, which is as deep as a 16-bit   *)
(* number goes. A recursive function is a CHOOSE of a function that         *)
(* satisfies its equation: Top is the witness that there is one, and        *)
(* whatever satisfies it is Top.                                            *)
Join(s, p, q) == s \o <<p, q>>
LastTwo(s, v) == Join(s, (v % 100) \div 10, v % 10)
Low(v) == IF v < 10 THEN <<v>> ELSE <<v \div 10, v % 10>>
Mid(v) == IF v < 100 THEN Low(v) ELSE LastTwo(Low(v \div 100), v)
Top(v) == IF v < 100 THEN Low(v) ELSE LastTwo(Mid(v \div 100), v)

(* Top satisfies the equation of u16toa's loop.                             *)
LEMMA TopUnfolds ==
    ASSUME NEW v \in Nat, v <= 65535
    PROVE  /\ v < 10 => Top(v) = <<v>>
           /\ v >= 10 /\ v < 100 => Top(v) = <<v \div 10, v % 10>>
           /\ v >= 100 => Top(v) = LastTwo(Top(v \div 100), v)
  <1>1. CASE v < 100
    BY <1>1 DEF Top, Low
  <1>2. CASE v >= 100
    <2> DEFINE w == v \div 100  u == w \div 100
    <2>1. w \in Nat /\ w <= 655 /\ u \in Nat /\ u <= 6
      BY <1>2
    <2> HIDE DEF u, w
    <2>2. Top(v) = LastTwo(Mid(w), v)
      BY <1>2 DEF Top, w
    <2>3. Mid(u) = Low(u)
      BY <2>1 DEF Mid
    <2>4. Top(w) = Mid(w)
      BY <2>3 DEF Top, Mid, u
    <2> QED BY <1>2, <2>2, <2>4 DEF w
  <1> QED BY <1>1, <1>2

LEMMA Hundredth == ASSUME NEW n \in Nat PROVE n \div 100 \in Nat /\ n \div 100 <= n /\ 100 * (n \div 100) <= n
  OBVIOUS

(* Digits satisfies that equation because Top does, and so is Top.          *)
LEMMA DigitsAre ==
    ASSUME NEW v \in 0..Word - 1
    PROVE  Digits(v) = Top(v)
  <1> DEFINE S == 0..Word - 1
             E(f, n) == IF n < 10 THEN <<n>>
                        ELSE IF n < 100 THEN <<n \div 10, n % 10>>
                        ELSE f[n \div 100] \o <<(n % 100) \div 10, n % 10>>
             Good(f) == f = [n \in S |-> E(f, n)]
             d == CHOOSE f : Good(f)
             g == [n \in S |-> Top(n)]
  <1>1. Digits(v) = d[v]
    BY DEF Digits
  <1>9. \A n : n \in S <=> n \in Nat /\ n < Word
    <2> DEFINE top == Word - 1
    <2>1. top \in Nat /\ Word = top + 1
      BY WordIs
    <2> HIDE DEF top
    <2>2. \A n : n \in 0..top <=> n \in Nat /\ n <= top
      BY <2>1
    <2>3. \A n \in Nat : n < Word <=> n <= top
      BY <2>1
    <2> QED BY <2>2, <2>3 DEF top
  <1> HIDE DEF S
  <1>5. \A n \in S : n \in Nat /\ n <= 65535 /\ n \div 100 \in S
    BY <1>9, Hundredth, WordIs
  <1>2. Good(g)
    <2>1. \A n \in S : Top(n) = E(g, n)
      <3> SUFFICES ASSUME NEW n \in S PROVE Top(n) = E(g, n)
        OBVIOUS
      <3>1. n \in Nat /\ n <= 65535 /\ n \div 100 \in S
        BY <1>5
      <3>3. g[n \div 100] = Top(n \div 100)
        BY <3>1
      <3> HIDE DEF g
      <3>4. CASE n < 10
        BY <3>1, <3>4, TopUnfolds
      <3>5. CASE n >= 10 /\ n < 100
        BY <3>1, <3>5, TopUnfolds
      <3>6. CASE n >= 100
        <4>1. ~(n < 10) /\ ~(n < 100)
          BY <3>1, <3>6
        <4>2. Top(n) = LastTwo(Top(n \div 100), n)
          BY <3>1, <3>6, TopUnfolds
        <4> QED BY <3>3, <4>1, <4>2 DEF LastTwo, Join
      <3> HIDE DEF E
      <3> QED BY <3>1, <3>4, <3>5, <3>6
    <2> HIDE DEF E
    <2> QED BY <2>1
  <1>3. Good(d)
    <2> HIDE DEF Good
    <2> QED BY <1>2
  <1>4. \A n \in S : d[n] = E(d, n)
    <2> HIDE DEF d, E, S
    <2> QED BY <1>3
  <1> HIDE DEF d, Good, g, E
  <1>6. \A n \in S : n < 100 => d[n] = Low(n)
    <2> SUFFICES ASSUME NEW n \in S, n < 100 PROVE d[n] = Low(n)
      OBVIOUS
    <2>1. d[n] = E(d, n)
      BY <1>4
    <2> QED BY <2>1 DEF E, Low
  <1>7. \A n \in S : n < 10000 => d[n] = Mid(n)
    <2> SUFFICES ASSUME NEW n \in S, n < 10000, n >= 100 PROVE d[n] = Mid(n)
      BY <1>5, <1>6 DEF Mid
    <2>1. n \div 100 \in S /\ n \div 100 < 100 /\ ~(n < 10) /\ ~(n < 100)
      BY <1>5
    <2>2. d[n] = LastTwo(d[n \div 100], n)
      <3>1. d[n] = E(d, n)
        BY <1>4
      <3> QED BY <2>1, <3>1 DEF E, LastTwo, Join
    <2>3. d[n \div 100] = Low(n \div 100)
      BY <1>6, <2>1
    <2> QED BY <2>1, <2>2, <2>3 DEF Mid
  <1>8. \A n \in S : d[n] = Top(n)
    <2> SUFFICES ASSUME NEW n \in S, n >= 100 PROVE d[n] = Top(n)
      BY <1>5, <1>6 DEF Top
    <2>1. n \div 100 \in S /\ n \div 100 < 10000 /\ ~(n < 10) /\ ~(n < 100)
      BY <1>5
    <2>2. d[n] = LastTwo(d[n \div 100], n)
      <3>1. d[n] = E(d, n)
        BY <1>4
      <3> QED BY <2>1, <3>1 DEF E, LastTwo, Join
    <2>3. d[n \div 100] = Mid(n \div 100)
      BY <1>7, <2>1
    <2> QED BY <2>1, <2>2, <2>3 DEF Top
  <1> QED BY <1>1, <1>8 DEF S

(* What is read back from up to 5 digits, unrolled likewise                 *)
V1(s) == s[1]
V2(s) == 10 * V1(s) + s[2]
V3(s) == 10 * V2(s) + s[3]
V4(s) == 10 * V3(s) + s[4]
V5(s) == 10 * V4(s) + s[5]
Val(s, k) == IF k = 0 THEN 0 ELSE IF k = 1 THEN V1(s) ELSE IF k = 2 THEN V2(s)
             ELSE IF k = 3 THEN V3(s) ELSE IF k = 4 THEN V4(s) ELSE V5(s)

(* Reads computes Val.                                                      *)
LEMMA ReadsAs ==
    ASSUME NEW s \in Seq(Nat), 1 <= Len(s), Len(s) <= 5, NEW value,
           Val(s, Len(s)) = value, Len(s) = 1 \/ s[1] # 0
    PROVE  Reads(s, value)
  <1> DEFINE S == 0..Len(s)
             E(f, k) == IF k = 0 THEN 0 ELSE 10 * f[k - 1] + s[k]
             Good(f) == f = [k \in S |-> E(f, k)]
             n == CHOOSE f : Good(f)
             g == [k \in S |-> Val(s, k)]
  <1>1. Reads(s, value) <=> (Len(s) = 1 \/ s[1] # 0) /\ n[Len(s)] = value
    BY DEF Reads
  <1>2. \A k \in S : s[1] \in Nat /\ (k > 1 => s[k] \in Nat)
    OBVIOUS
  <1>3. \A k \in S : k # 0 => k - 1 \in S /\ k \in 1..5
    <2> DEFINE m == Len(s)
    <2>1. m \in Nat /\ m <= 5
      OBVIOUS
    <2> HIDE DEF m
    <2>2. \A k \in 0..m : k # 0 => k - 1 \in 0..m /\ k \in 1..5
      BY <2>1
    <2> QED BY <2>2 DEF m
  <1>4. \A k \in S : k # 0 => Val(s, k) = 10 * Val(s, k - 1) + s[k]
    <2> SUFFICES ASSUME NEW k \in S, k # 0
                 PROVE  Val(s, k) = 10 * Val(s, k - 1) + s[k]
      OBVIOUS
    <2>1. k = 1 \/ k = 2 \/ k = 3 \/ k = 4 \/ k = 5
      BY <1>3
    <2>2. CASE k = 1
      BY <1>2, <2>2 DEF Val, V1
    <2>3. CASE k = 2
      BY <2>3 DEF Val, V2
    <2>4. CASE k = 3
      BY <2>4 DEF Val, V3
    <2>5. CASE k = 4
      BY <2>5 DEF Val, V4
    <2>6. CASE k = 5
      BY <2>6 DEF Val, V5
    <2> QED BY <2>1, <2>2, <2>3, <2>4, <2>5, <2>6
  <1>5. Len(s) \in S /\ Len(s) \in Nat
    OBVIOUS
  <1> HIDE DEF S
  <1>6. Good(g)
    <2>1. \A k \in S : Val(s, k) = E(g, k)
      <3> SUFFICES ASSUME NEW k \in S PROVE Val(s, k) = E(g, k)
        OBVIOUS
      <3>1. CASE k = 0
        BY <3>1 DEF Val
      <3>2. CASE k # 0
        <4>1. g[k - 1] = Val(s, k - 1)
          BY <1>3, <3>2
        <4> QED BY <1>4, <3>2, <4>1
      <3> QED BY <3>1, <3>2
    <2> HIDE DEF E
    <2> QED BY <2>1
  <1>7. Good(n)
    <2> HIDE DEF Good
    <2> QED BY <1>6
  <1>8. \A k \in S : n[k] = E(n, k)
    <2> HIDE DEF n, E
    <2> QED BY <1>7
  <1> HIDE DEF n, Good, g, E
  <1>9. 0 \in S => n[0] = Val(s, 0)
    BY <1>8 DEF E, Val
  <1>10. ASSUME NEW k \in S, k # 0, n[k - 1] = Val(s, k - 1)
         PROVE  n[k] = Val(s, k)
    <2>1. n[k] = E(n, k)
      BY <1>8
    <2> QED BY <1>4, <1>10, <2>1 DEF E
  <1>11. 0 \in S /\ \A k \in 1..5 : k <= Len(s) => k \in S
    BY <1>5 DEF S
  <1>12. n[1] = Val(s, 1)
    BY <1>9, <1>10, <1>11
  <1>13. 2 <= Len(s) => n[2] = Val(s, 2)
    BY <1>10, <1>11, <1>12
  <1>14. 3 <= Len(s) => n[3] = Val(s, 3)
    BY <1>10, <1>11, <1>13
  <1>15. 4 <= Len(s) => n[4] = Val(s, 4)
    BY <1>10, <1>11, <1>14
  <1>16. 5 <= Len(s) => n[5] = Val(s, 5)
    BY <1>10, <1>11, <1>15
  <1>17. n[Len(s)] = Val(s, Len(s))
    <2>1. Len(s) = 1 \/ Len(s) = 2 \/ Len(s) = 3 \/ Len(s) = 4 \/ Len(s) = 5
      <3> DEFINE m == Len(s)
      <3>1. m \in Nat /\ 1 <= m /\ m <= 5
        OBVIOUS
      <3> HIDE DEF m
      <3>2. m = 1 \/ m = 2 \/ m = 3 \/ m = 4 \/ m = 5
        BY <3>1
      <3> QED BY <3>2 DEF m
    <2>2. CASE Len(s) = 1
      BY <1>12, <2>2
    <2>3. CASE Len(s) = 2
      BY <1>13, <2>3
    <2>4. CASE Len(s) = 3
      BY <1>14, <2>4
    <2>5. CASE Len(s) = 4
      BY <1>15, <2>5
    <2>6. CASE Len(s) = 5
      BY <1>16, <2>6
    <2> QED BY <2>1, <2>2, <2>3, <2>4, <2>5, <2>6
  <1> QED BY <1>1, <1>17

LEMMA ReadsFrom ==
    ASSUME NEW s \in Seq(Nat), NEW k \in Nat, 1 <= k, k <= 5, Len(s) = k, NEW value,
           Val(s, k) = value, k = 1 \/ s[1] # 0
    PROVE  Reads(s, value)
  <1>1. 1 <= Len(s) /\ Len(s) <= 5 /\ Val(s, Len(s)) = value /\ (Len(s) = 1 \/ s[1] # 0)
    OBVIOUS
  <1> QED BY <1>1, ReadsAs


(* t is s with p and q after it.                                            *)
Longer(t, s, p, q) ==
    /\ t \in Seq(Nat) /\ Len(t) = Len(s) + 2
    /\ \A i \in 1..(Len(s) + 2) :
          t[i] = IF i <= Len(s) THEN s[i] ELSE IF i = Len(s) + 1 THEN p ELSE q

(* The two digits a turn of u16toa's loop adds come after those that are    *)
(* there.                                                                   *)
LEMMA Joined ==
    ASSUME NEW s \in Seq(Nat), NEW p \in Nat, NEW q \in Nat
    PROVE  Longer(Join(s, p, q), s, p, q)
  <1> DEFINE u == <<p, q>>  n == Len(s)
  <1>1. u \in Seq(Nat) /\ Len(u) = 2 /\ u[1] = p /\ u[2] = q
    OBVIOUS
  <1>2. n \in Nat
    OBVIOUS
  <1> HIDE DEF u
  <1>3. /\ s \o u \in Seq(Nat)
        /\ Len(s \o u) = Len(s) + Len(u)
        /\ \A i \in 1 .. Len(s) + Len(u) :
              (s \o u)[i] = IF i <= Len(s) THEN s[i] ELSE u[i - Len(s)]
    BY <1>1, ConcatProperties
  <1>4. Len(s) + Len(u) = n + 2
    BY <1>1
  <1> HIDE DEF n
  <1>5. \A i \in 1..(n + 2) : i <= n \/ (~(i <= n) /\ i = n + 1 /\ i - n = 1)
                                       \/ (~(i <= n) /\ i # n + 1 /\ i - n = 2)
    BY <1>2
  <1>6. \A i \in 1..(n + 2) :
          (s \o u)[i] = IF i <= n THEN s[i] ELSE IF i = n + 1 THEN p ELSE q
    BY <1>1, <1>3, <1>4, <1>5 DEF n
  <1> QED BY <1>3, <1>4, <1>6 DEF n, u, Join, Longer

(* Facts about small numbers, for a prover without arithmetic               *)
LEMMA Small ==
    /\ 1 \in Nat /\ 2 \in Nat /\ 3 \in Nat /\ 4 \in Nat /\ 5 \in Nat
    /\ 1 <= 1 /\ 1 <= 2 /\ 1 <= 3 /\ 1 <= 4 /\ 1 <= 5
    /\ 1 <= 5 /\ 2 <= 5 /\ 3 <= 5 /\ 4 <= 5 /\ 5 <= 5
    /\ 2 = 1 + 1 /\ 3 = 1 + 2 /\ 3 = 2 + 1 /\ 4 = 2 + 2 /\ 4 = 3 + 1 /\ 5 = 3 + 2
    /\ 1 \in 1..1 /\ 1 \in 1..2 /\ 2 \in 1..2 /\ 1 \in 1..3 /\ 2 \in 1..3 /\ 3 \in 1..3
  OBVIOUS

LEMMA Joins1 ==
    ASSUME NEW s, NEW p, NEW q, NEW t,
           s \in Seq(Nat) /\ p \in Nat /\ q \in Nat /\ Len(s) = 1 /\ t = Join(s, p, q)
    PROVE  t \in Seq(Nat) /\ Len(t) = 3 /\ t[1] = s[1] /\ t[2] = p /\ t[3] = q
  <1>1. Longer(t, s, p, q)
    BY Joined
  <1> QED BY <1>1 DEF Longer

LEMMA Joins2 ==
    ASSUME NEW s, NEW p, NEW q, NEW t,
           s \in Seq(Nat) /\ p \in Nat /\ q \in Nat /\ Len(s) = 2 /\ t = Join(s, p, q)
    PROVE  t \in Seq(Nat) /\ Len(t) = 4 /\ t[1] = s[1] /\ t[2] = s[2] /\ t[3] = p /\ t[4] = q
  <1>1. Longer(t, s, p, q)
    BY Joined
  <1> QED BY <1>1 DEF Longer

LEMMA Joins3 ==
    ASSUME NEW s, NEW p, NEW q, NEW t,
           s \in Seq(Nat) /\ p \in Nat /\ q \in Nat /\ Len(s) = 3 /\ t = Join(s, p, q)
    PROVE  t \in Seq(Nat) /\ Len(t) = 5 /\ t[1] = s[1] /\ t[2] = s[2] /\ t[3] = s[3] /\ t[4] = p /\ t[5] = q
  <1>1. Longer(t, s, p, q)
    BY Joined
  <1> QED BY <1>1 DEF Longer

(* u16toa loses no digit: by the number of digits, 1 to 5.                  *)
LEMMA DigitsRead ==
    ASSUME NEW v \in Nat, v < Word
    PROVE  Reads(Digits(v), v)
  <1> DEFINE s == Top(v)  a == v \div 100  b == a \div 100
             p == (v % 100) \div 10  q == v % 10  c == (a % 100) \div 10  e == a % 10
  <1>1. Digits(v) = s
    <2>1. v \in 0..Word - 1
      <3> DEFINE top == Word - 1
      <3>1. top \in Nat /\ v <= top
        BY WordIs
      <3> HIDE DEF top
      <3>2. v \in 0..top
        BY <3>1
      <3> QED BY <3>2 DEF top
    <2> QED BY <2>1, DigitsAre
  <1>0. p \in Nat /\ q \in Nat /\ a \in Nat /\ b \in Nat /\ c \in Nat /\ e \in Nat
    OBVIOUS
  <1>2. /\ p \in Nat /\ q \in Nat /\ a \in Nat /\ b \in Nat /\ c \in Nat /\ e \in Nat
        /\ v = 100 * a + 10 * p + q /\ a = 100 * b + 10 * c + e
        /\ p <= 9 /\ q <= 9 /\ c <= 9 /\ e <= 9 /\ b <= 6
    BY WordIs
  <1>3. \A l : LastTwo(l, v) = Join(l, p, q) /\ LastTwo(l, a) = Join(l, c, e)
    BY DEF LastTwo
  <1> HIDE DEF p, q, a, b, c, e
  <1>9. ASSUME Reads(s, v) PROVE Reads(Digits(v), v)
    BY <1>1, <1>9
  <1>4. CASE v < 10
    <2>1. s = <<v>>
      BY <1>4 DEF Top, Low
    <2> HIDE DEF s
    <2>2. s \in Seq(Nat) /\ Len(s) = 1 /\ s[1] = v
      BY <2>1
    <2>3. Val(s, 1) = v
      BY <2>2 DEF Val, V1
    <2>4. Reads(s, v)
      BY <2>2, <2>3, ReadsFrom, Small
    <2> QED BY <1>9, <2>4
  <1>5. CASE v >= 10 /\ v < 100
    <2> DEFINE h == v \div 10
    <2>1. h \in Nat /\ h # 0 /\ v = 10 * h + q
      BY <1>5 DEF q
    <2>2. s = <<h, q>>
      BY <1>5 DEF Top, Low, q
    <2> HIDE DEF s, h
    <2>3. s \in Seq(Nat) /\ Len(s) = 2 /\ s[1] = h /\ s[2] = q
      BY <1>2, <2>1, <2>2
    <2>4. Val(s, 2) = v
      BY <2>1, <2>3 DEF Val, V1, V2
    <2>5. Reads(s, v)
      BY <2>1, <2>3, <2>4, ReadsFrom, Small
    <2> QED BY <1>9, <2>5
  <1>6. CASE v >= 100 /\ v < 1000
    <2>1. a < 10 /\ a # 0
      BY <1>2, <1>6
    <2> DEFINE u == <<a>>
    <2>2. s = Join(u, p, q)
      <3>1. s = LastTwo(Mid(a), v)
        BY <1>6 DEF Top, a
      <3>2. Mid(a) = u
        BY <1>2, <2>1 DEF Mid, Low
      <3> QED BY <1>3, <3>1, <3>2
    <2>3. u \in Seq(Nat) /\ Len(u) = 1 /\ u[1] = a
      BY <1>2
    <2> HIDE DEF s, u
    <2>4. s \in Seq(Nat) /\ Len(s) = 3 /\ s[1] = a /\ s[2] = p /\ s[3] = q
      BY <1>0, <2>2, <2>3, Joins1
    <2>5. Val(s, 3) = v
      BY <1>2, <1>6, <2>4 DEF Val, V1, V2, V3
    <2>6. Reads(s, v)
      BY <2>1, <2>4, <2>5, ReadsFrom, Small
    <2> QED BY <1>9, <2>6
  <1>7. CASE v >= 1000 /\ v < 10000
    <2>1. a < 100 /\ a >= 10 /\ b = 0
      BY <1>2, <1>7
    <2>2. a \div 10 = c /\ c # 0
      BY <1>2, <2>1
    <2> DEFINE u == <<c, e>>
    <2>3. s = Join(u, p, q)
      <3>1. s = LastTwo(Mid(a), v)
        BY <1>2, <1>7 DEF Top, a
      <3>2. Mid(a) = u
        BY <1>2, <2>1, <2>2 DEF Mid, Low, e
      <3> QED BY <1>3, <3>1, <3>2
    <2>4. u \in Seq(Nat) /\ Len(u) = 2 /\ u[1] = c /\ u[2] = e
      BY <1>2
    <2> HIDE DEF s, u
    <2>5. s \in Seq(Nat) /\ Len(s) = 4 /\ s[1] = c /\ s[2] = e /\ s[3] = p /\ s[4] = q
      <3>1. /\ s \in Seq(Nat) /\ Len(s) = 4 /\ s[1] = u[1] /\ s[2] = u[2]
            /\ s[3] = p /\ s[4] = q
        BY <1>0, <2>3, <2>4, Joins2
      <3> QED BY <2>4, <3>1
    <2>6. Val(s, 4) = v
      BY <1>2, <2>1, <2>5 DEF Val, V1, V2, V3, V4
    <2>7. Reads(s, v)
      BY <2>2, <2>5, <2>6, ReadsFrom, Small
    <2> QED BY <1>9, <2>7
  <1>8. CASE v >= 10000
    <2>1. a >= 100 /\ b < 10 /\ b # 0
      BY <1>2, <1>8
    <2> DEFINE w == <<b>>  u == Join(w, c, e)
    <2>2. s = Join(u, p, q)
      <3>1. s = LastTwo(Mid(a), v)
        BY <1>2, <1>8 DEF Top, a
      <3>2. Mid(a) = LastTwo(Low(b), a) /\ Low(b) = w
        BY <1>2, <2>1 DEF Mid, Low, b
      <3> QED BY <1>3, <3>1, <3>2
    <2>3. w \in Seq(Nat) /\ Len(w) = 1 /\ w[1] = b
      BY <1>2
    <2> HIDE DEF w
    <2>4. u \in Seq(Nat) /\ Len(u) = 3 /\ u[1] = b /\ u[2] = c /\ u[3] = e
      <3>1. u \in Seq(Nat) /\ Len(u) = 3 /\ u[1] = w[1] /\ u[2] = c /\ u[3] = e
        BY <1>0, <2>3, Joins1
      <3> QED BY <2>3, <3>1
    <2> HIDE DEF s, u
    <2>5. s \in Seq(Nat) /\ Len(s) = 5 /\ s[1] = b /\ s[2] = c /\ s[3] = e /\ s[4] = p /\ s[5] = q
      <3>1. /\ s \in Seq(Nat) /\ Len(s) = 5 /\ s[1] = u[1] /\ s[2] = u[2] /\ s[3] = u[3]
            /\ s[4] = p /\ s[5] = q
        BY <1>0, <2>2, <2>4, Joins3
      <3> QED BY <2>4, <3>1
    <2>6. Val(s, 5) = v
      BY <1>2, <2>5 DEF Val, V1, V2, V3, V4, V5
    <2>7. Reads(s, v)
      BY <2>1, <2>5, <2>6, ReadsFrom, Small
    <2> QED BY <1>9, <2>7
  <1> QED BY <1>4, <1>5, <1>6, <1>7, <1>8

(* The digits that light each segment of draw_7seg                          *)
LEMMA SegmentsAre ==
    ASSUME NEW n
    PROVE  /\ "top" \in Segments(n) <=> n \in {0, 2, 3, 5, 6, 7, 8, 9}
           /\ "bottom" \in Segments(n) <=> n \in {0, 2, 3, 5, 6, 8, 9}
           /\ "center" \in Segments(n) <=> n \in {2, 3, 4, 5, 6, 8, 9}
           /\ "top left" \in Segments(n) <=> n \in {0, 4, 5, 6, 8, 9}
           /\ "bottom left" \in Segments(n) <=> n \in {0, 2, 6, 8}
           /\ "top right" \in Segments(n) <=> n \in {0, 1, 2, 3, 4, 7, 8, 9}
           /\ "bottom right" \in Segments(n) <=> n \in {0, 1, 3, 4, 5, 6, 7, 8, 9}
  BY DEF Segments

(* No two digits light the same segments.                                   *)
LEMMA DigitsAlwaysDiffer == DigitsDiffer
  <1> SUFFICES ASSUME NEW a \in 0..9, NEW b \in 0..9, Segments(a) = Segments(b)
               PROVE  a = b
    BY DEF DigitsDiffer
  <1>1. /\ a \in {0, 2, 3, 5, 6, 7, 8, 9} <=> b \in {0, 2, 3, 5, 6, 7, 8, 9}
        /\ a \in {0, 2, 3, 5, 6, 8, 9} <=> b \in {0, 2, 3, 5, 6, 8, 9}
        /\ a \in {2, 3, 4, 5, 6, 8, 9} <=> b \in {2, 3, 4, 5, 6, 8, 9}
        /\ a \in {0, 4, 5, 6, 8, 9} <=> b \in {0, 4, 5, 6, 8, 9}
        /\ a \in {0, 2, 6, 8} <=> b \in {0, 2, 6, 8}
        /\ a \in {0, 1, 2, 3, 4, 7, 8, 9} <=> b \in {0, 1, 2, 3, 4, 7, 8, 9}
        /\ a \in {0, 1, 3, 4, 5, 6, 7, 8, 9} <=> b \in {0, 1, 3, 4, 5, 6, 7, 8, 9}
    BY SegmentsAre
  <1> QED BY <1>1

(* So the digits of draw_temp can be read back.                             *)
LEMMA TipShown ==
    ASSUME tip_temp_c \in Nat, tip_temp_c <= 999
    PROVE  LET digit(k) == CHOOSE d \in 0..9 : ShownTemp[k] = Segments(d)
           IN  100 * digit(1) + 10 * digit(2) + digit(3) = tip_temp_c
  <1> DEFINE x == tip_temp_c  a == x \div 100  b == (x \div 10) % 10  c == x % 10
             digit(k) == CHOOSE d \in 0..9 : ShownTemp[k] = Segments(d)
  <1>1. I16(x) = x
    BY DEF I16, Word
  <1>2. a \in 0..9 /\ b \in 0..9 /\ c \in 0..9 /\ x = 100 * a + 10 * b + c
    OBVIOUS
  <1>3. ~(x > 999 \/ x < 0)
    OBVIOUS
  <1>4. ShownTemp = <<Segments(a), Segments(b), Segments(c)>>
    BY <1>1, <1>3 DEF ShownTemp
  <1> HIDE DEF a, b, c
  <1>5. ShownTemp[1] = Segments(a) /\ ShownTemp[2] = Segments(b) /\ ShownTemp[3] = Segments(c)
    BY <1>4
  <1>6. \A d \in 0..9, e \in 0..9 : Segments(d) = Segments(e) => d = e
    BY DigitsAlwaysDiffer DEF DigitsDiffer
  <1>7. digit(1) = a /\ digit(2) = b /\ digit(3) = c
    BY <1>2, <1>5, <1>6, Zenon
  <1> QED BY <1>2, <1>7

(* The bar is full exactly when the limit is reached: nothing before the    *)
(* last division loses the order.                                           *)
LEMMA BarTells ==
    ASSUME power \in Nat, power <= 2 * SetPower
    PROVE  power >= SetPower <=> Bar >= 54
  <1> DEFINE p == (power * 100) \div SetPower
  <1>1. SetPower \in Nat \ {0}
    BY LimitsAssumption
  <1>2. p \in Nat /\ p <= 200 /\ (power >= SetPower <=> p >= 100)
    <2>1. p \in Int /\ SetPower * p <= power * 100 /\ power * 100 < SetPower * p + SetPower
      BY <1>1
    <2> HIDE DEF p
    <2>2. p \in Nat
      BY <1>1, <2>1
    <2>3. p <= 200
      BY <1>1, <2>1
    <2>4. power >= SetPower => p >= 100
      BY <1>1, <2>1
    <2>5. p >= 100 => power >= SetPower
      BY <1>1, <2>1
    <2> QED BY <2>2, <2>3, <2>4, <2>5
  <1>3. Bar = (((p % 256) * 54) \div 100) % 256
    BY DEF Bar
  <1> HIDE DEF p
  <1>4. Bar = (p * 54) \div 100
    BY <1>2, <1>3
  <1> QED BY <1>2, <1>4

(* Whatever the averages hold, what draw_temp, u16toa and the bar of        *)
(* c_draw_main_ui show of them can be read back: in every state of every    *)
(* instance, without any assumption on the inputs.                          *)
THEOREM ScreenAlwaysTells == Spec => []ScreenTells
  <1>1. Ranges => ScreenTells
    <2> SUFFICES ASSUME Ranges PROVE ScreenTells
      OBVIOUS
    <2>1. \A v : U16(v) => Reads(Digits(v), v) /\ U16((v + 500) \div 1000)
      <3> SUFFICES ASSUME NEW v, U16(v) PROVE Reads(Digits(v), v) /\ U16((v + 500) \div 1000)
        OBVIOUS
      <3>1. Reads(Digits(v), v)
        BY DigitsRead DEF U16
      <3>2. U16((v + 500) \div 1000)
        BY WordIs DEF U16
      <3> QED BY <3>1, <3>2
    <2>2. U16(current_ma) /\ U16(vbus_mv) /\ U16(vcc_mv)
      BY DEF Ranges
    <2>3. Reads(ShownAmps, (current_ma + 500) \div 1000)
      BY <2>1, <2>2 DEF ShownAmps
    <2>4. Reads(ShownVolts, (vbus_mv + 500) \div 1000)
      BY <2>1, <2>2 DEF ShownVolts
    <2>5. Reads(Digits(vbus_mv), vbus_mv) /\ Reads(Digits(vcc_mv), vcc_mv)
      BY <2>1, <2>2
    <2>6. tip_temp_c \in Nat /\ power \in Nat
      BY DEF Ranges, U16
    <2>7. power <= 2 * SetPower => (power >= SetPower <=> Bar >= 54)
      BY <2>6, BarTells
    <2>8. tip_temp_c <= 999 =>
            LET digit(k) == CHOOSE d \in 0..9 : ShownTemp[k] = Segments(d)
            IN  100 * digit(1) + 10 * digit(2) + digit(3) = tip_temp_c
      BY <2>6, TipShown
    <2> QED BY <2>3, <2>4, <2>5, <2>7, <2>8, DigitsAlwaysDiffer DEF ScreenTells
  <1> QED BY <1>1, RangesInit, RangesStep, PTL DEF Spec
=============================================================================
