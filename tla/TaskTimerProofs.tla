--------------------------- MODULE TaskTimerProofs ---------------------------
(* What the task timers promise however often the tick counter wraps, for   *)
(* every choice of the periods, the delay and the length of a pass: the tip *)
(* reading gets stale only by a deadline just before the wrap, and pauses   *)
(* keep their distance but for a deadline that has wrapped.                 *)
EXTENDS TaskTimer, TLAPS

(* The counter does not come round while it is observed.                    *)
NoWrap == MaxUptime < Word

(* What a timer stores is the counter when it was set.                      *)
ClockInv ==
    /\ pc \in {"duty", "delay", "measure", "ui", "rest"}
    /\ uptime \in 0..MaxUptime
    /\ start \in [Tasks -> Nat] /\ since \in [Tasks -> Nat]
    /\ \A t \in Tasks : start[t] = since[t] % Word /\ since[t] <= uptime
    /\ waiting \in [Tasks -> BOOLEAN]

(* The deadline after the last measurement wraps ...                        *)
Wraps == (measured % Word) + DutyPeriod >= Word

(* ... or lies so far before the wrap that a pass cannot step over it.      *)
Caught == (measured + DutyPeriod) % Word < Word - MaxPass

(* Each stage of c_update_duty has its own bound on the time since the last *)
(* measurement.  A timer whose deadline wraps is over at its first test.    *)
FreshInv ==
    /\ measured \in Nat /\ measured <= uptime
    /\ pc = "duty" /\ ~waiting["duty"] => measured = uptime
    /\ pc # "duty" => waiting["duty"]
    /\ waiting["duty"] => since["duty"] = measured
    /\ Wraps => pc \notin {"ui", "rest"} /\ (pc = "duty" => uptime = measured)
    /\ Caught =>
         /\ pc \in {"ui", "rest"} => uptime - measured <= DutyPeriod
         /\ pc \in {"duty", "delay"} => uptime - measured <= DutyPeriod + MaxPass
         /\ pc = "measure" => uptime - measured <= DutyPeriod + MaxPass + OffDelay

(* The time that a pause ends no sooner than.                               *)
SpacedInv ==
    ~Wraps =>
        /\ pc = "delay" => uptime - measured > DutyPeriod
        /\ pc = "measure" => uptime - measured > DutyPeriod + OffDelay

-----------------------------------------------------------------------------
(* A counter that wraps                                                     *)

(* Modulo does nothing to a number below the modulus.                       *)
LEMMA BelowWord ==
    ASSUME NEW n \in Nat, n < Word PROVE n % Word = n
  BY TicksAssumption

LEMMA Turns ==
    ASSUME NEW n \in Nat
    PROVE  \E q \in Nat : n = Word * q + (n % Word) /\ n % Word \in 0..Word - 1
  <1> DEFINE q == n \div Word
  <1>1. q \in Int /\ n = Word * q + (n % Word) /\ n % Word \in 0..Word - 1
    BY TicksAssumption
  <1> HIDE DEF q
  <1>2. q >= 0
    <2>1. ASSUME q < 0 PROVE Word * q <= -Word
      <3>1. -q >= 1 /\ Word * q = -(Word * (-q))
        BY <1>1, <2>1, TicksAssumption
      <3>2. Word * (-q) >= Word
        BY <1>1, <3>1, TicksAssumption
      <3> QED BY <1>1, <3>1, <3>2, TicksAssumption
    <2> QED BY <1>1, <2>1, TicksAssumption
  <1> QED BY <1>1, <1>2

(* A number is one turn, and one place in it.                               *)
LEMMA OneTurn ==
    ASSUME NEW p \in Int, NEW q \in Int,
           NEW r \in 0..Word - 1, NEW s \in 0..Word - 1,
           Word * p + r = Word * q + s
    PROVE  r = s
  <1>1. Word * (p - q) = s - r
    <2>1. Word * (p - q) = Word * p - Word * q
      BY TicksAssumption
    <2> QED BY <2>1, TicksAssumption
  <1>2. CASE p > q
    <2>1. Word * (p - q) >= Word
      BY <1>2, TicksAssumption
    <2> QED BY <1>1, <2>1, TicksAssumption
  <1>3. CASE p < q
    <2>1. Word * (q - p) >= Word /\ Word * (q - p) = -(Word * (p - q))
      BY <1>3, TicksAssumption
    <2> QED BY <1>1, <2>1, TicksAssumption
  <1>4. CASE p = q
    BY <1>4, TicksAssumption
  <1> QED BY <1>2, <1>3, <1>4

(* Within a turn the counter goes with the time ...                         *)
LEMMA SameTurn ==
    ASSUME NEW m \in Nat, NEW d \in Nat, (m % Word) + d < Word
    PROVE  (m + d) % Word = (m % Word) + d
  <1>1. PICK q \in Nat : m = Word * q + (m % Word) /\ m % Word \in 0..Word - 1
    BY Turns
  <1>2. PICK p \in Nat : m + d = Word * p + ((m + d) % Word)
                         /\ (m + d) % Word \in 0..Word - 1
    BY Turns
  <1>3. Word * q + ((m % Word) + d) = Word * p + ((m + d) % Word)
    <2> DEFINE r == m % Word  s == (m + d) % Word  a == Word * q  b == Word * p
    <2>1. a \in Int /\ b \in Int /\ r \in Int /\ s \in Int /\ m = a + r /\ m + d = b + s
      BY <1>1, <1>2, TicksAssumption
    <2> HIDE DEF r, s, a, b
    <2>2. a + (r + d) = b + s
      BY <2>1
    <2> QED BY <2>2 DEF r, s, a, b
  <1>4. (m % Word) + d \in 0..Word - 1
    BY <1>1, TicksAssumption
  <1> QED BY <1>2, <1>3, <1>4, OneTurn

(* ... and never goes ahead of it.                                          *)
LEMMA NeverAhead ==
    ASSUME NEW m \in Nat, NEW u \in Nat, m <= u
    PROVE  u - m >= (u % Word) - (m % Word)
  <1>1. PICK q \in Nat : m = Word * q + (m % Word) /\ m % Word \in 0..Word - 1
    BY Turns
  <1>2. PICK p \in Nat : u = Word * p + (u % Word) /\ u % Word \in 0..Word - 1
    BY Turns
  <1> DEFINE r == m % Word  s == u % Word
  <1>3. /\ m = Word * q + r /\ r \in 0..Word - 1
        /\ u = Word * p + s /\ s \in 0..Word - 1
    BY <1>1, <1>2
  <1> HIDE DEF r, s
  <1>4. Word * p - Word * q = Word * (p - q) /\ Word * p \in Int /\ Word * q \in Int
    BY TicksAssumption
  <1>5. p >= q
    <2>1. ASSUME p < q PROVE FALSE
      <3>1. Word * (q - p) >= Word /\ Word * (q - p) = Word * q - Word * p
        BY <2>1, TicksAssumption
      <3> QED BY <1>3, <1>4, <3>1, TicksAssumption
    <2> QED BY <2>1
  <1>6. Word * (p - q) >= 0
    BY <1>5, TicksAssumption
  <1>7. u - m >= s - r
    BY <1>3, <1>4, <1>6, TicksAssumption
  <1> QED BY <1>7 DEF r, s

(* The deadline of a timer set at m.                                        *)
LEMMA Place ==
    ASSUME NEW m \in Nat PROVE m % Word \in Nat /\ m % Word < Word
  BY TicksAssumption

LEMMA Deadline ==
    ASSUME NEW m \in Nat, (m % Word) + DutyPeriod < Word
    PROVE  /\ ((m % Word) + DutyPeriod) % Word = (m % Word) + DutyPeriod
           /\ (m + DutyPeriod) % Word = (m % Word) + DutyPeriod
  <1>1. DutyPeriod \in Nat /\ (m % Word) + DutyPeriod \in Nat
    BY Place, TicksAssumption
  <1>2. ((m % Word) + DutyPeriod) % Word = (m % Word) + DutyPeriod
    BY <1>1, BelowWord
  <1>3. (m + DutyPeriod) % Word = (m % Word) + DutyPeriod
    BY <1>1, SameTurn
  <1> QED BY <1>2, <1>3

LEMMA OnceRound ==
    ASSUME NEW n \in Nat, n >= Word, n < Word + Word
    PROVE  n % Word = n - Word
  <1>1. n - Word \in 0..Word - 1
    BY TicksAssumption
  <1>2. PICK q \in Nat : n = Word * q + (n % Word) /\ n % Word \in 0..Word - 1
    BY Turns
  <1>3. Word * 1 + (n - Word) = Word * q + (n % Word)
    BY <1>2, TicksAssumption
  <1> QED BY <1>1, <1>2, <1>3, OneTurn

LEMMA WrappedDeadline ==
    ASSUME NEW m \in Nat, (m % Word) + DutyPeriod >= Word
    PROVE  ((m % Word) + DutyPeriod) % Word = ((m % Word) + DutyPeriod) - Word
  <1> DEFINE n == (m % Word) + DutyPeriod
  <1>1. n \in Nat /\ n >= Word /\ n < Word + Word
    BY Place, TicksAssumption
  <1> HIDE DEF n
  <1>2. n % Word = n - Word
    BY <1>1, OnceRound
  <1> QED BY <1>2, Zenon DEF n

-----------------------------------------------------------------------------
(* timer_expired, of the timer set after the measurement at m               *)

LEMMA WrappedIsOver ==
    ASSUME NEW m \in Nat, (m % Word) + DutyPeriod >= Word
    PROVE  m % Word > ((m % Word) + DutyPeriod) % Word
  <1> DEFINE r == m % Word  n == (r + DutyPeriod) % Word
  <1>1. n = (r + DutyPeriod) - Word
    BY WrappedDeadline, Zenon
  <1>2. r \in Nat
    BY Place
  <1> HIDE DEF r, n
  <1>3. r > n
    BY <1>1, <1>2, TicksAssumption
  <1> QED BY <1>3, Zenon DEF n, r

LEMMA OverIsLate ==
    ASSUME NEW m \in Nat, NEW u \in Nat, m <= u,
           (m % Word) + DutyPeriod < Word,
           u % Word > ((m % Word) + DutyPeriod) % Word
    PROVE  u - m > DutyPeriod
  <1> DEFINE r == m % Word  s == u % Word  n == (r + DutyPeriod) % Word
  <1>1. r \in Nat /\ s \in Nat
    BY Place
  <1>2. n = r + DutyPeriod
    BY Deadline, Zenon
  <1>3. u - m >= s - r
    BY NeverAhead, Zenon
  <1>4. s > n
    BY Zenon
  <1> HIDE DEF r, s, n
  <1> QED BY <1>1, <1>2, <1>3, <1>4, TicksAssumption

LEMMA CaughtInTime ==
    ASSUME NEW m \in Nat, NEW u \in Nat, m <= u,
           (m % Word) + DutyPeriod < Word,
           (m + DutyPeriod) % Word < Word - MaxPass,
           u - m <= DutyPeriod + MaxPass,
           ~(u % Word > ((m % Word) + DutyPeriod) % Word)
    PROVE  u - m <= DutyPeriod
  <1> DEFINE r == m % Word  d == u - m  s == u % Word
             n == (r + DutyPeriod) % Word  k == (m + DutyPeriod) % Word
  <1>1. r \in Nat /\ d \in Nat /\ u = m + d
    BY Place
  <1>2. n = r + DutyPeriod /\ k = r + DutyPeriod
    BY Deadline, Zenon
  <1>3. k < Word - MaxPass /\ d <= DutyPeriod + MaxPass /\ ~(s > n)
    BY Zenon
  <1>4. ASSUME r + d < Word PROVE s = r + d
    <2>1. (m % Word) + d < Word
      BY <1>4
    <2> HIDE DEF d
    <2> QED BY <1>1, <2>1, SameTurn
  <1> HIDE DEF r, d, s, n, k
  <1>5. r + d < Word
    BY <1>1, <1>2, <1>3, TicksAssumption
  <1>6. d <= DutyPeriod
    BY <1>1, <1>2, <1>3, <1>4, <1>5, TicksAssumption
  <1> QED BY <1>6, Zenon DEF d

-----------------------------------------------------------------------------
(* The invariants                                                           *)

LEMMA ClockInit == Init => ClockInv
  BY BelowWord, TicksAssumption DEF Init, ClockInv

LEMMA ClockStep ==
    ASSUME ClockInv, [Next]_vars
    PROVE  ClockInv'
  <1> USE TicksAssumption DEF ClockInv
  <1>1. ASSUME NEW t \in Tasks, Start(t) PROVE ClockInv'
    <2>1. Now \in Nat
      BY DEF Now
    <2>2. /\ start' = [start EXCEPT ![t] = Now]
          /\ since' = [since EXCEPT ![t] = uptime]
          /\ waiting' = [waiting EXCEPT ![t] = TRUE]
          /\ UNCHANGED <<pc, uptime>>
      BY <1>1 DEF Start, TimerSet
    <2>3. waiting' \in [Tasks -> BOOLEAN]
      BY <2>2
    <2>4. start' \in [Tasks -> Nat] /\ since' \in [Tasks -> Nat]
      BY <2>1, <2>2
    <2>5. \A u \in Tasks : start'[u] = since'[u] % Word /\ since'[u] <= uptime'
      <3>1. start'[t] = since'[t] % Word /\ since'[t] <= uptime'
        BY <2>2 DEF Now
      <3>2. ASSUME NEW u \in Tasks, u # t
            PROVE  start'[u] = since'[u] % Word /\ since'[u] <= uptime'
        <4>1. start'[u] = start[u] /\ since'[u] = since[u] /\ uptime' = uptime
          BY <2>2, <3>2
        <4> QED BY <4>1
      <3> QED BY <3>1, <3>2
    <2> QED BY <2>2, <2>3, <2>4, <2>5
  <1>2. CASE DutyReturn
    BY <1>2 DEF DutyReturn
  <1>3. CASE DutyExpired
    BY <1>3 DEF DutyExpired
  <1>4. CASE DutyDelay
    BY <1>4 DEF DutyDelay, Elapse
  <1>5. CASE DutyMeasure
    BY <1>5 DEF DutyMeasure
  <1>6. CASE UiReturn
    BY <1>6 DEF UiReturn
  <1>7. CASE UiDraw
    BY <1>7 DEF UiDraw
  <1>8. CASE Rest
    BY <1>8 DEF Rest, Elapse
  <1>9. CASE UNCHANGED vars
    BY <1>9 DEF vars
  <1> QED BY <1>1, <1>2, <1>3, <1>4, <1>5, <1>6, <1>7, <1>8, <1>9 DEF Next, Timing

(* What a poll of c_update_duty's timer compares.                           *)
LEMMA DutyPoll ==
    ASSUME ClockInv, FreshInv, waiting["duty"]
    PROVE  /\ Expired("duty") <=>
                uptime % Word > ((measured % Word) + DutyPeriod) % Word
           /\ uptime \in Nat
  <1>1. start["duty"] = measured % Word /\ uptime \in Nat
    BY DEF ClockInv, FreshInv, Tasks
  <1> QED BY <1>1 DEF Expired, Now, Period

(* The steps that leave the duty task and the clock alone.                  *)
LEMMA FreshKept ==
    ASSUME FreshInv, UNCHANGED <<pc, uptime, measured>>,
           since'["duty"] = since["duty"], waiting'["duty"] = waiting["duty"]
    PROVE  FreshInv'
  BY DEF FreshInv, Wraps, Caught

LEMMA FreshStep ==
    ASSUME ClockInv, ClockInv', FreshInv, [Next]_vars
    PROVE  FreshInv'
  <1> USE TicksAssumption
  <1>0. uptime \in Nat /\ uptime' \in Nat /\ "duty" \in Tasks /\ measured \in Nat
    BY DEF ClockInv, Tasks, FreshInv
  <1>1. ASSUME Start("duty") PROVE FreshInv'
    <2>1. /\ since'["duty"] = uptime /\ waiting'["duty"]
          /\ UNCHANGED <<pc, uptime, measured>> /\ pc = "duty"
          /\ ~waiting["duty"]
      BY <1>0, <1>1 DEF Start, TimerSet, ClockInv
    <2>2. (Wraps' <=> Wraps) /\ (Caught' <=> Caught)
      BY <2>1 DEF Wraps, Caught
    <2> QED BY <1>0, <2>1, <2>2 DEF FreshInv
  <1>2. ASSUME Start("ui") PROVE FreshInv'
    <2>1. since'["duty"] = since["duty"] /\ UNCHANGED <<pc, uptime, measured>>
      BY <1>0, <1>2 DEF Start, TimerSet, ClockInv
    <2>2. waiting'["duty"] = waiting["duty"]
      BY <1>0, <1>2 DEF Start, ClockInv
    <2> QED BY <2>1, <2>2, FreshKept
  <1>3. CASE DutyReturn
    <2>1. /\ pc = "duty" /\ waiting["duty"] /\ ~Expired("duty")
          /\ pc' \in {"ui", "rest"}
          /\ UNCHANGED <<uptime, start, waiting, since, measured>>
      BY <1>3 DEF DutyReturn
    <2>2. ~(uptime % Word > ((measured % Word) + DutyPeriod) % Word)
      BY <2>1, DutyPoll
    <2>3. ~Wraps
      <3>1. ASSUME Wraps PROVE FALSE
        <4>1. uptime = measured
          BY <2>1, <3>1 DEF FreshInv
        <4> QED BY <1>0, <2>2, <3>1, <4>1, WrappedIsOver DEF Wraps
      <3> QED BY <3>1
    <2>4. (measured % Word) + DutyPeriod < Word
      BY <1>0, <2>3 DEF Wraps
    <2>5. ASSUME Caught PROVE uptime - measured <= DutyPeriod
      <3>1. measured <= uptime /\ uptime - measured <= DutyPeriod + MaxPass
        BY <2>1, <2>5 DEF FreshInv
      <3> QED BY <1>0, <2>2, <2>4, <2>5, <3>1, CaughtInTime DEF Caught
    <2>6. (Wraps' <=> Wraps) /\ (Caught' <=> Caught)
      BY <2>1 DEF Wraps, Caught
    <2> QED BY <1>0, <2>1, <2>3, <2>5, <2>6 DEF FreshInv
  <1>4. CASE DutyExpired
    <2>1. (Wraps' <=> Wraps) /\ (Caught' <=> Caught)
      BY <1>4 DEF DutyExpired, Wraps, Caught
    <2> QED BY <1>0, <1>4, <2>1 DEF DutyExpired, FreshInv
  <1>5. CASE DutyDelay
    <2>1. (Wraps' <=> Wraps) /\ (Caught' <=> Caught)
      BY <1>5 DEF DutyDelay, Wraps, Caught
    <2> QED BY <1>0, <1>5, <2>1 DEF DutyDelay, Elapse, FreshInv
  <1>6. CASE DutyMeasure
    BY <1>0, <1>6 DEF DutyMeasure, ClockInv, FreshInv
  <1>7. CASE UiReturn
    <2>1. (Wraps' <=> Wraps) /\ (Caught' <=> Caught)
      BY <1>7 DEF UiReturn, Wraps, Caught
    <2> QED BY <1>0, <1>7, <2>1 DEF UiReturn, FreshInv
  <1>8. CASE UiDraw
    <2>1. /\ waiting'["duty"] = waiting["duty"] /\ since'["duty"] = since["duty"]
          /\ UNCHANGED <<pc, uptime, measured>>
      BY <1>0, <1>8 DEF UiDraw, ClockInv
    <2> QED BY <2>1, FreshKept
  <1>9. CASE Rest
    <2>1. (Wraps' <=> Wraps) /\ (Caught' <=> Caught)
      BY <1>9 DEF Rest, Wraps, Caught
    <2> QED BY <1>0, <1>9, <2>1 DEF Rest, Elapse, FreshInv
  <1>10. CASE UNCHANGED vars
    BY <1>10, FreshKept DEF vars
  <1>11. (\E t \in Tasks : Start(t)) => Start("duty") \/ Start("ui")
    BY DEF Tasks
  <1> QED BY <1>1, <1>2, <1>3, <1>4, <1>5, <1>6, <1>7, <1>8, <1>9, <1>10, <1>11
          DEF Next, Timing

LEMMA SpacedStep ==
    ASSUME ClockInv, FreshInv, SpacedInv, [Next]_vars
    PROVE  SpacedInv'
  <1> USE TicksAssumption
  <1>0. uptime \in Nat /\ measured \in Nat /\ measured <= uptime
    BY DEF ClockInv, FreshInv
  <1>1. CASE DutyExpired
    <2>1. waiting["duty"] /\ Expired("duty") /\ pc' = "delay"
          /\ UNCHANGED <<uptime, measured>>
      BY <1>1 DEF DutyExpired
    <2>2. uptime % Word > ((measured % Word) + DutyPeriod) % Word
      BY <2>1, DutyPoll
    <2>3. ASSUME ~Wraps PROVE uptime - measured > DutyPeriod
      <3>1. (measured % Word) + DutyPeriod < Word
        BY <1>0, <2>3 DEF Wraps
      <3> QED BY <1>0, <2>2, <3>1, OverIsLate
    <2> QED BY <2>1, <2>3 DEF SpacedInv, Wraps
  <1>2. CASE DutyDelay
    <2>1. Wraps' <=> Wraps
      BY <1>2 DEF DutyDelay, Wraps
    <2> QED BY <1>0, <1>2, <2>1 DEF DutyDelay, Elapse, SpacedInv
  <1>3. ASSUME pc' \notin {"delay", "measure"} PROVE SpacedInv'
    BY <1>3 DEF SpacedInv
  <1>4. ASSUME UNCHANGED <<pc, uptime, measured>> PROVE SpacedInv'
    BY <1>4 DEF SpacedInv, Wraps
  <1>5. ASSUME NEW t \in Tasks, Start(t) PROVE SpacedInv'
    BY <1>4, <1>5 DEF Start
  <1>6. CASE DutyReturn
    BY <1>3, <1>6 DEF DutyReturn
  <1>7. CASE DutyMeasure
    BY <1>3, <1>7 DEF DutyMeasure
  <1>8. CASE UiReturn
    BY <1>3, <1>8 DEF UiReturn
  <1>9. CASE UiDraw
    BY <1>4, <1>9 DEF UiDraw
  <1>10. CASE Rest
    BY <1>3, <1>10 DEF Rest
  <1>11. CASE UNCHANGED vars
    BY <1>4, <1>11 DEF vars
  <1> QED BY <1>1, <1>2, <1>5, <1>6, <1>7, <1>8, <1>9, <1>10, <1>11
          DEF Next, Timing

(* A measurement is made at the end of the pause.                           *)
LEMMA MeasuredLate ==
    ASSUME ClockInv, FreshInv, SpacedInv, Next, measured' # measured
    PROVE  measured' - measured > DutyPeriod + OffDelay \/ Wraps
  <1>1. DutyMeasure
    BY DEF Next, Timing, Start, DutyReturn, DutyExpired, DutyDelay,
           UiReturn, UiDraw, Rest
  <1> QED BY <1>1 DEF DutyMeasure, SpacedInv

-----------------------------------------------------------------------------
LEMMA FreshInit == Init => FreshInv /\ SpacedInv
  BY TicksAssumption DEF Init, FreshInv, SpacedInv, Tasks

LEMMA Invariants == Spec => [](ClockInv /\ FreshInv /\ SpacedInv)
  <1>1. ClockInv /\ [Next]_vars => ClockInv'
    BY ClockStep
  <1>2. ClockInv /\ ClockInv' /\ FreshInv /\ [Next]_vars => FreshInv'
    BY FreshStep
  <1>3. ClockInv /\ FreshInv /\ SpacedInv /\ [Next]_vars => SpacedInv'
    BY SpacedStep
  <1> QED BY ClockInit, FreshInit, <1>1, <1>2, <1>3, PTL DEF Spec

(* However often the counter wraps, the tip reading gets stale only if the  *)
(* deadline after it is within a pass of the wrap (main.c:32).              *)
THEOREM AlwaysStaleOnlyByWrap == Spec => []StaleOnlyByWrap
  <1>1. ClockInv /\ FreshInv => StaleOnlyByWrap
    <2> SUFFICES ASSUME ClockInv, FreshInv PROVE StaleOnlyByWrap
      OBVIOUS
    <2>1. measured + DutyPeriod \in Nat
      BY TicksAssumption DEF FreshInv
    <2>2. ~Caught => (measured + DutyPeriod) % Word >= Word - MaxPass
      BY <2>1, Place, TicksAssumption DEF Caught
    <2>3. Caught => TipReadingFresh
      BY TicksAssumption DEF ClockInv, FreshInv, TipReadingFresh
    <2> QED BY <2>2, <2>3 DEF StaleOnlyByWrap
  <1> QED BY <1>1, Invariants, PTL

(* However often the counter wraps, two pauses are a period and a delay     *)
(* apart, unless the deadline between them has wrapped (main.c:32).         *)
THEOREM AlwaysSpaced == Spec => PausesSpaced
  <1>1. ClockInv /\ FreshInv /\ SpacedInv /\ [Next]_vars =>
          [measured' # measured =>
             \/ measured' - measured > DutyPeriod + OffDelay
             \/ (measured % Word) + DutyPeriod >= Word]_vars
    BY MeasuredLate DEF Wraps
  <1> QED BY <1>1, Invariants, PTL DEF Spec, PausesSpaced

(* As long as the counter does not come round, the tip reading is never     *)
(* older than one period, one pass and the delay: a deadline that the loop  *)
(* might step over is later than that.                                      *)
THEOREM TipAlwaysFresh == NoWrap => (Spec => []TipReadingFresh)
  <1> SUFFICES ASSUME NoWrap PROVE Spec => []TipReadingFresh
    OBVIOUS
  <1>1. ClockInv /\ FreshInv /\ StaleOnlyByWrap => TipReadingFresh
    <2> SUFFICES ASSUME ClockInv, FreshInv, StaleOnlyByWrap, ~TipReadingFresh
                 PROVE  FALSE
      OBVIOUS
    <2>1. /\ measured \in Nat /\ uptime \in Nat /\ uptime < Word
          /\ uptime - measured > DutyPeriod + MaxPass + OffDelay
      BY TicksAssumption DEF ClockInv, FreshInv, NoWrap, TipReadingFresh
    <2>2. measured + DutyPeriod < Word - MaxPass
      BY <2>1, TicksAssumption
    <2>3. (measured + DutyPeriod) % Word = measured + DutyPeriod
      BY <2>1, <2>2, BelowWord, TicksAssumption
    <2>4. (measured + DutyPeriod) % Word >= Word - MaxPass
      BY DEF StaleOnlyByWrap
    <2> DEFINE k == (measured + DutyPeriod) % Word
    <2>5. k = measured + DutyPeriod /\ k >= Word - MaxPass
      BY <2>3, <2>4
    <2> HIDE DEF k
    <2> QED BY <2>1, <2>2, <2>5, TicksAssumption
  <1> QED BY <1>1, AlwaysStaleOnlyByWrap, Invariants, PTL
=============================================================================
