------------------------- MODULE HeaterControlProofs -------------------------
(* Proofs about HeaterControl, for every range of set temperatures, every   *)
(* bound on the detents, every set of duty cycles and of sensors that the   *)
(* module's assumptions admit.                                              *)
EXTENDS HeaterControl, TLAPS

(* A duty cycle gives a pulse width that fits the compare register.         *)
LEMMA PulseNat ==
    ASSUME NEW d \in 0..100
    PROVE  Pulse(d) \in Nat
<1>1. TimMax \in Nat
  BY DutyAssumption
<1>2. d \in Nat
  OBVIOUS
<1>3. d * TimMax \in Nat
  BY <1>1, <1>2
<1> QED
  BY <1>3 DEF Pulse

(* Whatever uint16_t value the sum takes, the clamps bring it into range.   *)
LEMMA NewSetTempInRange ==
    ASSUME NEW t \in MinSet..MaxSet, NEW n \in Int
    PROVE  NewSetTemp(t, n) \in MinSet..MaxSet
<1>1. /\ MinSet \in Nat /\ MaxSet \in Nat /\ MinSet <= MaxSet
      /\ Word \in Nat \ {0} /\ FastStep \in Nat
  BY SetTempAssumption
<1>2. SetStep(n) \in Int
  BY <1>1 DEF SetStep
<1>3. (t + SetStep(n)) % Word \in Nat
  BY <1>1, <1>2
<1> QED
  BY <1>1, <1>3 DEF NewSetTemp, ClampSet

-----------------------------------------------------------------------------
(* The flags hold Booleans.                                                 *)
LEMMA FlagsStep == FlagsOK /\ [Next]_vars => FlagsOK'
<1> SUFFICES ASSUME FlagsOK, [Next]_vars
             PROVE  FlagsOK'
  OBVIOUS
<1> USE DEF FlagsOK, loopVars, timerVars, history
<1>1. CASE Sample
  <2>1. btn' \in [now : BOOLEAN, prev : BOOLEAN]
    BY <1>1 DEF Sample
  <2> QED
    BY <1>1, <2>1, Zenon DEF Sample
<1>2. CASE DutyWait \/ DutyOff \/ DutyMeasure
  BY <1>2, Zenon DEF DutyWait, DutyOff, DutyMeasure
<1>3. CASE MenuRead \/ MenuSet
  BY <1>3, Zenon DEF MenuRead, MenuSet
<1>4. CASE MenuButton
  BY <1>4, Zenon DEF MenuButton
<1>5. CASE HeatEnabled
  BY <1>5, Zenon DEF HeatEnabled
<1>6. CASE HeatDisabled
  BY <1>6, Zenon DEF HeatDisabled
<1>7. CASE HeatEncoder
  BY <1>7, Zenon DEF HeatEncoder
<1>8. CASE HeatNoPress \/ HeatPressOn \/ HeatPressOff
  BY <1>8, Zenon DEF HeatNoPress, HeatPressOn, HeatPressOff
<1>9. CASE Environment
  BY <1>9, Zenon DEF Environment, TimerUpdate, TimerMatch, Detent, Press
<1>10. CASE UNCHANGED vars
  BY <1>10, Zenon DEF vars
<1> QED
  BY <1>1, <1>2, <1>3, <1>4, <1>5, <1>6, <1>7, <1>8, <1>9, <1>10
  DEF Next, MainLoop

(* The other variables stay in their ranges.                                *)
LEMMA ValuesStep == FlagsOK /\ ValuesOK /\ [Next]_vars => ValuesOK'
<1> SUFFICES ASSUME FlagsOK, ValuesOK, [Next]_vars
             PROVE  ValuesOK'
  OBVIOUS
<1> USE DEF ValuesOK, PCs, loopVars, timerVars, history
<1>1. CASE Sample
  BY <1>1 DEF Sample
<1>2. CASE DutyWait \/ DutyOff
  BY <1>2 DEF DutyWait, DutyOff
<1>3. CASE DutyMeasure
  BY <1>3, DutyAssumption DEF DutyMeasure
<1>4. CASE MenuRead
  BY <1>4 DEF MenuRead
<1>5. CASE MenuSet
  <2>1. setTemp' \in MinSet..MaxSet
    BY <1>5, NewSetTempInRange, SetTempAssumption DEF MenuSet
  <2>2. 0 \in -MaxDetents..MaxDetents
    BY SetTempAssumption
  <2> QED
    BY <1>5, <2>1, <2>2 DEF MenuSet
<1>6. CASE MenuButton
  BY <1>6 DEF MenuButton
<1>7. CASE HeatEnabled
  BY <1>7, PulseNat DEF HeatEnabled
<1>8. CASE HeatDisabled
  BY <1>8 DEF HeatDisabled
<1>9. CASE HeatEncoder
  BY <1>9 DEF HeatEncoder
<1>10. CASE HeatNoPress \/ HeatPressOn \/ HeatPressOff
  BY <1>10 DEF HeatNoPress, HeatPressOn, HeatPressOff, PulseStart
<1>11. CASE TimerUpdate \/ TimerMatch \/ Press
  BY <1>11 DEF TimerUpdate, TimerMatch, Press, PulseStart
<1>12. CASE Detent
  BY <1>12 DEF Detent
<1>13. CASE UNCHANGED vars
  BY <1>13 DEF vars
<1> QED
  BY <1>1, <1>2, <1>3, <1>4, <1>5, <1>6, <1>7, <1>8, <1>9, <1>10, <1>11,
     <1>12, <1>13 DEF Next, MainLoop, Environment

(* Type correctness: in particular the set temperature stays within its     *)
(* limits whatever the encoder does.                                        *)
THEOREM TypeCorrect == Spec => []TypeOK
<1>1. Init => FlagsOK
  <2>1. [now |-> TRUE, prev |-> TRUE] \in [now : BOOLEAN, prev : BOOLEAN]
    OBVIOUS
  <2> QED
    BY <2>1, Zenon DEF Init, FlagsOK
<1>2. Init => ValuesOK
  BY SetTempAssumption DEF Init, ValuesOK, PCs
<1>3. TypeOK /\ [Next]_vars => TypeOK'
  BY FlagsStep, ValuesStep DEF TypeOK
<1> QED
  BY <1>1, <1>2, <1>3, PTL DEF Spec, TypeOK

-----------------------------------------------------------------------------
(* The menu is cold: MenuIsCold is inductive, since opening the menu takes  *)
(* the rail and the pulse width down in the same pass and none of the steps *)
(* taken in the menu raises them.                                           *)
THEOREM MenuAlwaysCold == Spec => []MenuIsCold
<1> USE DEF loopVars, timerVars, history
<1>1. Init => MenuIsCold
  BY DEF Init, MenuIsCold
<1>2. TypeOK /\ MenuIsCold /\ [Next]_vars => MenuIsCold'
  <2> SUFFICES ASSUME TypeOK, MenuIsCold, [Next]_vars
               PROVE  MenuIsCold'
    OBVIOUS
  <2> USE DEF MenuIsCold
  <2>1. CASE Sample \/ DutyWait \/ DutyOff \/ DutyMeasure
    BY <2>1 DEF Sample, DutyWait, DutyOff, DutyMeasure
  <2>2. CASE MenuRead \/ MenuSet \/ MenuButton
    BY <2>2 DEF MenuRead, MenuSet, MenuButton
  <2>3. CASE HeatEnabled \/ HeatDisabled
    BY <2>3 DEF HeatEnabled, HeatDisabled
  <2>4. CASE HeatEncoder
    BY <2>4 DEF HeatEncoder
  <2>5. CASE HeatNoPress \/ HeatPressOn \/ HeatPressOff
    BY <2>5 DEF HeatNoPress, HeatPressOn, HeatPressOff
  <2>6. CASE Environment
    BY <2>6 DEF Environment, TimerUpdate, TimerMatch, Detent, Press
  <2>7. CASE UNCHANGED vars
    BY <2>7 DEF vars
  <2> QED
    BY <2>1, <2>2, <2>3, <2>4, <2>5, <2>6, <2>7 DEF Next, MainLoop
<1> QED
  BY <1>1, <1>2, TypeCorrect, PTL DEF Spec

-----------------------------------------------------------------------------
(* RailNeedsPress is not inductive: a pass with enabled set raises the rail *)
(* without looking at armed.  What makes it so is that on the heating       *)
(* screen enabled itself implies that a press came after the menu.  A press *)
(* in the pass that opens the menu enables the heater without counting;     *)
(* there it is MenuIsCold that keeps the rail down.                         *)
EnabledNeedsPress ==
    /\ RailNeedsPress
    /\ state = "HEATING" /\ enabled => armed

(* The rail is only up after a press on the heating screen.                 *)
THEOREM RailAlwaysNeedsPress == Spec => []RailNeedsPress
<1> USE DEF loopVars, timerVars, history
<1>1. Init => EnabledNeedsPress
  BY DEF Init, EnabledNeedsPress, RailNeedsPress
<1>2. TypeOK /\ MenuIsCold /\ EnabledNeedsPress /\ [Next]_vars
        => EnabledNeedsPress'
  <2> SUFFICES ASSUME TypeOK, MenuIsCold, EnabledNeedsPress, [Next]_vars
               PROVE  EnabledNeedsPress'
    OBVIOUS
  <2> USE DEF EnabledNeedsPress, RailNeedsPress
  <2>1. CASE Sample \/ DutyWait \/ DutyOff \/ DutyMeasure
    BY <2>1 DEF Sample, DutyWait, DutyOff, DutyMeasure
  <2>2. CASE MenuRead \/ MenuSet
    BY <2>2 DEF MenuRead, MenuSet
  <2>3. CASE MenuButton
    BY <2>3, Zenon DEF MenuButton
  <2>4. CASE HeatEnabled
    BY <2>4 DEF HeatEnabled
  <2>5. CASE HeatDisabled
    BY <2>5 DEF HeatDisabled
  <2>6. CASE HeatEncoder
    BY <2>6, Zenon DEF HeatEncoder, TypeOK, FlagsOK
  <2>7. CASE HeatNoPress
    BY <2>7 DEF HeatNoPress
  <2>8. CASE HeatPressOn
    <3>1. state = "HEATING" \/ ~rail
      BY DEF TypeOK, ValuesOK, MenuIsCold
    <3> QED
      BY <2>8, <3>1, Zenon DEF HeatPressOn
  <2>9. CASE HeatPressOff
    BY <2>9 DEF HeatPressOff
  <2>10. CASE Environment
    BY <2>10 DEF Environment, TimerUpdate, TimerMatch, Detent, Press
  <2>11. CASE UNCHANGED vars
    BY <2>11 DEF vars
  <2> QED
    BY <2>1, <2>2, <2>3, <2>4, <2>5, <2>6, <2>7, <2>8, <2>9, <2>10,
       <2>11 DEF Next, MainLoop
<1>3. EnabledNeedsPress => RailNeedsPress
  BY DEF EnabledNeedsPress
<1> QED
  BY <1>1, <1>2, <1>3, TypeCorrect, MenuAlwaysCold, PTL DEF Spec

-----------------------------------------------------------------------------
(* What a pass that finds a fault leaves behind.  After the first one the   *)
(* heater is disabled unless the user pressed in that pass, and then the    *)
(* button is seen held in the next pass, so that pass cannot contain        *)
(* another press: after the second the heater stays disabled until a pass   *)
(* has taken the rail down.                                                 *)
FaultProgress ==
    /\ hotPasses <= 2
    /\ state = "MENU" => hotPasses = 0
    /\ hotPasses = 1 =>
         \/ ~enabled
         \/ pc = "top" /\ ~btn.now
         \/ pc \in {"duty", "tip", "ui"} /\ ~btn.prev
    /\ hotPasses = 2 => ~enabled /\ (pc \in {"enc", "hbtn"} => ~btn.prev)

(* However fast the user presses, a fault that lasts lets at most two       *)
(* passes in a row drive the rail.                                          *)
THEOREM FaultAlwaysEndsInTwo == Spec => []FaultDrivesAtMostTwoPasses
<1> USE DEF loopVars, timerVars, history
<1>1. Init => FaultProgress
  BY DEF Init, FaultProgress
<1>2. TypeOK /\ FaultProgress /\ [Next]_vars => FaultProgress'
  <2> SUFFICES ASSUME TypeOK, FaultProgress, [Next]_vars
               PROVE  FaultProgress'
    OBVIOUS
  <2> USE DEF FaultProgress, TypeOK, ValuesOK
  <2>1. CASE Sample
    <3>1. btn'.prev = btn.now
      BY <2>1 DEF Sample
    <3> QED
      BY <2>1, <3>1 DEF Sample
  <2>2. CASE DutyWait \/ DutyOff \/ DutyMeasure
    BY <2>2 DEF DutyWait, DutyOff, DutyMeasure
  <2>3. CASE MenuRead \/ MenuSet
    BY <2>3 DEF MenuRead, MenuSet
  <2>4. CASE MenuButton
    BY <2>4 DEF MenuButton
  <2>5. CASE HeatEnabled
    <3>1. CASE Fault
      <4>1. ~enabled'
        BY <2>5, <3>1, Zenon DEF HeatEnabled
      <4>2. hotPasses = 0 \/ (hotPasses = 1 /\ ~btn.prev)
        BY <2>5 DEF HeatEnabled
      <4> QED
        BY <2>5, <3>1, <4>1, <4>2 DEF HeatEnabled
    <3>2. CASE ~Fault
      BY <2>5, <3>2 DEF HeatEnabled
    <3> QED
      BY <3>1, <3>2
  <2>6. CASE HeatDisabled
    BY <2>6 DEF HeatDisabled
  <2>7. CASE HeatEncoder
    BY <2>7 DEF HeatEncoder
  <2>8. CASE HeatNoPress
    BY <2>8 DEF HeatNoPress
  <2>9. CASE HeatPressOn
    BY <2>9 DEF HeatPressOn, Falling
  <2>10. CASE HeatPressOff
    BY <2>10 DEF HeatPressOff
  <2>11. CASE Environment
    BY <2>11 DEF Environment, TimerUpdate, TimerMatch, Detent, Press
  <2>12. CASE UNCHANGED vars
    BY <2>12 DEF vars
  <2> QED
    BY <2>1, <2>2, <2>3, <2>4, <2>5, <2>6, <2>7, <2>8, <2>9, <2>10,
       <2>11, <2>12 DEF Next, MainLoop
<1>3. FaultProgress => FaultDrivesAtMostTwoPasses
  BY DEF FaultProgress, FaultDrivesAtMostTwoPasses
<1> QED
  BY <1>1, <1>2, <1>3, TypeCorrect, PTL DEF Spec

-----------------------------------------------------------------------------
(* While c_update_duty waits to measure, the preload is zero, and a running *)
(* timer whose active compare value is zero has its output low.             *)
PulseInv ==
    /\ pc = "tip" => cvr = 0
    /\ cen /\ ccr = 0 => gate = "low"

(* The tip is never sampled during a pulse of the running timer.            *)
THEOREM AlwaysSampledBetweenPulses == Spec => SampledBetweenPulses
<1> USE DEF loopVars, timerVars, history
<1>1. Init => PulseInv
  BY DEF Init, PulseInv
<1>2. TypeOK /\ PulseInv /\ [Next]_vars => PulseInv'
  <2> SUFFICES ASSUME TypeOK, PulseInv, [Next]_vars
               PROVE  PulseInv'
    OBVIOUS
  <2> USE DEF PulseInv, TypeOK, ValuesOK
  <2>1. CASE Sample \/ DutyWait \/ DutyMeasure
    BY <2>1 DEF Sample, DutyWait, DutyMeasure
  <2>2. CASE DutyOff
    BY <2>2 DEF DutyOff
  <2>3. CASE MenuRead \/ MenuSet \/ MenuButton
    BY <2>3 DEF MenuRead, MenuSet, MenuButton
  <2>4. CASE HeatEnabled \/ HeatDisabled \/ HeatEncoder
    BY <2>4 DEF HeatEnabled, HeatDisabled, HeatEncoder
  <2>5. CASE HeatNoPress \/ HeatPressOff
    BY <2>5 DEF HeatNoPress, HeatPressOff
  <2>6. CASE HeatPressOn
    BY <2>6 DEF HeatPressOn, PulseStart
  <2>7. CASE TimerUpdate \/ TimerMatch
    BY <2>7 DEF TimerUpdate, TimerMatch, PulseStart
  <2>8. CASE Detent \/ Press
    BY <2>8 DEF Detent, Press
  <2>9. CASE UNCHANGED vars
    BY <2>9 DEF vars
  <2> QED
    BY <2>1, <2>2, <2>3, <2>4, <2>5, <2>6, <2>7, <2>8, <2>9
    DEF Next, MainLoop, Environment
<1>3. PulseInv /\ [Next]_vars
        => [pc = "tip" /\ pc' = "ui" => ~(cen /\ gate = "high")]_vars
  <2> SUFFICES ASSUME PulseInv, Next, pc = "tip", pc' = "ui"
               PROVE  ~(cen /\ gate = "high")
    OBVIOUS
  <2>1. DutyMeasure
    BY DEF Next, MainLoop, Environment, Sample, DutyWait, DutyOff, MenuRead,
           MenuSet, MenuButton, HeatEnabled, HeatDisabled, HeatEncoder,
           HeatNoPress, HeatPressOn, HeatPressOff, TimerUpdate, TimerMatch,
           Detent, Press
  <2> QED
    BY <2>1 DEF DutyMeasure, PulseInv
<1> QED
  BY <1>1, <1>2, <1>3, TypeCorrect, PTL DEF Spec, SampledBetweenPulses

-----------------------------------------------------------------------------
(* A step of the knob that stays within the set temperature does not wrap.  *)
LEMMA SetTempMonotonic ==
    ASSUME NEW t \in MinSet..MaxSet, NEW n \in -MaxDetents..MaxDetents
    PROVE  /\ n < 0 /\ MaxDetents <= MinSet => NewSetTemp(t, n) <= t
           /\ n > 0 => NewSetTemp(t, n) >= t
<1>1. /\ MinSet \in Nat /\ MaxSet \in Nat /\ MaxDetents \in Nat
      /\ FastFrom \in Nat \ {0} /\ FastStep \in Nat \ {0} /\ Word \in Nat
      /\ MaxSet + FastStep < Word /\ MaxSet + FastFrom < Word
  BY SetTempAssumption
<1>2. CASE n < 0 /\ MaxDetents <= MinSet
  <2>1. SetStep(n) = n
    BY <1>1, <1>2 DEF SetStep
  <2>2. t + n \in Nat /\ t + n < Word
    BY <1>1, <1>2
  <2>3. (t + SetStep(n)) % Word = t + n
    BY <1>1, <2>1, <2>2
  <2> QED
    BY <1>1, <1>2, <2>3 DEF NewSetTemp, ClampSet
<1>3. CASE n > 0
  <2>1. SetStep(n) \in Nat /\ SetStep(n) > 0 /\ t + SetStep(n) < Word
    BY <1>1, <1>3 DEF SetStep
  <2>2. (t + SetStep(n)) % Word = t + SetStep(n)
    BY <1>1, <2>1
  <2> QED
    BY <1>1, <1>3, <2>1, <2>2 DEF NewSetTemp, ClampSet
<1> QED
  BY <1>1, <1>2, <1>3

(* Only MenuSet changes the set temperature.                                *)
LEMMA SetTempStep ==
    Next /\ ~MenuSet => setTemp' = setTemp
BY DEF Next, MainLoop, Environment, Sample, DutyWait, DutyOff, DutyMeasure,
       MenuRead, MenuButton, HeatEnabled, HeatDisabled, HeatEncoder,
       HeatNoPress, HeatPressOn, HeatPressOff, TimerUpdate, TimerMatch,
       Detent, Press, loopVars

(* Turning forward never lowers the set temperature; turning back never     *)
(* raises it, provided no more detents than the lowest set temperature can  *)
(* arrive between two reads of the counter.                                 *)
THEOREM TurnsAreMonotonic ==
    /\ Spec => [][ForwardNeverLowers]_vars
    /\ MaxDetents <= MinSet => (Spec => SetTempFollowsKnob)
<1>1. TypeOK /\ [Next]_vars => [ForwardNeverLowers]_vars
  <2> SUFFICES ASSUME TypeOK, Next, turned > 0
               PROVE  setTemp' >= setTemp
    BY DEF ForwardNeverLowers
  <2>1. setTemp \in MinSet..MaxSet /\ turned \in -MaxDetents..MaxDetents
    BY DEF TypeOK, ValuesOK
  <2>2. setTemp \in Int
    BY <2>1, SetTempAssumption
  <2>3. CASE MenuSet
    BY <2>1, <2>3, SetTempMonotonic DEF MenuSet
  <2>4. CASE ~MenuSet
    BY <2>2, <2>4, SetTempStep
  <2> QED
    BY <2>3, <2>4
<1>2. MaxDetents <= MinSet /\ TypeOK /\ [Next]_vars
        => [BackNeverRaises]_vars
  <2> SUFFICES ASSUME MaxDetents <= MinSet, TypeOK, Next, turned < 0
               PROVE  setTemp' <= setTemp
    BY DEF BackNeverRaises
  <2>1. setTemp \in MinSet..MaxSet /\ turned \in -MaxDetents..MaxDetents
    BY DEF TypeOK, ValuesOK
  <2>2. setTemp \in Int
    BY <2>1, SetTempAssumption
  <2>3. CASE MenuSet
    BY <2>1, <2>3, SetTempMonotonic DEF MenuSet
  <2>4. CASE ~MenuSet
    BY <2>2, <2>4, SetTempStep
  <2> QED
    BY <2>3, <2>4
<1>3. Spec => [][ForwardNeverLowers]_vars
  BY <1>1, TypeCorrect, PTL DEF Spec
<1>4. ASSUME MaxDetents <= MinSet
      PROVE  Spec => SetTempFollowsKnob
  <2>1. TypeOK /\ [Next]_vars => [BackNeverRaises /\ ForwardNeverLowers]_vars
    BY <1>1, <1>2, <1>4
  <2> QED
    BY <2>1, TypeCorrect, PTL DEF Spec, SetTempFollowsKnob
<1> QED
  BY <1>3, <1>4

-----------------------------------------------------------------------------
(* The loop implements the safety half of IronModes: it starts in the cold  *)
(* menu, and each of its steps is one of the mode changes promised to the   *)
(* user or changes neither the mode nor the rail.                           *)
THEOREM ImplementsModes == Spec => Modes!Safety
<1> USE DEF loopVars, timerVars, history
<1>1. Init => Modes!Init
  BY DEF Init, Modes!Init, Mode
<1>2. TypeOK /\ MenuIsCold /\ [Next]_vars => [Modes!Next]_(Modes!vars)
  <2> SUFFICES ASSUME TypeOK, MenuIsCold, [Next]_vars
               PROVE  Modes!Next \/ UNCHANGED Modes!vars
    OBVIOUS
  <2> USE DEF Modes!Next, Modes!vars, Mode
  <2>1. CASE Sample \/ DutyWait \/ DutyOff \/ DutyMeasure \/ MenuRead \/ MenuSet
    <3>1. UNCHANGED <<state, enabled, rail>>
      BY <2>1 DEF Sample, DutyWait, DutyOff, DutyMeasure, MenuRead, MenuSet
    <3> QED
      BY <3>1
  <2>2. CASE MenuButton
    <3>1. state = "MENU"
      BY <2>2 DEF MenuButton, TypeOK, ValuesOK
    <3>2. CASE Falling
      BY <2>2, <3>1, <3>2 DEF MenuButton, Modes!OpenHeating
    <3>3. CASE ~Falling
      BY <2>2, <3>3 DEF MenuButton
    <3> QED
      BY <3>2, <3>3
  <2>3. CASE HeatEnabled
    BY <2>3 DEF HeatEnabled, Modes!Drive
  <2>4. CASE HeatDisabled
    BY <2>4, Zenon DEF HeatDisabled, Modes!Release, TypeOK, FlagsOK
  <2>5. CASE HeatEncoder
    <3>1. state = "HEATING"
      BY <2>5 DEF HeatEncoder, TypeOK, ValuesOK
    <3>2. CASE encoder # 0
      BY <2>5, <3>1, <3>2 DEF HeatEncoder, Modes!OpenMenu
    <3>3. CASE encoder = 0
      BY <2>5, <3>3 DEF HeatEncoder
    <3> QED
      BY <3>2, <3>3
  <2>6. CASE HeatNoPress
    BY <2>6, Zenon DEF HeatNoPress
  <2>7. CASE HeatPressOn
    BY <2>7 DEF HeatPressOn, Modes!Arm
  <2>8. CASE HeatPressOff
    BY <2>8 DEF HeatPressOff, Modes!Disarm
  <2>9. CASE Environment
    <3>1. UNCHANGED <<state, enabled, rail>>
      BY <2>9 DEF Environment, TimerUpdate, TimerMatch, Detent, Press
    <3> QED
      BY <3>1
  <2>10. CASE UNCHANGED vars
    BY <2>10, Zenon DEF vars
  <2> QED
    BY <2>1, <2>2, <2>3, <2>4, <2>5, <2>6, <2>7, <2>8, <2>9, <2>10
    DEF Next, MainLoop
<1> QED
  BY <1>1, <1>2, TypeCorrect, MenuAlwaysCold, PTL DEF Spec, Modes!Safety
=============================================================================
