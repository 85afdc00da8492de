--------------------------- MODULE PdProfileProofs ---------------------------
(* The search of pd_get_profile, for every offer and every requirement, and *)
(* the duty limit main derives from what it finds.                          *)
EXTENDS PdProfile, TLAPS

PDOFields ==
    \A p \in PDOs : /\ p.type \in {"fixed", "battery", "other"}
                    /\ p.v \in Nat /\ p.a \in Nat
                    /\ p.type = "battery" => p.v > 0

LEMMA PDOsHaveFields == PDOFields
  <1> SUFFICES ASSUME NEW p \in PDOs
               PROVE  /\ p.type \in {"fixed", "battery", "other"}
                      /\ p.v \in Nat /\ p.a \in Nat
                      /\ p.type = "battery" => p.v > 0
    BY DEF PDOFields
  <1>1. /\ p.type \in {"fixed", "battery", "other"}
        /\ p.v \in 0..1023 /\ p.a \in 0..1023
        /\ p.type = "battery" => p.v > 0
    BY PDOsAssumption
  <1>2. \A n \in 0..1023 : n \in Nat
    OBVIOUS
  <1> QED BY <1>1, <1>2, Zenon

(* The values computed for a fixed supply fit exactly if it suits: rounding *)
(* to watts loses nothing against a whole number of watts.                  *)
LEMMA FixedFits ==
    ASSUME NEW p \in PDOs, p.type = "fixed", minPower \in Nat
    PROVE  Fits(FixedValues(p)) <=> Suits(p)
  <1>1. p.v \in Nat /\ p.a \in Nat
    BY PDOsHaveFields DEF PDOFields
  <1> DEFINE w == p.v * p.a
  <1>2. w \in Nat
    BY <1>1
  <1>3. (p.v * 50) * (p.a * 10) = w * 500
    BY <1>1
  <1>4. (w * 500) \div 1000000 >= minPower <=> w * 500 >= minPower * 1000000
    <2> HIDE DEF w
    <2> QED BY <1>2
  <1>5. FixedValues(p).power = (w * 500) \div 1000000
    BY <1>3 DEF FixedValues
  <1>6. FixedValues(p).voltage = p.v * 50
    BY DEF FixedValues
  <1>7. Suits(p) <=> w * 500 >= minPower * 1000000 /\ p.v * 50 <= MaxVoltage
    BY DEF Suits
  <1> QED BY <1>4, <1>5, <1>6, <1>7 DEF Fits

(* The same for a battery.                                                  *)
LEMMA BatteryFits ==
    ASSUME NEW p \in PDOs, p.type = "battery", minPower \in Nat
    PROVE  Fits(BatteryValues(p)) <=> Suits(p)
  <1>1. p.v \in Nat /\ p.a \in Nat
    BY PDOsHaveFields DEF PDOFields
  <1>2. p.a \div 4 >= minPower <=> p.a * 250 >= minPower * 1000
    BY <1>1
  <1>3. /\ BatteryValues(p).power = p.a \div 4
        /\ BatteryValues(p).voltage = p.v * 50
    BY DEF BatteryValues
  <1>4. Suits(p) <=> p.a * 250 >= minPower * 1000 /\ p.v * 50 <= MaxVoltage
    BY DEF Suits
  <1> QED BY <1>2, <1>3, <1>4 DEF Fits

(* The switch: if the values held before do not fit, those held after it    *)
(* fit exactly if the PDO suits, and are then the PDO's own.                *)
LEMMA ConvertedFits ==
    ASSUME NEW p \in PDOs, NEW h, minPower \in Nat, ~Fits(h)
    PROVE  /\ Fits(Converted(p, h)) <=> Suits(p)
           /\ Suits(p) => Converted(p, h) = Converted(p, Nothing)
  <1>1. p.type \in {"fixed", "battery", "other"}
    BY PDOsHaveFields DEF PDOFields
  <1>2. CASE p.type = "fixed"
    <2>1. \A g : Converted(p, g) = FixedValues(p)
      BY <1>2 DEF Converted
    <2> QED BY <1>2, <2>1, FixedFits
  <1>3. CASE p.type = "battery"
    <2>1. \A g : Converted(p, g) = BatteryValues(p)
      BY <1>3 DEF Converted
    <2> QED BY <1>3, <2>1, BatteryFits
  <1>4. CASE p.type = "other"
    <2>1. Converted(p, h) = h
      BY <1>4 DEF Converted
    <2>2. ~Suits(p)
      BY <1>4 DEF Suits
    <2> QED BY <2>1, <2>2
  <1> QED BY <1>1, <1>2, <1>3, <1>4

-----------------------------------------------------------------------------
(* The types the search depends on.                                         *)
SearchTypes ==
    /\ pc \in {"start", "switch", "test", "request", "duty", "root", "done"}
    /\ seen \in [0..MaxPDOs - 1 -> PDOs \cup {Unread}]
    /\ i \in Nat /\ capCount \in 1..MaxPDOs /\ pdoCount \in 1..MaxPDOs
    /\ minPower \in Nat
    /\ caps \in [0..MaxPDOs - 1 -> PDOs]
    /\ requested \in Nat
    /\ pc \in {"test", "request"} => i < capCount

LEMMA SearchTypesHold == Spec => []SearchTypes
  <1>1. Init => SearchTypes
    BY LimitsAssumption DEF Init, SearchTypes
  <1>2. SearchTypes /\ [Next]_vars => SearchTypes'
    <2> SUFFICES ASSUME SearchTypes, [Next]_vars PROVE SearchTypes'
      OBVIOUS
    <2> USE LimitsAssumption DEF SearchTypes, searchVars, offerVars, dutyVars
    <2>1. CASE Refuse
      BY <2>1 DEF Refuse
    <2>2. CASE Begin
      BY <2>2 DEF Begin
    <2>3. CASE Convert
      <3>1. i \in 0..MaxPDOs - 1
        BY <2>3 DEF Convert
      <3>2. seen' \in [0..MaxPDOs - 1 -> PDOs \cup {Unread}]
        BY <2>3, <3>1 DEF Convert
      <3> QED BY <2>3, <3>2 DEF Convert
    <2>4. CASE Exhausted
      BY <2>4 DEF Exhausted
    <2>5. CASE Skip
      BY <2>5 DEF Skip
    <2>6. CASE SelectRefused
      BY <2>6 DEF SelectRefused
    <2>7. CASE Select \/ Request
      BY <2>7 DEF Select, Request
    <2>8. CASE CallRoot \/ Probe \/ SetMaxDuty
      BY <2>8 DEF CallRoot, Probe, SetMaxDuty
    <2>9. CASE NewOffer
      BY <2>9 DEF NewOffer
    <2>10. CASE UNCHANGED vars
      BY <2>10 DEF vars
    <2> QED BY <2>1, <2>2, <2>3, <2>4, <2>5, <2>6, <2>7, <2>8, <2>9, <2>10
       DEF Next, Main
  <1> QED BY <1>1, <1>2, PTL DEF Spec

(* The loop invariant, whatever becomes of the offer: no PDO passed suited  *)
(* when it was read, and the values held fit only if they are those of a    *)
(* PDO under test that suited.  Values carried over never fit.              *)
Passed == \A j \in 0..i - 1 : ~Suits(seen[j])

LoopInv ==
    /\ pc = "start" => i = 0 /\ held = Nothing
    /\ pc \in {"switch", "test", "request"} => InRange /\ Passed
    /\ pc = "switch" => ~Fits(held)
    /\ pc = "test" => /\ Fits(held) <=> Suits(seen[i])
                      /\ Suits(seen[i]) => held = Converted(seen[i], Nothing)
    /\ pc = "request" => Suits(seen[i]) /\ held = Converted(seen[i], Nothing)
    /\ pc \in {"start", "switch", "test", "request"} => result = "none"

(* As long as the offer stays, what was read is what is offered.            *)
AsRead ==
    ~replaced =>
      /\ capCount = pdoCount
      /\ pc \in {"start", "switch", "test", "request"} =>
           \A j \in 0..i - 1 : seen[j] = caps[j]
      /\ pc \in {"test", "request"} => seen[i] = caps[i]

SearchInv == LoopInv /\ AsRead /\ RequestsFirstFit /\ FailsOnlyWithoutFit

(* Before there is a result there is nothing to say of it.                  *)
LEMMA NoResult ==
    ASSUME result' = "none" PROVE RequestsFirstFit' /\ FailsOnlyWithoutFit'
  BY DEF RequestsFirstFit, FailsOnlyWithoutFit

(* Once there is one, it stays.                                             *)
LEMMA ResultKept ==
    ASSUME RequestsFirstFit, FailsOnlyWithoutFit,
           UNCHANGED <<searchVars, offerVars, seen>>
    PROVE  RequestsFirstFit' /\ FailsOnlyWithoutFit'
  <1> USE DEF searchVars, offerVars
  <1>1. RequestsFirstFit'
    BY DEF RequestsFirstFit, Suits
  <1>2. FailsOnlyWithoutFit'
    BY DEF FailsOnlyWithoutFit, Suits, InRange
  <1> QED BY <1>1, <1>2

LEMMA SearchStep ==
    ASSUME SearchTypes, SearchInv, [Next]_vars
    PROVE  SearchInv'
  <1> USE DEF searchVars, offerVars, dutyVars
  <1>1. CASE NewOffer
    <2>1. result' = "none" /\ replaced'
      BY <1>1 DEF NewOffer, SearchInv, LoopInv
    <2>2. AsRead'
      BY <2>1 DEF AsRead
    <2>3. LoopInv'
      BY <1>1 DEF NewOffer, SearchInv, LoopInv, InRange, Passed, Suits, Fits
    <2> QED BY <2>1, <2>2, <2>3, NoResult DEF SearchInv
  <1>2. CASE Refuse \/ SelectRefused
    <2>1. pc' = "duty" /\ result' = "false" /\ UNCHANGED <<offerVars, capCount, minPower>>
      BY <1>2 DEF Refuse, SelectRefused
    <2>2. ~InRange \/ replaced
      <3>1. CASE Refuse
        BY <3>1 DEF Refuse
      <3>2. CASE SelectRefused
        BY <3>2 DEF SelectRefused, SearchInv, AsRead, SearchTypes
      <3> QED BY <1>2, <3>1, <3>2
    <2>3. LoopInv' /\ AsRead'
      BY <2>1 DEF LoopInv, AsRead, SearchInv
    <2>4. RequestsFirstFit' /\ FailsOnlyWithoutFit'
      BY <2>1, <2>2 DEF RequestsFirstFit, FailsOnlyWithoutFit, InRange
    <2> QED BY <2>3, <2>4 DEF SearchInv
  <1>3. CASE Begin
    <2>1. i = 0 /\ held = Nothing /\ InRange /\ result = "none"
      BY <1>3 DEF Begin, SearchInv, LoopInv
    <2>2. ~Fits(Nothing)
      BY <2>1 DEF Fits, Nothing, InRange, SearchTypes
    <2>3. pc' = "switch" /\ UNCHANGED <<searchVars, offerVars, seen>>
      BY <1>3 DEF Begin
    <2>4. LoopInv'
      BY <2>1, <2>2, <2>3 DEF LoopInv, InRange, Passed, Fits
    <2>5. AsRead'
      BY <2>1, <2>3 DEF SearchInv, AsRead
    <2> QED BY <2>1, <2>3, <2>4, <2>5, NoResult DEF SearchInv
  <1>4. CASE Convert
    <2>1. /\ result = "none" /\ InRange /\ Passed /\ ~Fits(held)
          /\ i \in 0..MaxPDOs - 1
      BY <1>4, LimitsAssumption DEF Convert, SearchInv, LoopInv, SearchTypes
    <2>2. caps[i] \in PDOs /\ minPower \in Nat
      BY <2>1 DEF SearchTypes
    <2>3. /\ Fits(held') <=> Suits(caps[i])
          /\ Suits(caps[i]) => held' = Converted(caps[i], Nothing)
      BY <1>4, <2>1, <2>2, ConvertedFits DEF Convert
    <2>4. UNCHANGED <<i, capCount, minPower, caps, pdoCount, result, replaced>> /\ pc' = "test"
      BY <1>4 DEF Convert
    <2>5. seen'[i] = caps[i] /\ \A j \in 0..i - 1 : seen'[j] = seen[j]
      BY <1>4, <2>1 DEF Convert, SearchTypes
    <2>6. Passed'
      BY <2>1, <2>4, <2>5 DEF Passed, Suits
    <2>7. LoopInv'
      BY <2>1, <2>3, <2>4, <2>5, <2>6 DEF LoopInv, InRange, Fits, Suits
    <2>8. AsRead'
      BY <1>4, <2>4, <2>5 DEF Convert, SearchInv, AsRead
    <2> QED BY <2>1, <2>4, <2>7, <2>8, NoResult DEF SearchInv
  <1>5. CASE Exhausted
    <2>1. Passed /\ i >= capCount /\ (~replaced => capCount = pdoCount)
      BY <1>5 DEF Exhausted, SearchInv, LoopInv, AsRead
    <2>2. ~replaced => \A j \in 0..i - 1 : seen[j] = caps[j]
      BY <1>5 DEF Exhausted, SearchInv, AsRead
    <2>3. ~replaced => \A j \in 0..pdoCount - 1 : ~Suits(caps[j])
      BY <2>1, <2>2 DEF Passed, SearchTypes
    <2>4. pc' = "duty" /\ result' = "false" /\ UNCHANGED <<offerVars, capCount, minPower>>
      BY <1>5 DEF Exhausted
    <2>5. LoopInv' /\ AsRead'
      BY <2>1, <2>4 DEF LoopInv, AsRead
    <2>6. RequestsFirstFit' /\ FailsOnlyWithoutFit'
      BY <2>3, <2>4 DEF RequestsFirstFit, FailsOnlyWithoutFit, Suits
    <2> QED BY <2>5, <2>6 DEF SearchInv
  <1>6. CASE Skip
    <2>1. Passed /\ InRange /\ ~Suits(seen[i]) /\ ~Fits(held) /\ result = "none"
      BY <1>6 DEF Skip, SearchInv, LoopInv
    <2>2. i' = i + 1 /\ pc' = "switch"
          /\ UNCHANGED <<held, capCount, minPower, result, offerVars, seen>>
      BY <1>6 DEF Skip
    <2>3. \A j \in 0..(i + 1) - 1 : j = i \/ j \in 0..i - 1
      BY DEF SearchTypes
    <2>4. Passed'
      BY <2>1, <2>2, <2>3 DEF Passed, Suits
    <2>5. LoopInv'
      BY <2>1, <2>2, <2>4 DEF LoopInv, InRange, Fits
    <2>6. AsRead'
      BY <1>6, <2>2, <2>3 DEF Skip, SearchInv, AsRead
    <2> QED BY <2>1, <2>2, <2>5, <2>6, NoResult DEF SearchInv
  <1>7. CASE Select
    <2>1. pc' = "request" /\ UNCHANGED <<searchVars, offerVars, seen>>
      BY <1>7 DEF Select
    <2>2. /\ Passed /\ InRange /\ Suits(seen[i]) /\ result = "none"
          /\ held = Converted(seen[i], Nothing)
      BY <1>7 DEF Select, SearchInv, LoopInv
    <2>3. LoopInv'
      BY <2>1, <2>2 DEF LoopInv, InRange, Passed, Suits
    <2>4. AsRead'
      BY <1>7, <2>1 DEF Select, SearchInv, AsRead
    <2> QED BY <2>1, <2>2, <2>3, <2>4, NoResult DEF SearchInv
  <1>8. CASE Request
    <2>1. /\ Passed /\ Suits(seen[i]) /\ held = Converted(seen[i], Nothing)
          /\ ~replaced => /\ capCount = pdoCount /\ seen[i] = caps[i]
                          /\ \A j \in 0..i - 1 : seen[j] = caps[j]
      BY <1>8 DEF Request, SearchInv, LoopInv, AsRead
    <2>2. (i + 1) - 1 = i /\ (i + 1) - 2 = i - 1
      BY DEF SearchTypes
    <2>3. /\ requested' = i + 1 /\ profile' = held /\ pc' = "duty"
          /\ result' = "true" /\ UNCHANGED <<minPower, capCount, offerVars, seen>>
      BY <1>8 DEF Request
    <2>4. \A j \in 0..i : j = i \/ j \in 0..i - 1
      BY DEF SearchTypes
    <2>5. RequestsFirstFit'
      BY <2>1, <2>2, <2>3, <2>4 DEF RequestsFirstFit, Passed, Suits
    <2>6. LoopInv' /\ AsRead' /\ FailsOnlyWithoutFit'
      BY <2>1, <2>3 DEF LoopInv, AsRead, FailsOnlyWithoutFit
    <2> QED BY <2>5, <2>6 DEF SearchInv
  <1>9. CASE CallRoot \/ Probe \/ SetMaxDuty
    <2>1. UNCHANGED <<searchVars, offerVars, seen>> /\ pc' \in {"duty", "root", "done"}
      BY <1>9 DEF CallRoot, Probe, SetMaxDuty
    <2>2. LoopInv' /\ AsRead'
      BY <2>1 DEF LoopInv, SearchInv, AsRead
    <2> QED BY <2>1, <2>2, ResultKept DEF SearchInv
  <1>10. CASE UNCHANGED vars
    <2>1. UNCHANGED <<pc, searchVars, offerVars, seen>>
      BY <1>10 DEF vars
    <2>2. LoopInv' /\ AsRead'
      BY <2>1 DEF LoopInv, SearchInv, AsRead, InRange, Passed, Suits, Fits
    <2> QED BY <2>1, <2>2, ResultKept DEF SearchInv
  <1> QED BY <1>1, <1>2, <1>3, <1>4, <1>5, <1>6, <1>7, <1>8, <1>9, <1>10
     DEF Next, Main

LEMMA SearchInvHolds == Spec => []SearchInv
  <1>1. Init => SearchInv
    BY DEF Init, SearchInv, LoopInv, AsRead, RequestsFirstFit, FailsOnlyWithoutFit
  <1>2. SearchTypes /\ SearchInv /\ [Next]_vars => SearchInv'
    BY SearchStep
  <1> QED BY <1>1, <1>2, SearchTypesHold, PTL DEF Spec

-----------------------------------------------------------------------------
(* The PDO requested is the first that met the requirement when it was      *)
(* read, and the profile is its own (pd.c:114), for every offer and at      *)
(* whatever point of the search it is replaced.                             *)
THEOREM AlwaysFirstFit == Spec => []RequestsFirstFit
  <1>1. SearchInv => RequestsFirstFit
    BY DEF SearchInv
  <1> QED BY <1>1, SearchInvHolds, PTL

(* pd_get_profile fails only if no PDO of the offer meets the requirement.  *)
THEOREM FailureMeansNoFit == Spec => []FailsOnlyWithoutFit
  <1>1. SearchInv => FailsOnlyWithoutFit
    BY DEF SearchInv, FailsOnlyWithoutFit
  <1> QED BY <1>1, SearchInvHolds, PTL

-----------------------------------------------------------------------------
(* isqrt, and the duty limit computed from it.                              *)

(* The midpoint of two bounds that are not neighbours is between them.      *)
LEMMA MiddleInside ==
    ASSUME NEW a \in Nat, NEW b \in Nat, a < b, a # b - 1
    PROVE  (a + b) \div 2 \in Nat /\ a < (a + b) \div 2 /\ (a + b) \div 2 < b
OBVIOUS

(* n + 1 is beyond the root of n: isqrt may start from there.               *)
LEMMA SquareBeyond ==
    ASSUME NEW n \in Nat
    PROVE  n < (n + 1) * (n + 1)
  <1>1. n * n \in Nat
    OBVIOUS
  <1>2. (n + 1) * (n + 1) = n * n + 2 * n + 1
    OBVIOUS
  <1> QED BY <1>1, <1>2

(* A quotient times its divisor does not exceed the dividend.               *)
LEMMA QuotientBelow ==
    ASSUME NEW n \in Nat, NEW d \in Nat \ {0}
    PROVE  n \div d \in Nat /\ (n \div d) * d <= n
  <1>1. n \div d \in Nat
    OBVIOUS
  <1>2. n = d * (n \div d) + (n % d) /\ (n % d) \in Nat
    OBVIOUS
  <1>3. d * (n \div d) = (n \div d) * d /\ d * (n \div d) \in Nat
    BY <1>1
  <1> QED BY <1>1, <1>2, <1>3

(* Every pass of the loop keeps the root between the two bounds: without    *)
(* r < Word this would not be inductive, as x + 1 could wrap to zero.       *)
Bracket ==
    /\ l \in Nat /\ r \in Nat /\ x \in Nat
    /\ l < r /\ r < Word
    /\ l * l <= x /\ x < r * r

RootInv ==
    /\ held.voltage \in Nat /\ held.power \in Nat
    /\ profile.voltage \in Nat /\ profile.power \in Nat
    /\ pc \in {"root", "done"} => x = Square /\ Bracket
    /\ pc = "done" => l = r - 1 /\ maxDuty = DutyFor(l, profile.voltage)

(* The argument main gives isqrt leaves room for its upper bound.           *)
LEMMA SquareSmall ==
    ASSUME profile.power \in Nat
    PROVE  Square \in Nat /\ Square + 1 < Word
  <1>1. Budget \in Nat /\ Budget <= SetPower
    BY LimitsAssumption DEF Budget, Lesser
  <1>2. Budget * TipR \in Nat /\ SetPower * TipR \in Nat
    BY <1>1, LimitsAssumption
  <1>3. Budget * TipR <= SetPower * TipR
    <2>1. SetPower * TipR = Budget * TipR + (SetPower - Budget) * TipR
      BY <1>1, LimitsAssumption
    <2>2. (SetPower - Budget) * TipR \in Nat
      <3>1. SetPower - Budget \in Nat
        BY <1>1, LimitsAssumption
      <3> QED BY <3>1, LimitsAssumption
    <2> QED BY <1>2, <2>1, <2>2
  <1>4. \A m, n \in Nat : m <= n => m \div 1000 \in Nat /\ m \div 1000 <= n \div 1000
    OBVIOUS
  <1>5. Square \in Nat /\ Square <= (SetPower * TipR) \div 1000
    BY <1>2, <1>3, <1>4 DEF Square
  <1> QED BY <1>2, <1>5, WordAssumption

(* The values of a PDO are natural numbers.                                 *)
LEMMA ConvertedTypes ==
    ASSUME NEW p \in PDOs, NEW h, h.voltage \in Nat, h.power \in Nat
    PROVE  Converted(p, h).voltage \in Nat /\ Converted(p, h).power \in Nat
  <1>1. /\ p.type \in {"fixed", "battery", "other"}
        /\ p.v \in Nat /\ p.a \in Nat
    BY PDOsHaveFields DEF PDOFields
  <1>2. p.v * 50 \in Nat /\ p.a * 10 \in Nat /\ p.a \div 4 \in Nat
    BY <1>1
  <1>3. (p.v * 50) * (p.a * 10) \in Nat
    BY <1>2
  <1>4. ((p.v * 50) * (p.a * 10)) \div 1000000 \in Nat
    BY <1>3
  <1> QED BY <1>1, <1>2, <1>4 DEF Converted, FixedValues, BatteryValues

LEMMA RootInvHolds == Spec => []RootInv
  <1>1. Init => RootInv
    BY DEF Init, RootInv, Nothing
  <1>2. SearchTypes /\ RootInv /\ [Next]_vars => RootInv'
    <2> SUFFICES ASSUME SearchTypes, RootInv, [Next]_vars PROVE RootInv'
      OBVIOUS
    <2> USE DEF searchVars, offerVars, dutyVars
    <2>1. CASE Refuse \/ Begin \/ Exhausted \/ Skip \/ SelectRefused
      BY <2>1 DEF Refuse, Begin, Exhausted, Skip, SelectRefused, RootInv
    <2>2. CASE Convert
      <3>1. caps[i] \in PDOs
        BY <2>2, LimitsAssumption DEF Convert, SearchTypes
      <3>2. held'.voltage \in Nat /\ held'.power \in Nat
        BY <2>2, <3>1, ConvertedTypes DEF Convert, RootInv
      <3> QED BY <2>2, <3>2 DEF Convert, RootInv
    <2>3. CASE Select \/ Request
      BY <2>3 DEF Select, Request, RootInv
    <2>4. CASE NewOffer
      BY <2>4 DEF NewOffer, RootInv
    <2>5. CASE CallRoot
      <3>1. Square \in Nat /\ Square + 1 < Word
        BY SquareSmall DEF RootInv
      <3>2. /\ x' = Square /\ l' = 0 /\ r' = UpperBound(Square)
            /\ pc' = "root" /\ UNCHANGED <<held, profile>>
        BY <2>5 DEF CallRoot
      <3>3. UpperBound(Square) = Square + 1
        BY <3>1, WordAssumption DEF UpperBound
      <3>4. Square < (Square + 1) * (Square + 1)
        BY <3>1, SquareBeyond
      <3>5. Bracket'
        BY <3>1, <3>2, <3>3, <3>4 DEF Bracket
      <3>6. Square' = Square
        BY <3>2 DEF Square, Budget
      <3> QED BY <3>2, <3>5, <3>6 DEF RootInv
    <2>6. CASE Probe
      <3>1. /\ Bracket /\ l # r - 1 /\ x = Square /\ pc' = "root" /\ x' = x
            /\ UNCHANGED <<held, profile>>
        BY <2>6 DEF Probe, RootInv
      <3>2. Middle \in Nat /\ l < Middle /\ Middle < r
        BY <3>1, MiddleInside DEF Bracket, Middle
      <3>3. Middle * Middle \in Nat
        BY <3>2
      <3>4. CASE Middle * Middle <= x
        <4>1. l' = Middle /\ r' = r
          BY <2>6, <3>4 DEF Probe
        <4> QED BY <3>1, <3>2, <3>4, <4>1 DEF Bracket, RootInv, Square, Budget
      <3>5. CASE x < Middle * Middle
        <4>1. l' = l /\ r' = Middle
          BY <2>6, <3>1, <3>3, <3>5 DEF Probe, Bracket
        <4>2. Middle < Word
          BY <3>1, <3>2, WordAssumption DEF Bracket
        <4> QED BY <3>1, <3>2, <3>5, <4>1, <4>2 DEF Bracket, RootInv, Square,
                   Budget
      <3> QED BY <3>1, <3>3, <3>4, <3>5 DEF Bracket
    <2>7. CASE SetMaxDuty
      BY <2>7 DEF SetMaxDuty, RootInv, Bracket, Square, Budget
    <2>8. CASE UNCHANGED vars
      BY <2>8 DEF vars, RootInv, Bracket, Square, Budget
    <2> QED BY <2>1, <2>2, <2>3, <2>4, <2>5, <2>6, <2>7, <2>8 DEF Next, Main
  <1> QED BY <1>1, <1>2, SearchTypesHold, PTL DEF Spec

(* What isqrt returns is the integer square root of its argument            *)
(* (filter.h:25), for every power, offer and tip that leave its upper bound *)
(* within 16 bits.                                                          *)
THEOREM RootAlwaysExact == Spec => []RootIsExact
  <1>1. RootInv => RootIsExact
    <2> SUFFICES ASSUME RootInv, pc = "done"
                 PROVE  l * l <= x /\ x < (l + 1) * (l + 1)
      BY DEF RootIsExact
    <2>1. Bracket /\ l = r - 1
      BY DEF RootInv
    <2>2. r = l + 1
      BY <2>1 DEF Bracket
    <2> QED BY <2>1, <2>2 DEF Bracket
  <1> QED BY <1>1, RootInvHolds, PTL

(* The mean voltage at the duty limit never exceeds the one that dissipates *)
(* the power available in the tip (main.c:609): every rounding goes down.   *)
THEOREM MeanVoltageAlwaysFits == Spec => []MeanVoltageFits
  <1>1. RootInv => MeanVoltageFits
    <2> SUFFICES ASSUME RootInv, pc = "done"
                 PROVE  /\ maxDuty * profile.voltage <= 100 * 1000 * l
                        /\ l * l <= Square
      BY DEF MeanVoltageFits
    <2>1. /\ l \in Nat /\ l * l <= Square
          /\ profile.voltage \in Nat
          /\ maxDuty = DutyFor(l, profile.voltage)
      BY DEF RootInv, Bracket
    <2> DEFINE v == profile.voltage
               n == 100 * l * 1000
    <2>2. n \in Nat /\ n = 100 * 1000 * l
      BY <2>1
    <2>3. CASE v = 0
      BY <2>1, <2>2, <2>3 DEF DutyFor
    <2>4. CASE v # 0
      <3>1. n \div v \in Nat /\ (n \div v) * v <= n
        BY <2>1, <2>2, <2>4, QuotientBelow
      <3>2. maxDuty = n \div v \/ (maxDuty = 100 /\ 100 <= n \div v)
        BY <2>1, <2>4, <3>1 DEF DutyFor, Lesser
      <3>3. ASSUME 100 <= n \div v PROVE 100 * v <= (n \div v) * v
        <4> DEFINE q == n \div v
        <4>1. q \in Nat /\ v \in Nat /\ 100 <= q
          BY <2>1, <3>1, <3>3
        <4> HIDE DEF q, v
        <4>2. (q - 100) * v \in Nat
          BY <4>1
        <4>3. q * v = 100 * v + (q - 100) * v
          BY <4>1
        <4> QED BY <4>1, <4>2, <4>3 DEF q
      <3>4. maxDuty * v <= n
        <4>1. CASE maxDuty = n \div v
          BY <3>1, <4>1
        <4>2. CASE maxDuty = 100 /\ 100 <= n \div v
          <5>1. 100 * v \in Nat /\ (n \div v) * v \in Nat
            BY <2>1, <3>1
          <5> HIDE DEF n
          <5> QED BY <3>1, <3>3, <4>2, <5>1, <2>2
        <4> QED BY <3>2, <4>1, <4>2
      <3> QED BY <2>1, <2>2, <3>4
    <2> QED BY <2>3, <2>4
  <1> QED BY <1>1, RootInvHolds, PTL

-----------------------------------------------------------------------------
(* The way to main's loop: what is left of it is a number that each step of *)
(* main makes smaller, whatever the interrupt does to the offer in between. *)
(* The pieces of the way, in the order of the code: two steps for each PDO, *)
(* then isqrt, whose bounds are never farther apart than Word.              *)
Left == CASE pc = "start"  -> 2 * capCount + Word + 2
          [] pc = "switch" -> 2 * (capCount - i) + Word + 1
          [] pc = "test"   -> 2 * (capCount - i) + Word
          [] pc = "request" -> Word + 1
          [] pc = "duty"   -> Word
          [] pc = "root"   -> r - l
          [] pc = "done"   -> 0

(* The index never passes the count noted.                                  *)
IndexInv == i <= capCount /\ (pc = "start" => i = 0)

LEMMA IndexInvHolds == Spec => []IndexInv
  <1>1. Init => IndexInv
    BY LimitsAssumption DEF Init, IndexInv
  <1>2. SearchTypes /\ IndexInv /\ [Next]_vars => IndexInv'
    BY DEF IndexInv, SearchTypes, Next, Main, Refuse, Begin, Convert,
       Exhausted, Skip, SelectRefused, Select, Request, CallRoot, Probe, SetMaxDuty,
       NewOffer, vars, searchVars, offerVars, dutyVars
  <1> QED BY <1>1, <1>2, SearchTypesHold, PTL DEF Spec

LEMMA LeftIsNat ==
    ASSUME SearchTypes, IndexInv, RootInv
    PROVE  Left \in Nat
  <1>1. /\ capCount \in Nat /\ i \in Nat /\ i <= capCount
        /\ Word \in Nat
    BY WordAssumption, LimitsAssumption DEF SearchTypes, IndexInv
  <1>2. CASE pc = "start"
    BY <1>1, <1>2 DEF Left
  <1>3. CASE pc = "switch"
    BY <1>1, <1>3 DEF Left
  <1>4. CASE pc = "test"
    BY <1>1, <1>4 DEF Left
  <1>5. CASE pc = "root"
    BY <1>5 DEF RootInv, Bracket, Left
  <1>6. CASE pc \in {"request", "duty", "done"}
    BY <1>1, <1>6 DEF Left
  <1> QED BY <1>2, <1>3, <1>4, <1>5, <1>6 DEF SearchTypes

(* The startup never goes round in circles: every step of main on its way   *)
(* from pd_get_profile to the loop (pd.c:68, main.c:602, filter.h:33) makes *)
(* what is left smaller, so that there are 2*MaxPDOs + Word + 2 at most.    *)
THEOREM StartupAdvances ==
    Spec => /\ [](Left \in 0..2 * MaxPDOs + Word + 2)
            /\ [][Main => Left' < Left]_vars
  <1> DEFINE IInv == SearchTypes /\ IndexInv /\ RootInv
  <1>1. IInv => Left \in 0..2 * MaxPDOs + Word + 2
    <2> SUFFICES ASSUME IInv PROVE Left <= 2 * MaxPDOs + Word + 2
      BY LeftIsNat, WordAssumption, LimitsAssumption
    <2>1. /\ capCount - i <= MaxPDOs /\ capCount <= MaxPDOs /\ capCount \in Nat
          /\ i \in Nat /\ Word \in Nat /\ MaxPDOs \in Nat \ {0}
      BY WordAssumption, LimitsAssumption DEF SearchTypes
    <2>2. CASE pc = "root"
      BY <2>1, <2>2 DEF Left, RootInv, Bracket
    <2>3. CASE pc = "start"
      BY <2>1, <2>3 DEF Left
    <2>4. CASE pc \in {"switch", "test"}
      BY <2>1, <2>4 DEF Left
    <2>5. CASE pc \in {"request", "duty", "done"}
      BY <2>1, <2>5 DEF Left
    <2> QED BY <2>2, <2>3, <2>4, <2>5 DEF SearchTypes
  <1>2. ASSUME IInv, IInv', Main PROVE Left' < Left
    <2> USE <1>2 DEF searchVars, offerVars, dutyVars
    <2>1. /\ capCount \in Nat /\ i \in Nat /\ Word \in Nat /\ Word > 0
          /\ capCount > 0 /\ i <= capCount
      BY WordAssumption, LimitsAssumption DEF SearchTypes, IndexInv
    <2>2. CASE Refuse
      BY <2>1, <2>2 DEF Refuse, Left
    <2>3. CASE Begin
      BY <2>1, <2>3 DEF Begin, Left, IndexInv
    <2>4. CASE Convert
      BY <2>1, <2>4 DEF Convert, Left
    <2>5. CASE Exhausted
      BY <2>1, <2>5 DEF Exhausted, Left
    <2>6. CASE Skip
      BY <2>1, <2>6 DEF Skip, Left
    <2>7. CASE SelectRefused \/ Select
      <3>1. pc = "test" /\ pc' \in {"duty", "request"}
        BY <2>7 DEF SelectRefused, Select
      <3>2. i < capCount
        BY <3>1 DEF SearchTypes
      <3>3. Left = 2 * (capCount - i) + Word
        BY <3>1 DEF Left
      <3>4. Left' <= Word + 1
        BY <2>1, <3>1 DEF Left
      <3>5. capCount - i >= 1
        BY <2>1, <3>2
      <3>6. Left' \in Nat
        BY <2>1, <3>1 DEF Left
      <3> QED BY <2>1, <3>3, <3>4, <3>5, <3>6
    <2>11. CASE Request
      BY <2>1, <2>11 DEF Request, Left
    <2>8. CASE CallRoot
      <3>1. pc = "duty" /\ pc' = "root"
        BY <2>8 DEF CallRoot
      <3>2. r' - l' < Word
        BY <2>1, <3>1 DEF RootInv, Bracket
      <3> QED BY <3>1, <3>2 DEF Left
    <2>9. CASE Probe
      <3>1. pc = "root" /\ pc' = "root" /\ Bracket /\ l # r - 1
        BY <2>9 DEF Probe, RootInv
      <3>2. Middle \in Nat /\ l < Middle /\ Middle < r
        BY <3>1, MiddleInside DEF Bracket, Middle
      <3>3. (l' = Middle /\ r' = r) \/ (l' = l /\ r' = Middle)
        BY <2>9 DEF Probe
      <3>4. r' - l' < r - l
        BY <3>1, <3>2, <3>3 DEF Bracket
      <3> QED BY <3>1, <3>4 DEF Left
    <2>10. CASE SetMaxDuty
      <3>1. pc = "root" /\ pc' = "done" /\ l = r - 1 /\ Bracket
        BY <2>10 DEF SetMaxDuty, RootInv
      <3>2. r - l = 1
        BY <3>1 DEF Bracket
      <3> QED BY <3>1, <3>2 DEF Left
    <2> QED BY <2>2, <2>3, <2>4, <2>5, <2>6, <2>7, <2>8, <2>9, <2>10, <2>11 DEF Main
  <1>3. IInv /\ IInv' => [Main => Left' < Left]_vars
    BY <1>2
  <1> HIDE DEF IInv
  <1>4. Spec => []IInv
    <2>1. IInv <=> SearchTypes /\ IndexInv /\ RootInv
      BY DEF IInv
    <2> QED BY <2>1, SearchTypesHold, IndexInvHolds, RootInvHolds, PTL
  <1> QED BY <1>1, <1>3, <1>4, PTL

-----------------------------------------------------------------------------
(* The types that neither the search nor the root has settled yet.          *)
Values == [voltage : Nat, current : Nat, power : Nat]

ValueTypes ==
    /\ i \in 0..MaxPDOs /\ minPower \in MinPowers
    /\ held \in Values /\ profile \in Values
    /\ result \in {"none", "true", "false"} /\ requested \in 0..MaxPDOs
    /\ x \in 0..Word - 1 /\ l \in 0..Word - 1 /\ r \in 0..Word - 1
    /\ maxDuty \in 0..100 /\ replaced \in {TRUE, FALSE}

LEMMA ConvertedValues ==
    ASSUME NEW p \in PDOs, NEW h \in Values
    PROVE  Converted(p, h) \in Values
  <1>1. /\ p.type \in {"fixed", "battery", "other"}
        /\ p.v \in Nat /\ p.a \in Nat /\ (p.type = "battery" => p.v > 0)
    BY PDOsHaveFields DEF PDOFields
  <1>2. FixedValues(p) \in Values
    <2>1. p.v * 50 \in Nat /\ p.a * 10 \in Nat
      BY <1>1
    <2>2. (p.v * 50) * (p.a * 10) \in Nat
      BY <2>1
    <2>3. ((p.v * 50) * (p.a * 10)) \div 1000000 \in Nat
      BY <2>2
    <2> QED BY <2>1, <2>3 DEF FixedValues, Values
  <1>3. p.type = "battery" => BatteryValues(p) \in Values
    <2> SUFFICES ASSUME p.type = "battery" PROVE BatteryValues(p) \in Values
      OBVIOUS
    <2>1. p.v * 50 \in Nat \ {0} /\ p.a \div 4 \in Nat /\ (p.a \div 4) * 1000 \in Nat
      BY <1>1
    <2>2. \A a \in Nat, b \in Nat \ {0} : a \div b \in Nat
      OBVIOUS
    <2>3. ((p.a \div 4) * 1000) \div (p.v * 50) \in Nat
      BY <2>1, <2>2
    <2> QED BY <2>1, <2>3 DEF BatteryValues, Values
  <1> QED BY <1>1, <1>2, <1>3 DEF Converted

LEMMA DutyForRange ==
    ASSUME NEW root \in Nat, NEW voltage \in Nat
    PROVE  DutyFor(root, voltage) \in 0..100
  <1>1. CASE voltage = 0
    BY <1>1 DEF DutyFor
  <1>2. CASE voltage # 0
    <2>1. (100 * root * 1000) \div voltage \in Nat
      BY <1>2, QuotientBelow
    <2> QED BY <1>2, <2>1 DEF DutyFor, Lesser
  <1> QED BY <1>1, <1>2

LEMMA ValueStep ==
    ASSUME SearchTypes, SearchTypes', RootInv, RootInv', ValueTypes, [Next]_vars
    PROVE  ValueTypes'
  <1> USE LimitsAssumption DEF ValueTypes, searchVars, offerVars, dutyVars
  <1>1. CASE Refuse \/ Begin \/ Exhausted \/ SelectRefused \/ Select
    BY <1>1 DEF Refuse, Begin, Exhausted, SelectRefused, Select
  <1>2. CASE Skip
    <2>1. i' \in 0..MaxPDOs
      BY <1>2 DEF Skip, SearchTypes
    <2> QED BY <1>2, <2>1 DEF Skip
  <1>3. CASE Convert
    <2>1. caps[i] \in PDOs
      BY <1>3 DEF Convert, SearchTypes
    <2>2. held' \in Values
      BY <1>3, <2>1, ConvertedValues DEF Convert
    <2> QED BY <1>3, <2>2 DEF Convert
  <1>4. CASE Request
    <2>1. requested' \in 0..MaxPDOs
      BY <1>4 DEF Request, SearchTypes
    <2> QED BY <1>4, <2>1 DEF Request
  <1>5. CASE NewOffer
    BY <1>5 DEF NewOffer
  <1>6. CASE CallRoot
    <2>1. pc' = "root" /\ x' = Square /\ Square \in Nat /\ Square + 1 < Word
      BY <1>6, SquareSmall DEF CallRoot, RootInv
    <2>2. Bracket'
      BY <2>1 DEF RootInv
    <2>3. x' \in 0..Word - 1 /\ l' \in 0..Word - 1 /\ r' \in 0..Word - 1
      BY <2>1, <2>2, WordAssumption DEF Bracket
    <2> QED BY <1>6, <2>3 DEF CallRoot
  <1>7. CASE Probe
    <2>1. pc' = "root" /\ x' = x /\ UNCHANGED <<maxDuty, searchVars, offerVars>>
      BY <1>7 DEF Probe
    <2>2. Bracket'
      BY <2>1 DEF RootInv
    <2>3. l' \in 0..Word - 1 /\ r' \in 0..Word - 1
      BY <2>2, WordAssumption DEF Bracket
    <2> QED BY <2>1, <2>3
  <1>8. CASE SetMaxDuty
    <2>1. l \in Nat /\ profile.voltage \in Nat
      BY DEF RootInv
    <2>2. maxDuty' \in 0..100
      BY <1>8, <2>1, DutyForRange DEF SetMaxDuty
    <2> QED BY <1>8, <2>2 DEF SetMaxDuty
  <1>9. CASE UNCHANGED vars
    BY <1>9 DEF vars
  <1> QED BY <1>1, <1>2, <1>3, <1>4, <1>5, <1>6, <1>7, <1>8, <1>9 DEF Next, Main

(* The types of the search and of the root: neither leaves its 16 bits, the *)
(* index its message, the duty cycle 100 %.                                 *)
THEOREM TypeCorrect == Spec => []TypeOK
  <1>1. Init => ValueTypes
    <2> SUFFICES ASSUME Init PROVE ValueTypes
      OBVIOUS
    <2>1. 0 \in 0..MaxPDOs /\ 0 \in 0..Word - 1 /\ 0 \in 0..100
      BY LimitsAssumption, WordAssumption
    <2>2. Nothing \in Values
      BY DEF Nothing, Values
    <2> QED BY <2>1, <2>2 DEF Init, ValueTypes
  <1>2. SearchTypes /\ SearchTypes' /\ RootInv /\ RootInv' /\ ValueTypes /\ [Next]_vars
          => ValueTypes'
    BY ValueStep
  <1>3. SearchTypes /\ ValueTypes => TypeOK
    BY DEF SearchTypes, ValueTypes, TypeOK, Values
  <1> QED BY <1>1, <1>2, <1>3, SearchTypesHold, RootInvHolds, PTL DEF Spec
=============================================================================
