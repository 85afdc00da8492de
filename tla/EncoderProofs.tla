---------------------------- MODULE EncoderProofs ----------------------------
(* The decoder, for any number of turns, bounces and presses.               *)
EXTENDS Encoder, TLAPS

At(k) == State(PinA(k), PinB(k))

(* Neighbouring positions differ in one pin, and the table tells which way  *)
(* the knob has gone between them.                                          *)
LEMMA Neighbours ==
    ASSUME NEW k \in Int
    PROVE  /\ At(k) \in 0..3
           /\ PinA(k) \in {0, 1} /\ PinB(k) \in {0, 1}
           /\ Step(At(k), At(k)) = 0
           /\ Step(At(k), At(k + 1)) = 1 /\ Step(At(k + 1), At(k)) = -1
           /\ PinA(k + 1) = PinA(k) \/ PinB(k + 1) = PinB(k)
  <1>1. k % 4 \in 0..3 /\ (k + 1) % 4 = IF k % 4 = 3 THEN 0 ELSE (k % 4) + 1
    OBVIOUS
  <1>2. CASE k % 4 = 0
    BY <1>1, <1>2 DEF At, State, PinA, PinB, Step, Forward
  <1>3. CASE k % 4 = 1
    BY <1>1, <1>3 DEF At, State, PinA, PinB, Step, Forward
  <1>4. CASE k % 4 = 2
    BY <1>1, <1>4 DEF At, State, PinA, PinB, Step, Forward
  <1>5. CASE k % 4 = 3
    BY <1>1, <1>5 DEF At, State, PinA, PinB, Step, Forward
  <1> QED BY <1>1, <1>2, <1>3, <1>4, <1>5

LEMMA StepSmall == \A s, t : Step(s, t) \in -1..1
  BY DEF Step

LEMMA CountedSmall == \A n \in -3..3, d \in -1..1 : n + d \in -4..4
  OBVIOUS

LEMMA StateSmall == \A p, q \in {0, 1} : State(p, q) \in 0..3
  BY DEF State

(* A detent taken out of count and put into encoder leaves the tally.       *)
LEMMA TallyKept ==
    ASSUME NEW n \in -4..4, NEW e \in Int
    PROVE  /\ CountAfter(n) \in -3..3 /\ e + Detent(n) \in Int
           /\ CountAfter(n) - 4 * (e + Detent(n)) = n - 4 * e
           /\ n \in -3..3 => e + Detent(n) = e
  BY DEF CountAfter, Detent

-----------------------------------------------------------------------------
(* Types                                                                    *)

ValuesOK ==
    /\ knob \in Int /\ pending \subseteq Lines
    /\ handler \in Lines \cup {"none"}
    /\ stage \in {"idle", "button", "readA", "readB", "againA", "againB", "clear"}
    /\ a \in {0, 1} /\ b \in {0, 1} /\ lastState \in 0..3
    /\ count \in -3..3 /\ encoder \in Int
    /\ moves \in 0..MaxMoves /\ lo \in Int /\ hi \in Int /\ origin \in Int

FlagsOK == button \in BOOLEAN /\ hurried \in BOOLEAN /\ seen \in BOOLEAN

LEMMA ValuesStep == ValuesOK /\ [Next]_vars => ValuesOK'
  <1> SUFFICES ASSUME ValuesOK, [Next]_vars PROVE ValuesOK'
    OBVIOUS
  <1> USE DEF ValuesOK, handlerVars, decoderVars, userVars
  <1>1. CASE Enter
    BY <1>1 DEF Enter
  <1>2. CASE ReadButton
    BY <1>2 DEF ReadButton
  <1>3. CASE ReadA
    BY <1>3, Neighbours DEF ReadA
  <1>4. CASE ReadB
    BY <1>4, Neighbours DEF ReadB
  <1>5. CASE ReadAgainA \/ ReadAgainB \/ Clear
    BY <1>5 DEF ReadAgainA, ReadAgainB, Clear
  <1>6. CASE Decode
    <2> DEFINE n == count + Step(lastState, State(a, b))
    <2>1. n \in -4..4
      BY StepSmall, CountedSmall
    <2>2. State(a, b) \in 0..3
      BY StateSmall
    <2>3. /\ count' = CountAfter(n) /\ encoder' = encoder + Detent(n)
          /\ origin' = IF seen THEN origin ELSE knob - n
          /\ lastState' = State(a, b) /\ stage' = "clear"
          /\ UNCHANGED <<handler, a, b, userVars, pending>>
      BY <1>6 DEF Decode
    <2>4. count' \in -3..3 /\ encoder' \in Int
      <3> HIDE DEF n
      <3> QED BY <2>1, <2>3, TallyKept
    <2>5. origin' \in Int
      <3> HIDE DEF n
      <3> QED BY <2>1, <2>3
    <2> QED BY <2>2, <2>3, <2>4, <2>5
  <1>7. CASE Turn
    <2>1. PICK d \in {-1, 1} : knob' = knob + d
      BY <1>7 DEF Turn
    <2>2. /\ moves < MaxMoves /\ moves' = moves + 1
          /\ pending' \subseteq Lines
          /\ lo' \in {lo, knob'} /\ hi' \in {hi, knob'}
          /\ UNCHANGED <<handlerVars, decoderVars>>
      BY <1>7, Zenon DEF Turn, ValuesOK, Lines
    <2>3. knob' \in Int
      BY <2>1
    <2>4. moves' \in 0..MaxMoves
      BY <2>2, MovesAssumption
    <2> QED BY <2>2, <2>3, <2>4
  <1>8. CASE Press
    <2>1. /\ moves < MaxMoves /\ moves' = moves + 1
          /\ UNCHANGED <<knob, lo, hi, pending, handlerVars, decoderVars>>
      BY <1>8 DEF Press
    <2>2. moves' \in 0..MaxMoves
      BY <2>1, MovesAssumption
    <2> QED BY <2>1, <2>2
  <1>9. CASE UNCHANGED vars
    BY <1>9 DEF vars
  <1> QED BY <1>1, <1>2, <1>3, <1>4, <1>5, <1>6, <1>7, <1>8, <1>9 DEF Next, Handler

LEMMA FlagsStep == FlagsOK /\ [Next]_vars => FlagsOK'
  BY Zenon DEF FlagsOK, Next, Handler, Enter, ReadButton, ReadA, ReadB, ReadAgainA,
     ReadAgainB, Decode, Clear, Turn, Press, vars, handlerVars, decoderVars,
     userVars

(* The types, for any number of turns; count never holds a whole detent.    *)
THEOREM TypeCorrect == Spec => []TypeOK
  <1>0. Init => ValuesOK
    BY MovesAssumption DEF Init, ValuesOK
  <1>1. Init => FlagsOK
    BY Zenon DEF Init, FlagsOK
  <1>2. ValuesOK /\ FlagsOK => TypeOK
    BY DEF ValuesOK, FlagsOK, TypeOK
  <1> QED BY <1>0, <1>1, <1>2, ValuesStep, FlagsStep, PTL DEF Spec

-----------------------------------------------------------------------------
(* The slow knob.  While the user waits for every edge to be handled, at    *)
(* most one line is pending, its handler reads steady pins, and between an  *)
(* edge and its decoding the decoder is exactly one step behind.            *)
Behind(k) == lastState = At(k) /\ (seen => Tally = k - origin)

Slow ==
    /\ handler = "none" <=> stage = "idle"
    /\ handler # "none" => pending = {handler}
    /\ pending = {} \/ \E line \in Lines : pending = {line}
    /\ pending # {} => button
    /\ ~seen => count = 0 /\ encoder = 0
    /\ stage \in {"readB", "againA", "againB"} => a = PinA(knob)
    /\ stage \in {"againA", "againB"} => b = PinB(knob)
    /\ stage = "clear" => seen
    /\ seen /\ (pending = {} \/ stage = "clear") => Behind(knob)
    /\ seen /\ pending # {} /\ stage # "clear" =>
         Behind(knob - 1) \/ Behind(knob + 1)

SlowInv == ~hurried => Slow

LEMMA SlowStep == ValuesOK /\ SlowInv /\ [Next]_vars => SlowInv'
  <1> SUFFICES ASSUME ValuesOK, SlowInv, [Next]_vars, ~hurried'
               PROVE  Slow'
    BY DEF SlowInv
  <1> USE DEF handlerVars, decoderVars, userVars
  <1>0. Slow
    <2>1. ~hurried
      BY Zenon DEF Next, Handler, Enter, ReadButton, ReadA, ReadB, ReadAgainA,
         ReadAgainB, Decode, Clear, Turn, Press, vars
    <2> QED BY <2>1 DEF SlowInv
  <1>1. CASE Enter
    BY <1>0, <1>1 DEF Enter, Slow, Behind, Tally, At, Lines
  <1>2. CASE ReadButton
    BY <1>0, <1>2 DEF ReadButton, Slow, Behind, Tally, At
  <1>3. CASE ReadA
    BY <1>0, <1>3 DEF ReadA, Slow, Behind, Tally, At
  <1>4. CASE ReadB
    BY <1>0, <1>4 DEF ReadB, Slow, Behind, Tally, At
  <1>5. CASE ReadAgainA
    BY <1>0, <1>5 DEF ReadAgainA, Slow, Behind, Tally, At
  <1>6. CASE ReadAgainB
    BY <1>0, <1>6 DEF ReadAgainB, Slow
  <1>7. CASE Decode
    <2> DEFINE d == Step(lastState, State(a, b))
               n == count + d
    <2>1. /\ count' = CountAfter(n) /\ encoder' = encoder + Detent(n)
          /\ origin' = IF seen THEN origin ELSE knob - n
          /\ lastState' = State(a, b) /\ seen' = TRUE
          /\ stage = "againB" /\ stage' = "clear"
          /\ UNCHANGED <<handler, knob, button, pending>>
      BY <1>7 DEF Decode
    <2>2. State(a, b) = At(knob)
      BY <1>0, <2>1 DEF Slow, At
    <2>3. d \in -1..1
      BY StepSmall
    <2>4. n \in -4..4
      BY <2>3, CountedSmall DEF ValuesOK
    <2>5. count' - 4 * encoder' = n - 4 * encoder
      <3> HIDE DEF n
      <3> QED BY <2>1, <2>4, TallyKept DEF ValuesOK
    <2>6. knob \in Int /\ count \in Int /\ encoder \in Int /\ origin \in Int
      BY DEF ValuesOK
    <2>7. n - 4 * encoder = knob - origin'
      <3>1. CASE ~seen
        <4>1. encoder = 0 /\ origin' = knob - n
          BY <1>0, <2>1, <3>1 DEF Slow
        <4> HIDE DEF n
        <4> QED BY <2>4, <2>6, <4>1
      <3>2. CASE seen
        <4>1. origin' = origin /\ (Behind(knob - 1) \/ Behind(knob + 1))
          BY <1>0, <2>1, <3>2 DEF Slow
        <4>2. CASE Behind(knob - 1)
          <5>1. d = 1
            <6>1. (knob - 1) + 1 = knob
              BY <2>6
            <6> QED BY <2>2, <2>6, <4>2, <6>1, Neighbours DEF Behind
          <5>2. count - 4 * encoder = (knob - 1) - origin
            BY <3>2, <4>2 DEF Behind, Tally
          <5> HIDE DEF d
          <5> QED BY <2>6, <4>1, <5>1, <5>2
        <4>3. CASE Behind(knob + 1)
          <5>1. d = -1
            BY <2>2, <2>6, <4>3, Neighbours DEF Behind
          <5>2. count - 4 * encoder = (knob + 1) - origin
            BY <3>2, <4>3 DEF Behind, Tally
          <5> HIDE DEF d
          <5> QED BY <2>6, <4>1, <5>1, <5>2
        <4> QED BY <4>1, <4>2, <4>3
      <3> QED BY <3>1, <3>2
    <2>8. Behind(knob)'
      BY <2>1, <2>2, <2>5, <2>7 DEF Behind, Tally, At
    <2> HIDE DEF n, d
    <2> QED BY <1>0, <2>1, <2>8 DEF Slow
  <1>8. CASE Clear
    <2>1. pending' = {} /\ handler' = "none" /\ stage' = "idle"
      BY <1>0, <1>8 DEF Clear, Slow
    <2> QED BY <1>0, <1>8, <2>1 DEF Clear, Slow, Behind, Tally, At
  <1>9. CASE Turn
    <2>1. pending = {} /\ button
      BY <1>9, Zenon DEF Turn
    <2>2. stage = "idle" /\ handler = "none"
      BY <1>0, <2>1 DEF Slow, ValuesOK
    <2>3. PICK d \in {-1, 1} : knob' = knob + d
      BY <1>9 DEF Turn
    <2>4. \E line \in Lines : pending' = {line}
      BY <1>9, <2>1 DEF Turn, Lines
    <2>5. UNCHANGED <<button, handler, stage, a, b, lastState, count, encoder,
                      seen, origin>>
      BY <1>9 DEF Turn
    <2>6. seen => Behind(knob)
      BY <1>0, <2>1 DEF Slow
    <2>7. knob = knob' - 1 \/ knob = knob' + 1
      BY <2>3 DEF ValuesOK
    <2>8. seen => Behind(knob' - 1) \/ Behind(knob' + 1)
      BY <2>6, <2>7
    <2>9. (seen => Behind(knob - 1) \/ Behind(knob + 1))'
      BY <2>5, <2>8 DEF Behind, Tally, At, PinA, PinB
    <2> QED BY <1>0, <2>1, <2>2, <2>4, <2>5, <2>9 DEF Slow, Lines
  <1>10. CASE Press
    <2>1. pending = {} /\ UNCHANGED <<pending, knob, handlerVars, decoderVars>>
      BY <1>10, Zenon DEF Press
    <2> QED BY <1>0, <2>1 DEF Slow, Behind, Tally, At
  <1>11. CASE UNCHANGED vars
    BY <1>0, <1>11 DEF vars, Slow, Behind, Tally, At
  <1> QED BY <1>1, <1>2, <1>3, <1>4, <1>5, <1>6, <1>7, <1>8, <1>9, <1>10, <1>11
          DEF Next, Handler

(* Turned slowly, however far and however often back and forth, the decoder *)
(* follows the knob: no step is lost or counted twice (main.c:124).         *)
THEOREM AlwaysFollows == Spec => []FollowsTheKnob
  <1>1. Init => SlowInv
    BY DEF Init, SlowInv, Slow
  <1>2. Init => ValuesOK
    BY MovesAssumption DEF Init, ValuesOK
  <1>3. SlowInv => FollowsTheKnob
    BY DEF SlowInv, Slow, FollowsTheKnob, Behind
  <1> QED BY <1>1, <1>2, <1>3, ValuesStep, SlowStep, PTL DEF Spec

-----------------------------------------------------------------------------
(* The bouncing knob.  While it has only been at two neighbouring           *)
(* positions, a reading can mix up old and new pins and still is one of the *)
(* two, and the count only goes to and fro between two values next to each  *)
(* other, at most two away from where it started.                           *)
Between ==
    /\ lo <= knob /\ knob <= hi
    /\ hi = lo => pending = {} /\ stage = "idle" /\ ~seen
    /\ stage \in {"readB", "againA", "againB"} => a \in {PinA(lo), PinA(hi)}
    /\ stage \in {"againA", "againB"} => b \in {PinB(lo), PinB(hi)}
    /\ encoder = 0
    /\ ~seen => count = 0
    /\ seen => \E c \in -2..1 : \/ lastState = At(lo) /\ count = c
                                \/ lastState = At(hi) /\ count = c + 1

BounceInv == lo <= hi /\ (hi - lo <= 1 => Between)

(* A range grows only outwards.                                             *)
LEMMA Narrower ==
    \A l, h, m, n \in Int :
      m <= l /\ h <= n /\ l <= h /\ n - m <= 1 =>
        /\ h - l <= 1
        /\ h # l => n = h /\ m = l
  OBVIOUS

LEMMA BounceStep == ValuesOK /\ BounceInv /\ [Next]_vars => BounceInv'
  <1> SUFFICES ASSUME ValuesOK, BounceInv, [Next]_vars
               PROVE  BounceInv'
    OBVIOUS
  <1> USE DEF handlerVars, decoderVars, userVars
  <1>1. CASE Turn
    <2>1. PICK d \in {-1, 1} : knob' = knob + d
      BY <1>1 DEF Turn
    <2>2. /\ lo' = IF knob' < lo THEN knob' ELSE lo
          /\ hi' = IF knob' > hi THEN knob' ELSE hi
          /\ UNCHANGED <<handler, stage, a, b, lastState, count, encoder, seen>>
      BY <1>1 DEF Turn
    <2>3. /\ knob \in Int /\ knob' \in Int /\ lo \in Int /\ hi \in Int
          /\ lo' \in Int /\ hi' \in Int /\ lo <= hi
          /\ lo' <= lo /\ hi <= hi' /\ lo' <= knob' /\ knob' <= hi'
      BY <2>1, <2>2 DEF ValuesOK, BounceInv
    <2>4. lo' <= hi'
      BY <2>3
    <2>5. ASSUME hi' - lo' <= 1 PROVE Between'
      <3>0. hi - lo <= 1
        BY <2>3, <2>5, Narrower, Zenon
      <3>1. Between
        BY <3>0 DEF BounceInv
      <3>2. hi' # lo'
        BY <2>1, <2>2, <2>3, <3>1 DEF Between
      <3>3. CASE hi = lo
        BY <2>2, <2>3, <3>1, <3>2, <3>3 DEF Between
      <3>4. CASE hi # lo
        <4>1. hi' = hi /\ lo' = lo
          BY <2>3, <2>5, <3>4, Narrower, Zenon
        <4> QED BY <2>2, <2>3, <3>1, <3>2, <4>1 DEF Between, At
      <3> QED BY <3>3, <3>4
    <2> QED BY <2>4, <2>5, Zenon DEF BounceInv
  <1>2. ASSUME UNCHANGED <<knob, lo, hi>>, hi - lo <= 1 => Between'
        PROVE  BounceInv'
    BY <1>2 DEF BounceInv
  <1>3. CASE Enter
    BY <1>2, <1>3 DEF Enter, BounceInv, Between, At
  <1>4. CASE ReadButton
    BY <1>2, <1>4 DEF ReadButton, BounceInv, Between, At
  <1>5. CASE ReadA \/ ReadB
    <2>1. hi - lo <= 1 => knob \in {lo, hi}
      BY DEF ValuesOK, BounceInv, Between
    <2> QED BY <1>2, <1>5, <2>1 DEF ReadA, ReadB, BounceInv, Between, At
  <1>6. CASE ReadAgainA \/ ReadAgainB
    BY <1>2, <1>6 DEF ReadAgainA, ReadAgainB, BounceInv, Between, At
  <1>7. CASE Decode
    <2> DEFINE d == Step(lastState, State(a, b))
               n == count + d
    <2>1. /\ count' = CountAfter(n) /\ encoder' = encoder + Detent(n)
          /\ lastState' = State(a, b) /\ seen' = TRUE
          /\ stage = "againB" /\ stage' = "clear"
          /\ UNCHANGED <<handler, pending, a, b, userVars>>
      BY <1>7 DEF Decode
    <2>2. ASSUME hi - lo <= 1 PROVE Between'
      <3>1. Between /\ hi = lo + 1
        BY <2>1, <2>2 DEF BounceInv, Between, ValuesOK
      <3>2. lo \in Int
        BY DEF ValuesOK
      <3>3. State(a, b) \in {At(lo), At(hi)}
        BY <2>1, <3>1, <3>2, Neighbours DEF Between, At
      <3>4. \E c \in -2..1 : \/ State(a, b) = At(lo) /\ n = c
                             \/ State(a, b) = At(hi) /\ n = c + 1
        <4>1. CASE ~seen
          <5>1. count = 0 /\ d \in -1..1
            BY <3>1, <4>1, StepSmall DEF Between
          <5>2. n = d
            <6> HIDE DEF d
            <6> QED BY <5>1
          <5>3. n \in -2..1 /\ n - 1 \in -2..1 /\ n = (n - 1) + 1
            <6> HIDE DEF d, n
            <6> QED BY <5>1, <5>2
          <5> HIDE DEF d, n
          <5> QED BY <3>3, <5>3
        <4>2. CASE seen
          <5>1. PICK c \in -2..1 : \/ lastState = At(lo) /\ count = c
                                   \/ lastState = At(hi) /\ count = c + 1
            BY <3>1, <4>2 DEF Between
          <5>2. /\ Step(At(lo), At(lo)) = 0 /\ Step(At(hi), At(hi)) = 0
                /\ Step(At(lo), At(hi)) = 1 /\ Step(At(hi), At(lo)) = -1
            <6>1. lo + 1 \in Int
              BY <3>2
            <6> QED BY <3>1, <3>2, <6>1, Neighbours
          <5>3. \/ State(a, b) = At(lo) /\ n = c
                \/ State(a, b) = At(hi) /\ n = c + 1
            <6>1. CASE State(a, b) = At(lo)
              BY <5>1, <5>2, <6>1
            <6>2. CASE State(a, b) = At(hi)
              BY <5>1, <5>2, <6>2
            <6> QED BY <3>3, <6>1, <6>2
          <5> HIDE DEF n, d
          <5> QED BY <5>3
        <4> QED BY <4>1, <4>2
      <3> HIDE DEF n, d
      <3>5. n \in -3..3
        BY <3>4
      <3>6. CountAfter(n) = n /\ encoder' = 0
        BY <2>1, <3>1, <3>5 DEF CountAfter, Detent, Between
      <3> QED BY <2>1, <3>1, <3>4, <3>6 DEF Between, At
    <2> QED BY <1>2, <2>1, <2>2
  <1>8. CASE Clear
    BY <1>2, <1>8 DEF Clear, BounceInv, Between, At
  <1>9. CASE Press
    <2>1. UNCHANGED <<knob, lo, hi, pending, handlerVars, decoderVars>>
      BY <1>9 DEF Press
    <2> QED BY <1>2, <2>1 DEF BounceInv, Between, At
  <1>10. CASE UNCHANGED vars
    BY <1>2, <1>10 DEF vars, BounceInv, Between, At
  <1> QED BY <1>1, <1>3, <1>4, <1>5, <1>6, <1>7, <1>8, <1>9, <1>10
          DEF Next, Handler

(* A contact that bounces between two positions, however fast, never counts *)
(* a detent (main.c:115).                                                   *)
THEOREM BounceNeverCounts == Spec => []BounceCountsNothing
  <1>1. Init => BounceInv
    BY DEF Init, BounceInv, Between
  <1>2. Init => ValuesOK
    BY MovesAssumption DEF Init, ValuesOK
  <1>3. BounceInv => BounceCountsNothing
    BY DEF BounceInv, Between, BounceCountsNothing
  <1> QED BY <1>1, <1>2, <1>3, ValuesStep, BounceStep, PTL DEF Spec
=============================================================================
