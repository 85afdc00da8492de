------------------------------- MODULE Encoder -------------------------------
(* The rotary encoder (fw/main.c, lines 101-159): two pins in quadrature,   *)
(* an interrupt on every edge of either, and update_encoder, which decodes  *)
(* the pins with a table.  The handler keeps interrupts off, reads the      *)
(* button and the pins one by one, waits 100 us, reads the pins again, and  *)
(* clears its flag at the end: the knob may move between any two of these,  *)
(* and an edge that comes before the flag is cleared raises no further      *)
(* interrupt.  main's reading of the counter is the subject of              *)
(* HeaterControl.                                                           *)
EXTENDS Integers

CONSTANT MaxMoves   \* bound: what the user does, quarter steps and presses

ASSUME MovesAssumption == MaxMoves \in Nat

VARIABLES
    knob,       \* the position of the knob, in quarter steps
    button,     \* the level of PIN_BTN, TRUE when released
    pending,    \* the lines, "A" and "B", whose flag is set in EXTI->INTFR
    handler,    \* the line whose handler runs, or "none"
    stage,      \* what the handler does next
    a, b,       \* its first readings of the pins
    lastState, count,   \* the statics last_state and count
    encoder,            \* the counter main looks at
    moves,      \* how often the user has done something
    lo, hi,     \* history: the lowest and highest position so far
    hurried,    \* history: the user acted while an edge was unhandled, or
                \* turned with the button held
    seen,       \* history: an edge has been decoded
    origin      \* history: the position the decoder counts from since then

handlerVars == <<handler, stage, a, b>>
decoderVars == <<lastState, count, encoder, seen, origin>>
userVars    == <<knob, button, moves, lo, hi, hurried>>
vars == <<handlerVars, decoderVars, userVars, pending>>

(* The pins at a position.                                                  *)
PinA(k) == IF k % 4 \in {2, 3} THEN 1 ELSE 0
PinB(k) == IF k % 4 \in {1, 2} THEN 1 ELSE 0

(* (a << 1) | b                                                             *)
State(p, q) == 2 * p + q

(* The entries of state_table that are 1; those that are -1 are their       *)
(* reverse, and the others are 0.                                           *)
Forward == {<<0, 1>>, <<1, 3>>, <<3, 2>>, <<2, 0>>}

(* Mutant of Step: the table has the backward steps only.                   *)
StepBackOnly(s, t) == IF <<t, s>> \in Forward THEN -1 ELSE 0

(* state_table[s][t]                                                        *)
Step(s, t) ==
    IF <<s, t>> \in Forward THEN 1 ELSE IF <<t, s>> \in Forward THEN -1 ELSE 0

(* Mutant of CountAfter: no reset after a detent back.                      *)
CountAfterForward(n) == IF n = 4 THEN 0 ELSE n

(* Four steps one way are a detent, which starts the count again.           *)
CountAfter(n) == IF n \in {4, -4} THEN 0 ELSE n

(* Mutant of Detent: ENCODER_INV is overlooked.                             *)
DetentUninverted(n) == CASE n = 4 -> 1 [] n = -4 -> -1 [] OTHER -> 0

(* What a detent adds to encoder; ENCODER_INV is set.                       *)
Detent(n) == CASE n = 4 -> -1 [] n = -4 -> 1 [] OTHER -> 0

(* The iron is switched on with the knob anywhere.                          *)
Init ==
    /\ knob \in 0..3 /\ button = TRUE /\ pending = {}
    /\ handler = "none" /\ stage = "idle" /\ a = 0 /\ b = 0
    /\ lastState = 0 /\ count = 0 /\ encoder = 0
    /\ moves = 0 /\ lo = knob /\ hi = knob
    /\ hurried = FALSE /\ seen = FALSE /\ origin = 0

-----------------------------------------------------------------------------
(* EXTI7_0_IRQHandler and EXTI15_8_IRQHandler, one at a time.               *)

Enter ==
    /\ handler = "none"
    /\ \E line \in pending : handler' = line
    /\ stage' = "button"
    /\ UNCHANGED <<a, b, decoderVars, userVars, pending>>

(* update_encoder returns at once while the button is held.                 *)
ReadButton ==
    /\ stage = "button"
    /\ stage' = IF button THEN "readA" ELSE "clear"
    /\ UNCHANGED <<handler, a, b, decoderVars, userVars, pending>>

ReadA ==
    /\ stage = "readA" /\ stage' = "readB"
    /\ a' = PinA(knob)
    /\ UNCHANGED <<handler, b, decoderVars, userVars, pending>>

(* ... and Delay_Us(100).                                                   *)
ReadB ==
    /\ stage = "readB" /\ stage' = "againA"
    /\ b' = PinB(knob)
    /\ UNCHANGED <<handler, a, decoderVars, userVars, pending>>

(* The debounce: a pin that has changed ends update_encoder.                *)
ReadAgainA ==
    /\ stage = "againA"
    /\ stage' = IF PinA(knob) = a THEN "againB" ELSE "clear"
    /\ UNCHANGED <<handler, a, b, decoderVars, userVars, pending>>

ReadAgainB ==
    /\ stage = "againB" /\ PinB(knob) # b
    /\ stage' = "clear"
    /\ UNCHANGED <<handler, a, b, decoderVars, userVars, pending>>

(* Steady pins are decoded.                                                 *)
Decode ==
    /\ stage = "againB" /\ PinB(knob) = b
    /\ stage' = "clear"
    /\ LET n == count + Step(lastState, State(a, b))
       IN  /\ count' = CountAfter(n)
           /\ encoder' = encoder + Detent(n)
           /\ origin' = IF seen THEN origin ELSE knob - n
    /\ lastState' = State(a, b)
    /\ seen' = TRUE
    /\ UNCHANGED <<handler, a, b, userVars, pending>>

(* The handler clears the flag of its line, whether or not another edge has *)
(* set it again, and returns.                                               *)
Clear ==
    /\ stage = "clear" /\ stage' = "idle"
    /\ pending' = pending \ {handler}
    /\ handler' = "none"
    /\ UNCHANGED <<a, b, decoderVars, userVars>>

Handler ==
    \/ Enter \/ ReadButton \/ ReadA \/ ReadB \/ ReadAgainA \/ ReadAgainB
    \/ Decode \/ Clear

-----------------------------------------------------------------------------
(* The user                                                                 *)

(* A quarter step, or a bounce of the contacts: the edge of one pin.        *)
Turn ==
    /\ moves < MaxMoves /\ moves' = moves + 1
    /\ \E d \in {-1, 1} : knob' = knob + d
    /\ pending' = pending \cup {IF PinA(knob') # PinA(knob) THEN "A" ELSE "B"}
    /\ lo' = IF knob' < lo THEN knob' ELSE lo
    /\ hi' = IF knob' > hi THEN knob' ELSE hi
    /\ hurried' = (hurried \/ pending # {} \/ ~button)
    /\ UNCHANGED <<button, handlerVars, decoderVars>>

Press ==
    /\ moves < MaxMoves /\ moves' = moves + 1
    /\ button' = ~button
    /\ hurried' = (hurried \/ pending # {})
    /\ UNCHANGED <<knob, lo, hi, pending, handlerVars, decoderVars>>

Next == Handler \/ Turn \/ Press

Spec == Init /\ [][Next]_vars

-----------------------------------------------------------------------------
(* Properties                                                               *)

Lines == {"A", "B"}

(* The types of the variables; a whole detent never stays in count.         *)
TypeOK ==
    /\ knob \in Int /\ button \in BOOLEAN /\ pending \subseteq Lines
    /\ handler \in Lines \cup {"none"}
    /\ stage \in {"idle", "button", "readA", "readB", "againA", "againB", "clear"}
    /\ a \in {0, 1} /\ b \in {0, 1} /\ lastState \in 0..3
    /\ count \in -3..3 /\ encoder \in Int
    /\ moves \in 0..MaxMoves /\ lo \in Int /\ hi \in Int
    /\ hurried \in BOOLEAN /\ seen \in BOOLEAN /\ origin \in Int

(* The steps counted so far; ENCODER_INV makes a detent count down.         *)
Tally == count - 4 * encoder

(* Turned so slowly that every edge is handled before the next, the decoder *)
(* follows the knob from the first edge on, whichever line's handler runs   *)
(* and however it is turned back and forth: nothing is lost or counted      *)
(* twice, and presses in between do no harm.                                *)
FollowsTheKnob == ~hurried /\ pending = {} /\ seen => Tally = knob - origin

(* A bouncing contact, however fast it bounces and wherever that hits the   *)
(* handler, never moves the counter: the knob has to pass a second edge.    *)
(* (The comment at main.c:115 fears several updates of one detent.)       *)
BounceCountsNothing == hi - lo <= 1 => encoder = 0
=============================================================================
