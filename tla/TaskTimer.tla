------------------------------ MODULE TaskTimer ------------------------------
(* The task timers of fw/main.c (timer_set and timer_expired, lines 17-33)  *)
(* as the coroutines c_update_duty and c_draw_main_ui use them (lines       *)
(* 515-568) when the main loop polls them once in each pass.  The state of  *)
(* a coroutine is whether it has reached its coro_wait_until.  funSysTick32 *)
(* is the low word of a counter that is never reset: time passes in the     *)
(* rest of the pass (displaying the frame, mostly) and in Delay_Ms.         *)
EXTENDS Integers

CONSTANTS
    DutyPeriod, UiPeriod, \* 50 ms and 33 ms, in ticks
    OffDelay,             \* TURN_OFF_DELAY, in ticks
    MaxPass,              \* the longest pass of the main loop, in ticks
    Word,                 \* number of values of a uint32_t
    MaxUptime             \* bound: when observation ends

ASSUME TicksAssumption ==
    /\ DutyPeriod \in Nat /\ UiPeriod \in Nat /\ OffDelay \in Nat
    /\ MaxPass \in Nat \ {0} /\ MaxUptime \in Nat
    /\ Word \in Nat \ {0} /\ DutyPeriod < Word /\ UiPeriod < Word

VARIABLES
    pc,      \* "duty", "delay", "measure", "ui", "rest"
    uptime,  \* ticks since power on
    start,   \* struct timer's start of each task
    waiting, \* the coroutine has started its timer and waits for it
    since,   \* history: the uptime of each task's timer_set
    measured \* history: the uptime of the last tip measurement

vars == <<pc, uptime, start, waiting, since, measured>>

Tasks == {"duty", "ui"}
Period(t) == IF t = "duty" THEN DutyPeriod ELSE UiPeriod

(* funSysTick32                                                             *)
Now == uptime % Word

Init ==
    /\ pc = "duty" /\ uptime = 0 /\ measured = 0
    /\ start = [t \in Tasks |-> 0] /\ since = [t \in Tasks |-> 0]
    /\ waiting = [t \in Tasks |-> FALSE]

(* timer_set                                                                *)
TimerSet(t) ==
    /\ start' = [start EXCEPT ![t] = Now]
    /\ since' = [since EXCEPT ![t] = uptime]

(* Mutant of Expired: a timer that is due, but not over, has expired.       *)
ExpiredEarly(t) == Now >= (start[t] + Period(t)) % Word

(* timer_expired: the sum wraps in a uint32_t before it is compared.        *)
Expired(t) == Now > (start[t] + Period(t)) % Word

(* Ticks pass, within the time observed.                                    *)
Elapse(d) == uptime + d <= MaxUptime /\ uptime' = uptime + d

-----------------------------------------------------------------------------
(* c_update_duty                                                            *)

(* Both coroutines begin a round with timer_set and test it at once.        *)
Start(t) ==
    /\ pc = t /\ ~waiting[t]
    /\ TimerSet(t)
    /\ waiting' = [waiting EXCEPT ![t] = TRUE]
    /\ UNCHANGED <<pc, uptime, measured>>

(* Mutant of DutyReturn: the next call starts from the top.                 *)
DutyReturnRestarts ==
    /\ pc = "duty" /\ waiting["duty"] /\ ~Expired("duty")
    /\ pc' \in {"ui", "rest"}
    /\ waiting' = [waiting EXCEPT !["duty"] = FALSE]
    /\ UNCHANGED <<uptime, start, since, measured>>

(* Not yet: back to the loop, which polls the other coroutine on the        *)
(* heating screen only.                                                     *)
DutyReturn ==
    /\ pc = "duty" /\ waiting["duty"] /\ ~Expired("duty")
    /\ pc' \in {"ui", "rest"}
    /\ UNCHANGED <<uptime, start, waiting, since, measured>>

(* Time over: the PWM is switched off ...                                   *)
DutyExpired ==
    /\ pc = "duty" /\ waiting["duty"] /\ Expired("duty")
    /\ pc' = "delay"
    /\ UNCHANGED <<uptime, start, waiting, since, measured>>

(* ... the tip gets time to settle ...                                      *)
DutyDelay ==
    /\ pc = "delay" /\ pc' = "measure"
    /\ Elapse(OffDelay)
    /\ UNCHANGED <<start, waiting, since, measured>>

(* ... and is measured, which takes no time to speak of; the for(;;) of the *)
(* coroutine goes round.                                                    *)
DutyMeasure ==
    /\ pc = "measure" /\ pc' = "duty"
    /\ measured' = uptime
    /\ waiting' = [waiting EXCEPT !["duty"] = FALSE]
    /\ UNCHANGED <<uptime, start, since>>

-----------------------------------------------------------------------------
(* c_draw_main_ui                                                           *)

UiReturn ==
    /\ pc = "ui" /\ waiting["ui"] /\ ~Expired("ui")
    /\ pc' = "rest"
    /\ UNCHANGED <<uptime, start, waiting, since, measured>>

(* A frame is drawn into memory and the coroutine goes round.               *)
UiDraw ==
    /\ pc = "ui" /\ waiting["ui"] /\ Expired("ui")
    /\ waiting' = [waiting EXCEPT !["ui"] = FALSE]
    /\ UNCHANGED <<pc, uptime, start, since, measured>>

(* The rest of the pass.                                                    *)
Rest ==
    /\ pc = "rest" /\ pc' = "duty"
    /\ \E d \in 1..MaxPass : Elapse(d)
    /\ UNCHANGED <<start, waiting, since, measured>>

(* Everything but the measurement, to which the pid belongs (DutyControl).  *)
Timing ==
    \/ \E t \in Tasks : Start(t)
    \/ DutyReturn \/ DutyExpired \/ DutyDelay
    \/ UiReturn \/ UiDraw \/ Rest

Next == Timing \/ DutyMeasure

Spec == Init /\ [][Next]_vars

-----------------------------------------------------------------------------
(* Properties                                                               *)

(* The tip reading the duty cycle and the safety logic work with is never   *)
(* older than a period, one pass of the loop and the settling delay.        *)
TipReadingFresh == uptime - measured <= DutyPeriod + MaxPass + OffDelay

(* However often the tick counter wraps, only one thing makes the reading   *)
(* stale: the deadline set after it lies so close to the wrap that the loop *)
(* may step over the ticks in which the timer has expired (main.c:32).      *)
StaleOnlyByWrap ==
    TipReadingFresh \/ (measured + DutyPeriod) % Word >= Word - MaxPass

(* However often the counter wraps, the heater is paused for a measurement  *)
(* no sooner than a period after the last one, except in the last period    *)
(* before the wrap, where a deadline that has wrapped is over at once.      *)
PausesSpaced ==
    [][measured' # measured =>
         \/ measured' - measured > DutyPeriod + OffDelay
         \/ (measured % Word) + DutyPeriod >= Word]_vars
=============================================================================
