# The soldering iron's firmware in TLA+

This directory holds a verification development for the firmware of the USB-C
soldering iron (`fw/` of the repository, for a CH32X035, a RISC-V
microcontroller). It consists of TLA+ modules translated from the C source,
configurations with which TLC checks small instances, and proofs for TLAPS that
hold for every value of the constants. `PROJECT.json` lists every run, what each
definition was translated from, the hazards the properties are meant for and
the theorems.

    tlc -workers 2 -config Heater.cfg HeaterControl.tla
    tlapm HeaterControlProofs.tla

Line numbers below are those of the repository's `fw/` files.

## 1. Inventory

### The program

One processor, no operating system. `main` (main.c:571) sets the hardware up,
negotiates a power contract with the USB-C source, and then loops for ever.
Beside it run interrupt handlers (the encoder's two lines, USB PD, USB console)
and peripherals that act on their own: the PWM timer TIM3 that drives the
heater's mosfet, the ADC with DMA, the PD transceiver with DMA into `s_buffer`,
I2C, and the free-running SysTick counter.

| part | source | state | operations | talks to |
|---|---|---|---|---|
| main loop, heater state machine | main.c:571-694, pwm_* 302-362 | `state`, `enabled`, `button`, `duty`, `pd_profile.set_temp`, PIN_12V, TIM3 | one pass of `for(;;)`: button, sensors, coroutines, MENU or HEATING | reads `encoder` and zeroes it; writes TIM3 and PIN_12V |
| rotary encoder | main.c:90-159 | `last_state`, `count`, `encoder`, EXTI flags | two edge interrupts, `update_encoder` | main reads and zeroes `encoder` |
| USB PD engine | usbpd.h:584-979, pd.c:24-61 | `s_instance` (state, debounce, capabilities, message ID), `s_buffer`, the transceiver | `USBPD_SinkNegotiate` (polled), `USBPD_SelectPDO`, `USBPD_IRQHandler` | the source; shares `s_buffer`, `s_instance` and the transmitter between handler and main |
| profile and duty limit | pd.c:64-127, main.c:602-613, filter.h:25-44 | `pd_profile`, `cap_count` | `pd_get_profile`, `isqrt`, `max_duty` | reads the capabilities the PD handler writes, sends a Request |
| task timers and coroutines | main.c:17-33, 515-568, coroutine.h | `struct timer`, the coroutine's label | `timer_set`, `timer_expired`, `coro_wait_until` | SysTick; decides when tip and duty cycle are renewed |
| sensors | main.c:72-78, 187-300, 482-512, filter.h:13-25, ntc.h | averages, ADC buffers | regular conversions by DMA, injected conversion on demand | feed the safety checks, the pid and the screen |
| pid and fixed point | main.c:365-408, fpmath.h | integrator, previous error and time | `pid`, saturating arithmetic | computes `duty` |
| I2C master, display, accelerometer | lib_i2c.c, display.c, sc7a20.c | peripheral registers, the transfer buffer of `u8x8_byte_i2c` | start, send, read, stop with a timeout at every wait | display on every pass, accelerometer during setup; every result is ignored |
| USB console, hardware files | usb_config.h, `hw/`, `3D/`, `sim/` | - | - | - |

### What is hard here

* **Interleaving.** The encoder's handler runs between any two steps of main
  and has its pins change under its own readings. main and the PD handler share
  one message buffer and one transmitter without a lock. TIM3 loads its compare
  register at its own time.
* **Order.** The safety checks of a pass run after the 12 V rail was raised and
  only clear `enabled`; what that means for the rail is decided one or two
  passes later. The PD engine sends a Request before it records that it waits
  for an answer, and the handler takes any message in any state.
* **Failure.** Messages are lost or repeated; the source rejects, changes its
  offer or resets; five seconds run out; `pd_get_profile` fails and main goes on.
  A display is unplugged in the middle of a transfer, a device holds the I2C bus,
  and what one transfer gave up is still pending in the next. An injected
  conversion does not end.
* **Numbers at their limits.** A tick counter that wraps, a set temperature in
  an unsigned 16-bit integer, units of voltage, current and power, a binary
  search that has to end for 0 and 1, averages that truncate, saturating
  fixed-point terms divided by a time that may be zero or wrap.

What makes each part correct:

* heater: rail and pulse are down in the menu; only a press starts the heater;
  a fault ends the heating; the tip is measured between pulses; the knob moves
  the set temperature the way it is turned;
* encoder: a slow knob is followed exactly, a bouncing contact counts nothing;
* PD engine: success means a contract; only voltages the iron can take are
  supplied; the negotiation ends; the profile used is the one supplied;
* profile: the first fitting PDO is requested, failure means there is none, the
  duty limit keeps the mean voltage within the power limit;
* timers: the tip reading stays fresh and the pauses keep their distance, and where
  the wrap of the counter spoils that is known exactly;
* sensors: whatever the averages held, a constant input is read as what it is, and
  what is over a limit is seen in time; no reading leaves the range of its
  sensor; the screen shows what the program has;
* pid: the duty cycle keeps to the limit whatever saturates; a pause clears the
  integrator;
* I2C: success means arrival; the bus is given back; no call lasts for ever, and a
  transfer costs two timeouts at most; the display comes back after a failure.

## 2. Modules

| module | what it is |
|---|---|
| `IronModes` | abstract specification: menu, standby, heating, and a rail that may only rise in heating and has to fall afterwards |
| `HeaterControl` | the main loop, TIM3, the user and the encoder's effect; implements `IronModes` |
| `HeaterControlProofs` | its theorems |
| `Encoder`, `EncoderProofs` | the encoder's interrupt handlers and decoder, and their theorems |
| `PdSink`, `MCPdSink`, `PdSinkProofs` | PD engine, handler, `pd_negotiate`, `pd_get_profile` in outline, transceiver, source; offers for TLC; theorems |
| `PdProfile`, `MCPdProfile`, `PdProfileProofs` | `pd_get_profile` PDO by PDO, `max_duty`, `isqrt`; offers for TLC; theorems |
| `TaskTimer`, `TaskTimerProofs` | timers and coroutines with the tick counter's wrap; theorems |
| `FixedPoint` | the arithmetic of fpmath.h |
| `DutyControl`, `MCDutyControl`, `DutyControlProofs` | `c_update_duty` complete: `TaskTimer` composed with the pid in `FixedPoint`; theorems |
| `I2cMaster`, `I2cProofs` | driver, callers, peripheral and devices of the I2C bus; theorems |
| `Sensors`, `MCSensors`, `SensorsProofs` | ADC, conversions, averages, safety comparisons and what the screen shows; inputs for TLC; theorems |

The modules meet where the code's parts meet. `HeaterControl` takes the
encoder's result as "one detent more or less, unless the button is held", which
`Encoder` produces, and "the 50 ms are over" as a free choice, which `TaskTimer`
decides. `PdSink` takes the choice of a PDO as "the first that fits", which
`PdProfile` computes. `DutyControl` extends `TaskTimer` and `FixedPoint`; its
`duty` is what `HeaterControl` takes from `Duties`. `HeaterControl`'s set `over` is
computed by `Sensors!Over`. `I2cMaster` says how long the display may hold up a
pass, which is `TaskTimer`'s `MaxPass`.

### HeaterControl

`pc` names the piece of the pass that runs next; a pass is split exactly where
another actor can be noticed (see the list at the top of the module). Sensors
are abstracted to the set `over` of readings beyond their limit: `Sample` draws
current and board temperature, `DutyMeasure` the tip. The pid's result is any
duty cycle of `Duties`. TIM3 is modelled by its preload register `cvr`, the
active compare value `ccr`, the counter-enable bit and the level of the gate:
`pwm_set` writes `cvr` only; `pwm_on` forces an update event; `pwm_off` stops the
counter, which leaves the gate as it is, and writes a preload that is not loaded
any more. `MenuRead` and `MenuSet` are two steps, so detents counted between
reading and zeroing `encoder` are lost, as in the code; `encoder` is not volatile
and the build loads it once for the test and the use. The two clamps are part
of `MenuSet`, in the code's order and in unsigned 16-bit arithmetic (`Word`).

`armed` and `hotPasses` are history variables; nothing reads them but the
properties.

### Encoder

Each read of a pin is a step, and the knob may turn between any two. EXTI flags
are a set; `Clear` removes the handler's line even if it was set again, so that
edge is never decoded. `hurried` records that the user acted faster than the
handler or turned while the button was held, `origin` where counting began:
`last_state` starts at 00 wherever the knob is, which shifts the decoder against
the detents by up to two quarter steps for good. A consequence a user can feel:
after power-on the first detent may not be counted, and counting may happen in
the middle of later ones.

### PdSink

The interrupt handler preempts main (`MainRuns`). `SendMessage` does not ask
whether the transmitter is busy; if it is, what goes out may be damaged. The
source follows the protocol as the engine relies on it: it repeats a message
until its GoodCRC arrives, acknowledges and answers a new Request, acknowledges
and drops one that repeats an ID. `Deliver` loses what arrives while the
receiver is off. `HardReset` is a restart of the iron, which is powered by the
source. USBPD_Reset is called nowhere and is left out; so are extended messages
and PPS requests, which pd.c never makes. `quiet` is chosen at the start and
divides the behaviours into those in which anything may go wrong and those in
which nothing does: what the code promises only undisturbed is stated for the
latter.

### PdProfile

The loop over the PDOs with the conversion (`Convert`), the test and the check of
the index (`Select`), and the Request (`Request`) as steps of their own, since the
handler may replace the offer between any two; then main's three lines for
`max_duty` with `isqrt`'s loop round by round. A failed search leaves the profile
zero, main does not look, and the division by zero is modelled as the RISC-V
instruction computes it (all ones, then cut to 100); the compiler is free to do
otherwise. `seen` is history: the PDOs as the loop read them, which is what the
search can answer for if the offer does not stay. What the handler does to a Request
that is being built, sent or answered is `PdSink`'s part.

### TaskTimer

`Now` is the low word of a counter that never stops, `Expired` adds and compares
in that word. A pass takes 1 to `MaxPass` ticks; the coroutine of the screen is
polled or not, as the mode has it. The time that the injected conversion is polled
for (microseconds; at worst the million polls of main.c:286) is taken as none.

### DutyControl and FixedPoint

`DutyControl` is `TaskTimer` with `Pid` in the place of the measurement: `ErrI`,
`ErrD` and `Output` are the lines of `pid` in the order of its additions, since
saturation makes them order-dependent. The widths are constants (`One` = 2^16 and
`IntMax` = 2^15 in the code, `Word` = 2^32): the product of two numbers of that
size is beyond TLC's integers, and the proofs hold for all of them. The
temperature difference is any of `Deltas` each time, so nothing is assumed about
how the tip answers. `Toggle` is what the main loop does to `enabled`. `called`,
`resumed` and `oldest` are history: the uptime without wrap of the last call, of
the first call since the last pause, and of the oldest call that is in `intgrt`.

### I2cMaster

`pc` is the wait the driver is in, or the place between two. The peripheral moves
on its own between any two steps: an interrupt may stop the driver anywhere, so
it may move several times, or not at all. `out` is the data register followed by
the shift register, `in` counts received bytes not yet read. A wait runs out
(`Fail`) only when nothing on the bus can move (`Quiet`): 50000 polls are more
than a hundred bytes long and neither device stretches the clock; in a quiet
bus only another device or a plug could change anything. `i2c_start` asks for
START even after the wait for a free bus has run out, as in the code, whose
error return is commented out. `lingers` stands for a question the driver's code
does not answer: whether a STOP set on a free bus is forgotten or ends the next
START; both are modelled, one value for the whole behaviour. The callers are
u8g2's three messages to `u8x8_byte_i2c`, the table of `sc7a20_init`, and the
functions the program has and does not call (`GetReadings`). The bytes are pairs
that tell transfers and positions apart.

### Sensors

The arithmetic is that of the code at full width. Between two passes the scan
goes round many times; `Convert` models the last round, in the middle of which
the input may change. `UpdatePower` is one pass, `UpdateTip` one measurement of
the tip. `Digits`, `Segments`, `ShownTemp`, `ShownAmps`, `ShownVolts` and `Bar` are
what the screen makes of the averages.

## 3. Runs

| run | question and answer |
|---|---|
| `heater` | Can any interleaving of passes, presses, detents, faults and PWM events leave the rail up in the menu (`MenuIsCold`), start the heater without a press (`RailNeedsPress`), drive the rail for more than two passes of a fault however fast the user presses (`FaultDrivesAtMostTwoPasses`), measure in a pulse of the running timer (`SampledBetweenPulses`) or move the set temperature the wrong way (`SetTempFollowsKnob`)? Does a lasting fault end the heating (`FaultEndsHeating`), and does the loop implement the three modes (`ModesSpec`, with liveness)? No, and yes. |
| `heater_sampling` | Violated. The comment above `c_update_duty` (main.c:545) asks that the PWM be off. A press that stops the timer inside a pulse leaves the gate high until the rail falls in the next pass; if the 50 ms are over in that pass, the tip is measured with the heater on. |
| `encoder` | Does the decoder follow a slow knob (`FollowsTheKnob`), and can bouncing count detents (`BounceCountsNothing`)? Yes, and no: the several updates the FIXME at main.c:115 reports need a knob that moves by more than one edge. |
| `negotiation` | With losses, collisions, a rejection, a changed offer, a hard reset and the time limit: success means a contract (`SuccessMeansContract`), VBUS only carries a voltage that fits (`OnlyFittingVoltages`), the negotiation ends (`NegotiationEnds`). Undisturbed, every offer leads to success (`NegotiationSucceeds`), the Request for the profile is never lost (`RequestIsServed`) and the profile becomes true (`QuietTakesEffect`). |
| `pd_collision` | Violated. Without a single lost message, but with main allowed to send while the handler's GoodCRC is going out, the Request for the profile is lost or dropped; nothing repeats it, and the iron works with a voltage it does not get. |
| `profile` | For all offers of three PDOs out of five kinds, replaced at any point: the position requested is that of the first PDO that met the requirement when it was read, and the profile describes that PDO (`RequestsFirstFit`); failure means that none fits (`FailsOnlyWithoutFit`); `RootIsExact`, `MeanVoltageFits`, and main gets to its loop (`StartupEnds`). |
| `profile_power` | Violated. pd.h:17 says that `max_duty` stays within the power limit; it is the duty cycle whose mean *voltage* dissipates the limit, but a switched resistor takes duty * V * V / R: 120 W at 20 V and 75 % for a limit of 95 W. |
| `duty_control` | The task timer across the wrap of its counter: the tip reading is more than a period, a pass and a delay old only if the deadline after it lies within a pass of the wrap, so that the loop may step over the ticks in which the timer has expired (`StaleOnlyByWrap`), and the heater is paused sooner than a period after the last measurement only in the last period before the wrap, where a deadline that has wrapped is over at once (`PausesSpaced`). With temperature differences that saturate every term of the pid, its output is a duty cycle within the limit (`DutyInRange`), and the integrator holds nothing from before a pause (`IntegralIsRecent`). |
| `task_timer_stale` | Violated. If `start + set` lies just below the wrap and a pass steps over the ticks above it, the timer does not expire for a whole turn of the counter, although the comment at main.c:29 says that `timer_expired` checks whether enough time has passed. A deadline equal to the last value of the counter is never exceeded at all. |
| `i2c` | Devices that come and go within a transfer, a bus that is held, every timeout: what `i2c_sendBytes` reports as done has arrived complete and in order (`OkMeansReceived`), u8g2's transfers stay within the buffer (`BufferInBounds`), no call leaves the bus claimed (`BusGivenBack`), a transfer runs into two timeouts at most (`TwoTimeoutsAtMost`), every call returns (`CallsReturn`), and once the bus is free and the display there for good its transfers succeed again (`DisplayRecovers`). |
| `sensors` | A constant input is read as what it is within the 15 units of the truncating average, whatever came before: an input that changed in the middle of a scan, a conversion that timed out (`AveragesSettle`). A short circuit is over the limit of 5 A within 21 passes (`ShortSeenInTime`). The tip never reads farther above the warmest board than the full scale of its amplifier (`TipInReach`), which is what the comparison of main.c:663 has to work with. Digits, segments and the bar show what the program has (`ScreenTells`). The thermistor's table and its interpolation never turn (`NtcFalls`, over all 4096 readings). |
| `pid_pause` | Violated. After a pause of 32.8 s or more the milliseconds do not fit the `int16_t` of `i2fp`; dt comes out negative or small, and the integrator is kept where main.c:380 says that a pause resets it. |

### Other things the models show

They have no run of their own.

* Shortly before the wrap, `start + set` wraps and the timer has expired at once;
  the coroutine then measures again and again without returning. pd.c:40, which
  compares the difference, is right.
* An offer made after the negotiation puts the engine in `eSTATE_SOURCE_CAP` and
  is never answered, because `USBPD_SinkNegotiate` is not called any more, although
  usbpd.h:521 asks for periodic calls.
* pd.c:114 says that the PDO selected meets the minimum requirement. If the offer is
  replaced after that PDO was read, the Request names whatever is at its position
  by then: a PDO that does not meet it, or, if the handler comes between the check of
  usbpd.h:753 and the Request, one that is not in the offer at all (`Select`,
  `NewOffer`, `Request` of `PdProfile`). The profile describes the old one.
  `RequestsFirstFit` says of a replaced offer what the search can answer for, the
  PDOs it has read.
* A failed `pd_get_profile` leads to `max_duty` = 100.
* A battery PDO's current is computed as watts * 1000 / millivolts (pd.c:85), which
  is amperes where pd.h:12 says milliamps (`BatteryValues`): 120 W at 9 V give 13,
  and the over-current check of main.c:657 trips at once.
* Detents counted between the read of `encoder` and its zeroing are lost (`MenuSet`).
* `tip_temp_c` is unsigned and the reading is not: a tip that reads below 0 degrees C
  wraps, and its average falls from 65535 and wraps again, for ever (`UpdateTip` with
  an `ntc` of 3300 and a `tip` of 0). It is over MAX_TIP_TEMP most of the time, and the
  safety check of main.c:663 switches the heater off again. `AveragesSettle` is
  therefore checked with irons above 0 degrees only, and proved for them
  (`BoardWarm`).
* The tip amplifier saturates at 477 degrees above the board. With the up to 15
  degrees the average stays below, MAX_TIP_TEMP = 500 is out of reach of the reading
  while the board is below 24 to 39 degrees: a broken thermocouple, which reads as
  full scale, does not stop the heating of a cool board. `TipLimitOutOfReach` proves
  the lower of the two bounds, for boards of 23 degrees at most.
* A thermistor that is not connected reads as -55 degrees, which is below the limit
  (`NtcOf`).
* If the first injected conversion times out, 1200*4096 is divided by 0; the
  processor answers with all ones and vcc falls a little (`VccOf`). A full-scale
  current is then 7730 mA instead of 8247, and less with every further one: 7247,
  6792, 6367, 5967, 5592 and, after seven in a row, 5242 mA. A short circuit is then
  not over 5 A and a tenth until a conversion succeeds. After one it takes up to 21 passes,
  not 20 (`TipEvery` = {20}, `Burst` = 20 end at 5490 mA after 20).
* The bar's percentage is a `uint8_t`: above 255 % of the power set it starts again.
* An unplugged display costs a timeout of 50000 polls in each transfer of each
  frame, and the safety checks wait for it. `i2c_readRegTx_buffer` always runs into
  the timeout for a free bus at its repeated start, since the bus is its own.
* `i2c_readBytes` clears ACK for the last byte after that byte may have begun: an
  interrupt between ADDR and there lets the device send one byte too many.
* `sc7a20_get_readings` reads six bytes also if the register number was not taken.
* `isqrt(65535)` would not end: its upper bound wraps to 0. main's largest argument
  is 237, which is what `WordAssumption` says.

### Bounds

* `Heater.cfg`: four set temperatures, detents -3..3 with a fast turn from 2, so
  that slow and fast turns both ways meet both limits. `Word` = 16 keeps the
  unsigned wrap visible and still has room above the limits, as 65536 has. Three
  duty cycles (none, some, all); two sensors, one renewed in every pass and one
  only with the duty cycle (board and current sensor behave alike).
  `TimMax` = 3 distinguishes pulses of zero, some and all of a period.
* `Encoder.cfg`: eight actions from any of four starting positions: a detent and
  back, or two detents, or four bounces, with all interleavings.
* `PdSink.cfg`: offers with and without a PDO that fits, of one to three PDOs; one
  of each disturbance, two losses, or none at all (`quiet`). `IdMod` = 2 instead of
  8 makes IDs repeat sooner. `CCDebounce` = 1 instead of 10 shortens a counter.
* `PdProfile.cfg`: all sequences of up to three PDOs of five kinds (too little,
  enough, too high, battery, other), four minimum powers of which two are out of
  range; the offer is replaced once, at any point.
* `DutyControl.cfg`: periods 5 and 3, passes of up to 3 ticks, 38 ticks: several
  rounds of the pid, and a round in which the heater is disabled makes a pause of
  more than 0.2 "seconds" of 50 ticks. The tick counter wraps at 32: rounds of 7 to
  9 ticks meet every place of the last period before it, deadlines wrap, and one that
  is missed makes the reading stale before the end (without their second disjuncts
  `StaleOnlyByWrap` and `PausesSpaced` are both violated). Two calls of the pid are
  less than a turn apart. Of the differences, two saturate the derivative and the sum,
  one stays within; 8 bits on either side of the point. `TaskTimerStale.cfg` has the
  same timers for two turns, and in `PidPause.cfg` an `int16_t` holds 16 milliseconds.
* `I2c.cfg`: transfers of up to three bytes in one to three pieces, a buffer of
  three, two registers, two bytes read. Three bytes are enough for one with the
  device, one in the shift register, and one in the data register. There is no
  bound on plugs, failures or transfers.
* `Sensors.cfg`: an iron at rest, one with too much of everything, one with a short
  circuit, and one change between them at any point of a scan, right at the start
  or after the averages have settled. `Settle` is the least number of updates for
  which settling is proved with one injected conversion that times out, 1 + 418.

Deadlock is checked in `heater` and `heater_sampling`. Elsewhere the model really
ends: after start-up, at the bound of time or of the user's actions.

### Fairness

* `HeaterControl!Fairness`: the loop has no blocking call, and a running TIM3
  overflows. Nothing is assumed of the user or the knob.
* `PdSink!Fairness`: handlers and transmissions end; time passes; main goes on
  although interrupts disable it again and again (strong fairness: an interrupt
  is far shorter than the time between messages, so main executes between any
  two); the source keeps sending what it has to send, also past a busy
  transmitter. That a message arrives is not assumed: it may be lost up to the
  bound.
* `PdProfile!FairSpec`: main goes on; the interrupt replaces the offer or not.
* `I2cMaster!Fairness`: the driver is a loop that executes, the peripheral moves when
  it can, u8g2 ends a transfer it has begun and the caller goes on. Nothing is
  assumed of the devices, nor that a bus is ever let go. `DisplayRecovers` is stated
  for a bus that stays free, a display that stays plugged in and a peripheral that
  forgets a STOP it cannot use: with `lingers` the STOP that each transfer leaves
  behind may end the START of the next, and nothing in the code would notice.

## 4. Proofs

The theorems hold for all values of the constants that satisfy the named
assumptions of the modules.

* **HeaterControl.** `TypeCorrect`, from `SetTempAssumption` (limits in order, room
  for a step below 2^16), `DutyAssumption`, `SensorsAssumption`. `MenuAlwaysCold`
  needs to know that the pieces of the MENU case run only in that state and that
  the menu is only ever entered through `HeatEncoder`. `RailAlwaysNeedsPress`: an
  `enabled` left over from before the menu is cleared by the press that leaves it,
  so `enabled` in the heating state implies `armed`, except on the way out.
  `FaultAlwaysEndsInTwo` ties `hotPasses` to the two button readings: a second pass
  in a fault requires a falling edge in the pass before, and there are no two
  falling edges in successive passes. `AlwaysSampledBetweenPulses`: the gate of a
  running timer with `ccr` = 0 is low. `TurnsAreMonotonic` assumes for turning back
  that no more detents are counted between two reads than the lowest set
  temperature (which is true of 16-bit counts a hand can make in a pass).
  `ImplementsModes`: each step of the loop is a step or a stutter of `IronModes`
  under the mapping `Mode`.
* **Encoder.** `TypeCorrect`. `AlwaysFollows`: while nobody hurries, one line at most
  is pending, readings are steady, and the decoder is level with the knob or one
  step behind on either side (`Slow`). `BounceNeverCounts`: with two neighbouring
  positions any mixture of old and new readings is one of the two, and the count
  alternates between two values of -2..2 (`Between`).
* **PdSink.** `TypeCorrect`. `SuccessAlwaysMeansContract`: a PS_RDY leaves a trail
  from the source's phase over the buffer to the engine's state, and at every point
  of it a voltage has been granted (`ContractOK`); that needs well-formed messages
  (`WireOK`). `OnlyFittingEver`: every Request that is buffered, sent or wanted names
  the first PDO or one that fits (`KeepsOffer`), as long as the offer is the one it
  was chosen from. `RequestAlwaysServed`: an undisturbed negotiation passes through
  stages that relate the engine's counter and state to the source's last ID and phase
  (`Unsent`, `OnItsWay`, `Heard`, then `Counted` with an Accept or a PS_RDY due, then
  `Over` with the second Request on the wire or served), and no step leads back
  (`QuietInv`); besides, the engine knows the offer the source has made or none
  (`Known`). It assumes that IDs are counted modulo more than 1. `QuietNeverFails`
  follows from the same stages: main leaves the poll only with an offer, and the
  clock does not run out undisturbed.
* **PdProfile.** `AlwaysFirstFit`, `FailureMeansNoFit`: the loop invariant
  `SearchInv` says that no PDO read so far suits, and that values carried over a
  PDO of another type never fit (`LoopInv`); what was read is what is offered, as long
  as the offer is not replaced (`AsRead`). `AlwaysFirstFit` holds for replaced offers
  too. The unit conversions are shown exact for the test: rounding to watts loses
  nothing against whole watts (`FixedFits`, `BatteryFits`). `RootAlwaysExact` from the bracket l*l <= x < r*r, which is inductive only
  because the upper bound does not wrap; `MeanVoltageAlwaysFits` from it.
  `TypeCorrect` for offers of any length. `StartupAdvances` is the safety half of
  `StartupEnds`: `Left`, which counts the PDOs still to look at and the distance of
  `isqrt`'s bounds, is at most 2 * `MaxPDOs` + `Word` + 2 and falls with every step of
  main (`IndexInv`, `RootInv`), so no loop of the start-up can go on for ever.
* **TaskTimer.** `AlwaysStaleOnlyByWrap` and `AlwaysSpaced` assume nothing about the
  wrap. What a timer stores is the counter when it was set (`ClockInv`). A deadline
  that wraps (`Wraps`) is over at the first test, so that nothing is waited for; one
  that lies a pass or more before the wrap (`Caught`) cannot be stepped over, since
  until the first poll after it the counter goes with the time (`SameTurn`,
  `CaughtInTime`); and the counter never goes ahead of the time (`NeverAhead`), so a
  timer that has not wrapped is never over too soon (`OverIsLate`, `SpacedInv`). That
  two numbers with the same place in a turn differ by whole turns is proved, not
  assumed (`Turns`, `OneTurn`). `TipAlwaysFresh` follows under `NoWrap`, the time
  observed is less than a turn: a deadline that could be missed comes too late.
* **DutyControl.** `ControlImplementsTimer`: each step of the composition with the pid
  is one of `TaskTimer` or a stutter, so that `AlwaysStaleOnlyByWrap` and `AlwaysSpaced` hold in it
  (`ControlKeepsTiming`, their corollary).
  `DutyAlwaysInRange` needs no assumption about the clocks: the last line clamps and
  maps, and of the four saturating operations of `fp_map` none saturates and none
  rounds up beyond the limit on what the clamp lets through. `IntegralAlwaysRecent`,
  under `NoWrap` and `NoIntWrap` (the milliseconds observed fit an `int16_t`): a
  pause of more than a fifth of a second gives a dt above `num2fp(0, 2, 1)`.
* **I2cMaster.** `BusAlwaysGivenBack` from `BusInv`, which says who may move the bus at
  each wait. `BufferNeverOverrun`: the index counts the bytes handed over since
  START_TRANSFER (`BufferInv`), and `BufferAssumption` that u8g2's transfers fit (26 of
  32 bytes). `AlwaysTwoTimeoutsAtMost`: `SendInv` counts them wait by wait.
  `OkAlwaysReceived`: the bytes are always split into those with the device, those in
  the peripheral and those not sent (`Underway`, `DataInv`), and a transfer interrupted
  by a refused byte never gets to BTF.

* **Sensors.** The theorems hold for any set of readings, not just the run's three,
  and any interleaving of passes and measurements. They rest on `Ranges`: every
  average keeps to 16 bits and the board's temperature to the table, so no cast cuts
  anything (except in what `BoardWarm` excludes). `NtcAlwaysFalls` reads the table's 64
  intervals. `AveragesAlwaysSettle` is the convergence of five averages that depend
  on one another. `Margin(k)` bounds how far an average can be from its target after
  k updates: it halves every 16 updates, and is 0 after 208, whatever the start
  (`MarginShrinks`, `AverageStep`); the 15 units below the target are what truncation
  keeps for good. `SettleInv` says this of each average from the time its own
  inputs have settled: the supply after the conversions that time out, the other
  averages after the supply, and the tip also after the board. `SchedInv` ties
  passes to measurements. `ShortAlwaysSeen`: `Supplied` bounds the estimate of the
  supply from below, with one conversion that timed out; from that, `Rise` gives the
  least value of the average after each of the first 21 passes (`ShortInv`).
  `TipAlwaysInReach`: the estimate of the supply and the board's average each stay
  below the greatest of what they averaged, and the tip's average below the full
  scale with these two (`ReachInv`).
  `ScreenAlwaysTells`: `u16toa`'s recursion ends after three pairs of digits at most,
  so that its value is given by cases, and the function defined by recursion is
  shown to be that one; up to twice the limit the bar has
  54 pixels from 100 % on and fewer below.
  Assumed, where the theorem names it: the processor's supply is 3.1 to 5.5 V
  (`SupplyOK`, `vref` from 894 to 1589; `vcc_mv` starts from 3.3 V), the board is not below 0
  degrees (`BoardWarm`), and one conversion at most times out.

Only model-checked: everything under fairness (`FaultEndsHeating`, the liveness part
of `ModesSpec`, `NegotiationEnds`, `NegotiationSucceeds`, `QuietTakesEffect`,
`StartupEnds`, `CallsReturn`, `DisplayRecovers`), which is out of the prover's reach.
Every invariant and every action property of a passing run is a theorem. In the
runs that end in a violation the behaviour found is the result.

## 5. Plan

Done: every part of the program whose state can go wrong. What would add most:

1. Proofs: measures that fall, like `Left`, for `NegotiationSucceeds` and for what a
   transfer on the I2C bus may take.
2. Composition of `HeaterControl` with `DutyControl`: how long in real time the heater
   can run on a stale tip reading, with the display's timeouts in `MaxPass`.
3. Two changes of input in `Sensors`, and offers of four PDOs in `PdSink`.

## 6. Not modelled

* USB descriptors and console, drawing (u8g2, not in the repository), the ch32fun
  library: input and output without state of the program's own.
* The I2C slave functions and error interrupt handlers of lib_i2c.c: the program never
  enables them. The GPIO and delay callback of display.c: it sets a pin or waits.
* `i16toa`, `buf_putc` and `buf_get` of display.c, the averages with other factors in
  filter.h: called nowhere. The script that computes the thermistor's table.
* The semaphores and yields of coroutine.h: used nowhere.
* The failure branch of main after `pd_negotiate` (main.c:584-601), an endless loop
  that draws a message, is the state "fail" of `PdSink`.
* Hardware, simulation and enclosure files.
