------------------------------ MODULE I2cMaster ------------------------------
(* The I2C bus: the master driver fw/lib_i2c.c, the two pieces of code that *)
(* use it (the byte callback of the display, fw/display.c lines 134-160,    *)
(* and fw/sc7a20.c), the peripheral, and the devices on the bus.            *)
(* The driver polls: every wait ends with the flag it waits for or with the *)
(* 50000th poll.  That is more than a hundred times longer than a byte, and *)
(* neither device stretches the clock, so a wait runs out only if nothing   *)
(* on the bus can move any more (Quiet).  An interrupt may come between any *)
(* two steps of the driver, so the bus may move on as far as it can between *)
(* them.  A device may be unplugged and plugged in at any time, and may     *)
(* hold the bus from before a restart of the processor.                     *)
EXTENDS Naturals, Sequences

CONSTANTS
    BufferSize,  \* cells of u8x8_byte_i2c's buffer (32)
    MaxTransfer, \* the longest transfer u8g2 makes (26, its start sequence)
    Registers,   \* entries of i2c_registers (12)
    Readings     \* bytes sc7a20_get_readings asks for (6)

ASSUME BufferAssumption ==
    /\ BufferSize \in Nat /\ MaxTransfer \in 1..BufferSize
    /\ Registers \in Nat /\ Readings \in Nat \ {0}

VARIABLES
    \* the callers
    stage,    \* "display_init", "sc7a20_init", "loop"
    written,  \* registers of the accelerometer written so far
    buffer, buffer_idx, \* the statics of u8x8_byte_i2c
    given,    \* history: the bytes u8g2 has handed over in this transfer
    round,    \* tells the bytes of one transfer from those of the next
    \* the driver: where it is, the arguments, its locals
    pc, call, reading, i, err,
    expired,  \* history: waits of this call that ran out
    \* the peripheral: CTLR1's START, STOP, ACK, then SB and ADDR of STAR1,
    \* the state of the bus, DATAR with the shift register in both directions
    start, stop, ack, sb, addr, phase, out, in,
    \* the rest of the bus
    lingers,  \* a STOP asked for on a free bus waits for the next START
    held,     \* a device holds the bus
    present,  \* the devices plugged in
    received  \* the bytes the device has taken since it was addressed

callerVars == <<stage, written, buffer, buffer_idx, given, round>>
driverVars == <<pc, call, reading, i, err, expired>>
busVars == <<start, stop, ack, sb, addr, phase, out, in>>
worldVars == <<lingers, held, present, received>>
vars == <<callerVars, driverVars, busVars, worldVars>>

Devices == {"display", "accelerometer"}
NoCall == [op |-> "none", dev |-> "none", tx |-> <<>>, len |-> 0]

Init ==
    /\ stage = "display_init" /\ written = 0 /\ round = 0
    /\ buffer = [k \in 0..BufferSize - 1 |-> <<0, 0>>] /\ buffer_idx = 0
    /\ given = <<>>
    /\ pc = "idle" /\ call = NoCall /\ reading = FALSE
    /\ i = 0 /\ err = 0 /\ expired = 0
    /\ start = FALSE /\ stop = FALSE /\ ack = TRUE
    /\ sb = FALSE /\ addr = FALSE /\ phase = "free"
    /\ out = <<>> /\ in = 0
    /\ lingers \in BOOLEAN /\ held \in BOOLEAN /\ present \in SUBSET Devices
    /\ received = <<>>

-----------------------------------------------------------------------------
(* The peripheral                                                           *)

StartPossible   == start /\ ~held /\ out = <<>> /\ ~(phase = "address" /\ ~addr)
StopPossible    == stop /\ phase # "free"
AnswerPossible  == phase = "address" /\ ~addr
ShiftPossible   == phase = "write" /\ out # <<>>
ReceivePossible == phase = "read" /\ in < 2

(* Nothing on the bus moves until the driver does something.                *)
Quiet == ~(StartPossible \/ StopPossible \/ AnswerPossible \/ ShiftPossible
             \/ ReceivePossible)

(* STAR2's BUSY; TXE: DATAR is empty; BTF: the shift register is, too.      *)
Busy == held \/ phase # "free"
Txe  == phase = "write" /\ Len(out) <= 1
Btf  == phase = "write" /\ out = <<>>
Rxne == in > 0

(* START, or repeated START; a STOP that is asked for already follows it.   *)
BusStart ==
    /\ StartPossible /\ start' = FALSE
    /\ IF stop THEN phase' = "free" /\ sb' = FALSE /\ stop' = FALSE
               ELSE phase' = "started" /\ sb' = TRUE /\ UNCHANGED stop
    /\ addr' = FALSE /\ in' = 0
    /\ UNCHANGED <<callerVars, driverVars, ack, out, worldVars>>

BusStop ==
    /\ StopPossible
    /\ stop' = FALSE /\ phase' = "free" /\ sb' = FALSE /\ addr' = FALSE
    /\ out' = <<>> /\ in' = 0
    /\ UNCHANGED <<callerVars, driverVars, start, ack, worldVars>>

(* The device addressed acknowledges, if it is there.                       *)
BusAnswer ==
    /\ AnswerPossible
    /\ IF call.dev \in present
         THEN /\ addr' = TRUE /\ UNCHANGED phase
              /\ received' = IF reading THEN received ELSE <<>>
         ELSE phase' = "refused" /\ UNCHANGED <<addr, received>>
    /\ UNCHANGED <<callerVars, driverVars, start, stop, ack, sb, out, in, lingers,
                   held, present>>

(* A byte goes out and is acknowledged, if the device is still there.       *)
BusShift ==
    /\ ShiftPossible
    /\ IF call.dev \in present
         THEN /\ received' = Append(received, Head(out))
              /\ out' = Tail(out) /\ UNCHANGED phase
         ELSE phase' = "refused" /\ out' = <<>> /\ UNCHANGED received
    /\ UNCHANGED <<callerVars, driverVars, start, stop, ack, sb, addr, in, lingers,
                   held, present>>

(* A byte comes in; one that is not acknowledged is the last.               *)
BusReceive ==
    /\ ReceivePossible
    /\ in' = in + 1
    /\ phase' = IF ack THEN phase ELSE "refused"
    /\ UNCHANGED <<callerVars, driverVars, start, stop, ack, sb, addr, out, worldVars>>

Peripheral == BusStart \/ BusStop \/ BusAnswer \/ BusShift \/ BusReceive

(* The holder of the bus lets go; devices come and go.                      *)
Release ==
    /\ held /\ held' = FALSE
    /\ UNCHANGED <<callerVars, driverVars, busVars, lingers, present, received>>

Plug ==
    /\ present' \in SUBSET Devices /\ present' # present
    /\ phase \in {"write", "read"} => call.dev \notin present' \ present
    /\ UNCHANGED <<callerVars, driverVars, busVars, lingers, held, received>>

-----------------------------------------------------------------------------
(* The driver                                                               *)

(* CTLR1 |= STOP.  With nothing to stop it is forgotten, or it stays set    *)
(* and ends the next START: the code cannot tell, so both are modelled.     *)
AskStop == stop' = (stop \/ phase # "free" \/ start \/ lingers)

(* A wait runs out: STOP, and an error for the caller.  i2c_sendBytes and   *)
(* i2c_scan set STOP once more.                                             *)
Fail(code) ==
    /\ Quiet /\ expired' = expired + 1
    /\ AskStop /\ err' = code
    /\ pc' = IF call.op \in {"send", "ping"} THEN "stop" ELSE "done"
    /\ UNCHANGED <<callerVars, call, reading, i, start, ack, sb, addr, phase,
                   out, in, worldVars>>

(* i2c_start: wait until the bus is free, but not for ever, and ask for     *)
(* START in any case.                                                       *)
StartRequest ==
    /\ pc = "busy"
    /\ \/ ~Busy /\ UNCHANGED expired
       \/ Busy /\ Quiet /\ expired' = expired + 1
    /\ start' = TRUE /\ pc' = "sb"
    /\ UNCHANGED <<callerVars, call, reading, i, err, stop, ack, sb, addr, phase,
                   out, in, worldVars>>

(* ... START is out: the address and the direction go into DATAR ...        *)
SendAddress ==
    /\ pc = "sb" /\ sb
    /\ sb' = FALSE /\ pc' = "addr"
    /\ phase' = IF phase = "started" THEN "address" ELSE phase
    /\ UNCHANGED <<callerVars, call, reading, i, err, expired, start, stop, ack,
                   addr, out, in, worldVars>>

StartTimeout == pc = "sb" /\ ~sb /\ Fail(18)

(* Mutant of ClearAddr: the registers are not read.                         *)
ClearAddrForgotten ==
    /\ pc = "addr" /\ addr
    /\ pc' = CASE call.op = "ping" -> "stop"
               [] reading          -> "ack"
               [] OTHER            -> "txe"
    /\ UNCHANGED <<callerVars, call, reading, i, err, expired, busVars, worldVars>>

(* ... and ADDR is cleared by reading STAR1 and STAR2.  What follows is the *)
(* rest of the function that called i2c_start.                              *)
ClearAddr ==
    /\ pc = "addr" /\ addr
    /\ addr' = FALSE
    /\ phase' = IF reading THEN "read" ELSE "write"
    /\ pc' = CASE call.op = "ping" -> "stop"
               [] reading          -> "ack"
               [] OTHER            -> "txe"
    /\ UNCHANGED <<callerVars, call, reading, i, err, expired, start, stop, ack,
                   sb, out, in, worldVars>>

(* Mutant of AddrTimeout: the wait has no limit.                            *)
AddrTimeoutNever == FALSE

(* Mutant of AddrTimeout: the error is noted and the data is sent.          *)
AddrTimeoutGoesOn ==
    /\ pc = "addr" /\ ~addr /\ Quiet
    /\ expired' = expired + 1 /\ AskStop /\ err' = 19 /\ pc' = "txe"
    /\ UNCHANGED <<callerVars, call, reading, i, start, ack, sb, addr, phase, out,
                   in, worldVars>>

AddrTimeout == pc = "addr" /\ ~addr /\ Fail(19)

(* Mutant of SendByte: the wait for TXE is left out.                        *)
SendByteAtOnce ==
    /\ pc = "txe" /\ i < Len(call.tx)
    /\ out' = Append(out, call.tx[i + 1]) /\ i' = i + 1
    /\ UNCHANGED <<callerVars, pc, call, reading, err, expired, start, stop, ack,
                   sb, addr, phase, in, worldVars>>

(* i2c_sendBytes_noStop: the loop over the buffer ...                       *)
SendByte ==
    /\ pc = "txe" /\ i < Len(call.tx) /\ Txe
    /\ out' = Append(out, call.tx[i + 1]) /\ i' = i + 1
    /\ UNCHANGED <<callerVars, pc, call, reading, err, expired, start, stop, ack,
                   sb, addr, phase, in, worldVars>>

SendTimeout == pc = "txe" /\ i < Len(call.tx) /\ ~Txe /\ Fail(33)

SentAll ==
    /\ pc = "txe" /\ i = Len(call.tx) /\ pc' = "btf"
    /\ UNCHANGED <<callerVars, call, reading, i, err, expired, busVars, worldVars>>

(* Mutant of SendComplete: success without the wait for BTF.                *)
SendCompleteAtOnce ==
    /\ pc = "btf"
    /\ pc' = IF call.op = "send" THEN "stop" ELSE "busy"
    /\ reading' = (call.op = "readReg") /\ i' = 0
    /\ UNCHANGED <<callerVars, call, err, expired, busVars, worldVars>>

(* ... and the last byte is through.  i2c_readRegTx_buffer goes on to       *)
(* i2c_readBytes without a STOP.                                            *)
SendComplete ==
    /\ pc = "btf" /\ Btf
    /\ pc' = IF call.op = "send" THEN "stop" ELSE "busy"
    /\ reading' = (call.op = "readReg") /\ i' = 0
    /\ UNCHANGED <<callerVars, call, err, expired, busVars, worldVars>>

CompleteTimeout == pc = "btf" /\ ~Btf /\ Fail(34)

(* The STOP of i2c_sendBytes and of i2c_scan, after an error the second.    *)
SetStop ==
    /\ pc = "stop" /\ AskStop /\ pc' = "done"
    /\ UNCHANGED <<callerVars, call, reading, i, err, expired, start, ack, sb,
                   addr, phase, out, in, worldVars>>

(* i2c_readBytes: ACK on, and off again before the last byte is waited for  *)
AckByte ==
    /\ pc = "ack" /\ pc' = "rxne"
    /\ ack' = (i # call.len - 1)
    /\ UNCHANGED <<callerVars, call, reading, i, err, expired, start, stop, sb,
                   addr, phase, out, in, worldVars>>

(* Mutant of ReadByte: no STOP after the last byte.                         *)
ReadByteNoStop ==
    /\ pc = "rxne" /\ Rxne
    /\ in' = in - 1 /\ i' = i + 1
    /\ pc' = IF i = call.len - 1 THEN "done" ELSE "ack"
    /\ UNCHANGED <<callerVars, call, reading, err, expired, start, stop, ack, sb,
                   addr, phase, out, worldVars>>

(* A byte is read; STOP after the last one.                                 *)
ReadByte ==
    /\ pc = "rxne" /\ Rxne
    /\ in' = in - 1 /\ i' = i + 1
    /\ IF i = call.len - 1 THEN pc' = "done" /\ AskStop
                           ELSE pc' = "ack" /\ UNCHANGED stop
    /\ UNCHANGED <<callerVars, call, reading, err, expired, start, ack, sb, addr,
                   phase, out, worldVars>>

ReadTimeout == pc = "rxne" /\ ~Rxne /\ Fail(49)

Driver == StartRequest \/ SendAddress \/ StartTimeout \/ ClearAddr \/ AddrTimeout
            \/ SendByte \/ SendTimeout \/ SentAll \/ SendComplete \/ CompleteTimeout
            \/ SetStop \/ AckByte \/ ReadByte \/ ReadTimeout

-----------------------------------------------------------------------------
(* The callers                                                              *)

Call(op, dev, tx, len) ==
    /\ pc' = "busy" /\ call' = [op |-> op, dev |-> dev, tx |-> tx, len |-> len]
    /\ reading' = (op \in {"read", "ping"})
    /\ i' = 0 /\ err' = 0 /\ expired' = 0

(* Mutant of StartTransfer: the index is not reset.                         *)
StartTransferKeepsIndex ==
    /\ pc = "idle" /\ stage \in {"display_init", "loop"}
    /\ pc' = "transfer" /\ given' = <<>> /\ round' = 1 - round
    /\ UNCHANGED <<stage, written, buffer, buffer_idx, call, reading, i, err,
                   expired, busVars, worldVars>>

(* u8x8_byte_i2c: U8X8_MSG_BYTE_START_TRANSFER ...                          *)
StartTransfer ==
    /\ pc = "idle" /\ stage \in {"display_init", "loop"}
    /\ pc' = "transfer" /\ buffer_idx' = 0
    /\ given' = <<>> /\ round' = 1 - round
    /\ UNCHANGED <<stage, written, buffer, call, reading, i, err, expired,
                   busVars, worldVars>>

(* ... _SEND, once or several times, a number of bytes each time ...        *)
SendChunk ==
    /\ pc = "transfer"
    /\ \E n \in 1..MaxTransfer - Len(given) :
         LET byte(k) == <<round, Len(given) + k>>
         IN  /\ given' = given \o [k \in 1..n |-> byte(k)]
             /\ buffer' = [c \in DOMAIN buffer |->
                             IF c \in buffer_idx..buffer_idx + n - 1
                               THEN byte(c - buffer_idx + 1) ELSE buffer[c]]
             /\ buffer_idx' = buffer_idx + n
    /\ UNCHANGED <<stage, written, round, driverVars, busVars, worldVars>>

(* ... and _END_TRANSFER, which ignores what i2c_sendBytes returns.         *)
EndTransfer ==
    /\ pc = "transfer" /\ given # <<>>
    /\ Call("send", "display", [k \in 1..buffer_idx |-> buffer[k - 1]], 0)
    /\ UNCHANGED <<callerVars, busVars, worldVars>>

(* sc7a20_init: one register after the other, the results ignored.          *)
WriteRegister ==
    /\ pc = "idle" /\ stage = "sc7a20_init" /\ written < Registers
    /\ Call("send", "accelerometer", <<<<2, written + 1>>, <<3, written + 1>>>>, 0)
    /\ written' = written + 1
    /\ UNCHANGED <<stage, buffer, buffer_idx, given, round, busVars, worldVars>>

(* setup goes on to the accelerometer, then to the main loop.               *)
NextStage ==
    /\ pc = "idle"
    /\ \/ stage = "display_init" /\ stage' = "sc7a20_init"
       \/ stage = "sc7a20_init" /\ written = Registers /\ stage' = "loop"
    /\ UNCHANGED <<written, buffer, buffer_idx, given, round, driverVars, busVars,
                   worldVars>>

(* What the program has but does not call yet: sc7a20_get_readings (a       *)
(* register number is sent, then bytes are read), i2c_readReg_buffer and    *)
(* i2c_scan.                                                                *)
GetReadings ==
    /\ pc = "idle" /\ stage = "loop"
    /\ \/ Call("send", "accelerometer", <<<<2, 0>>>>, 0)
       \/ Call("read", "accelerometer", <<>>, Readings)
       \/ Call("readReg", "accelerometer", <<<<2, 0>>>>, Readings)
       \/ \E d \in Devices : Call("ping", d, <<>>, 0)
    /\ UNCHANGED <<callerVars, busVars, worldVars>>

(* The call returns.                                                        *)
Return ==
    /\ pc = "done" /\ pc' = "idle"
    /\ call' = NoCall /\ reading' = FALSE /\ i' = 0 /\ err' = 0
    /\ expired' = 0 /\ received' = <<>>
    /\ UNCHANGED <<callerVars, busVars, lingers, held, present>>

Caller == StartTransfer \/ SendChunk \/ EndTransfer \/ WriteRegister \/ NextStage
            \/ GetReadings \/ Return

Next == Driver \/ Caller \/ Peripheral \/ Release \/ Plug

Spec == Init /\ [][Next]_vars

(* The driver and the peripheral do not stop; u8g2 ends its transfers.      *)
Fairness ==
    /\ WF_vars(Driver) /\ WF_vars(Peripheral) /\ WF_vars(EndTransfer)
    /\ WF_vars(Return)

FairSpec == Spec /\ Fairness

-----------------------------------------------------------------------------
(* Properties                                                               *)

(* A transfer that i2c_sendBytes reports as done has reached the device     *)
(* complete and in order, and a transfer of the display is what u8g2 handed *)
(* over since its START_TRANSFER, whatever was plugged, held or given up    *)
(* before.                                                                  *)
OkMeansReceived ==
    pc = "done" /\ call.op = "send" /\ err = 0 =>
      /\ received = call.tx
      /\ call.dev = "display" => call.tx = given

(* u8x8_byte_i2c stays within its buffer: what u8g2 sends at a time fits,   *)
(* and nothing is left over from the transfer before.                       *)
BufferInBounds == buffer_idx <= BufferSize

(* No call leaves the bus claimed: when none is under way, the bus is free  *)
(* and stays so, or a STOP is on its way.                                   *)
BusGivenBack ==
    pc \in {"idle", "transfer"} => (phase = "free" /\ ~start) \/ stop

(* However the bus and the device fail, a transfer holds the main loop up   *)
(* for two timeouts at most: one for a bus that is not free, and one that   *)
(* ends it.                                                                 *)
TwoTimeoutsAtMost == call.op = "send" => expired <= 2

(* Every call returns, even on a bus that is held for ever.                 *)
CallsReturn == pc = "busy" ~> pc = "idle"

(* Once the bus is free and the display plugged in for good, its transfers  *)
(* come through again, whatever earlier transfers left behind; if the       *)
(* peripheral forgets a STOP that it cannot use.                            *)
DisplayRecovers ==
    <>[](~held /\ ~lingers /\ "display" \in present) =>
      <>[](pc = "done" /\ call.dev = "display" => err = 0)
=============================================================================
