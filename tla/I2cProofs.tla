------------------------------ MODULE I2cProofs ------------------------------
(* The I2C bus for every buffer, every length of a transfer and every       *)
(* number of registers: the bus is given back, a transfer reported as done  *)
(* has arrived, the display's buffer is never overrun, and a transfer costs *)
(* two timeouts at most.                                                    *)
EXTENDS I2cMaster, SequenceTheorems, TLAPS

Byte == Nat \X Nat

(* The driver is between START and the end of the data.                     *)
Talking == pc \in {"addr", "txe", "btf", "ack", "rxne"}

(* The bus: who may move it, and what the driver has asked for.             *)
BusInv ==
    /\ start \in BOOLEAN /\ stop \in BOOLEAN /\ sb \in BOOLEAN
    /\ addr \in BOOLEAN /\ held \in BOOLEAN
    /\ held => phase = "free"
    /\ out # <<>> => phase = "write"
    /\ addr => phase = "address"
    /\ sb => phase = "started"
    /\ phase = "started" => pc = "sb" /\ sb /\ ~start /\ ~stop
    /\ start => pc = "sb" \/ stop
    /\ start => pc = "sb" \/ phase = "free"
    /\ start /\ stop => phase = "free"
    /\ Talking => ~start /\ ~stop
    /\ pc \in {"idle", "transfer", "done"} => (phase = "free" /\ ~start) \/ stop

(* The buffer of the display holds what u8g2 has handed over.               *)
BufferInv ==
    /\ round \in Nat /\ written \in Nat
    /\ given \in Seq(Byte) /\ Len(given) <= MaxTransfer
    /\ buffer_idx \in 0..MaxTransfer
    /\ DOMAIN buffer = 0..BufferSize - 1
    /\ pc = "transfer" =>
         /\ buffer_idx = Len(given)
         /\ \A k \in 1..Len(given) : buffer[k - 1] = given[k]

(* The waits that have run out by each stage of a send.                     *)
SendInv ==
    call.op = "send" =>
      /\ ~reading /\ pc \notin {"idle", "transfer", "ack", "rxne"}
      /\ expired \in 0..2 /\ (pc = "busy" => expired = 0)
      /\ pc \in {"sb", "addr", "txe", "btf"} => expired <= 1

(* Where the bytes of a send are: the first of them with the device, the    *)
(* next in the peripheral, the rest still in the driver's buffer.           *)
Underway ==
    /\ Len(received) + Len(out) = i
    /\ \A k \in 1..Len(received) : received[k] = call.tx[k]
    /\ \A k \in 1..Len(out) : out[k] = call.tx[Len(received) + k]

DataInv ==
    /\ out \in Seq(Byte) /\ received \in Seq(Byte) /\ call.tx \in Seq(Byte)
    /\ i \in Nat
    /\ call.op = "send" =>
         /\ call.dev = "display" => call.tx = given
         /\ i <= Len(call.tx)
         /\ pc \in {"busy", "sb", "addr"} => i = 0
         /\ pc = "addr" => phase \in {"address", "refused"}
         /\ pc = "addr" /\ addr => received = <<>>
         /\ pc \in {"txe", "btf"} => phase \in {"write", "refused"}
         /\ pc \in {"txe", "btf"} /\ phase = "write" => Underway
         /\ pc = "btf" => i = Len(call.tx)
         /\ pc \in {"stop", "done"} /\ err = 0 =>
              out = <<>> /\ received = call.tx /\ phase \in {"write", "free"} /\ ~start

LEMMA BusStep ==
    ASSUME BusInv, [Next]_vars
    PROVE  BusInv'
  <1> USE DEF BusInv, Talking, callerVars, driverVars, busVars, worldVars
  <1>1. CASE StartRequest
    BY <1>1 DEF StartRequest, Busy, Quiet, StopPossible, StartPossible
  <1>2. CASE SendAddress
    BY <1>2 DEF SendAddress
  <1>3. CASE StartTimeout
    BY <1>3 DEF StartTimeout, Fail, AskStop, Quiet, StartPossible, StopPossible, AnswerPossible,
       ShiftPossible, ReceivePossible
  <1>4. CASE ClearAddr
    BY <1>4 DEF ClearAddr
  <1>5. CASE AddrTimeout
    BY <1>5 DEF AddrTimeout, Fail, AskStop, Quiet, StartPossible, StopPossible, AnswerPossible,
       ShiftPossible, ReceivePossible
  <1>6. CASE SendByte
    BY <1>6 DEF SendByte, Txe
  <1>7. CASE SendTimeout
    BY <1>7 DEF SendTimeout, Fail, AskStop, Quiet, StartPossible, StopPossible, AnswerPossible,
       ShiftPossible, ReceivePossible
  <1>8. CASE SentAll
    BY <1>8 DEF SentAll
  <1>9. CASE SendComplete
    BY <1>9 DEF SendComplete, Btf
  <1>10. CASE CompleteTimeout
    BY <1>10 DEF CompleteTimeout, Fail, AskStop, Quiet, StartPossible, StopPossible, AnswerPossible,
       ShiftPossible, ReceivePossible
  <1>11. CASE SetStop
    BY <1>11 DEF SetStop, AskStop
  <1>12. CASE AckByte
    BY <1>12 DEF AckByte
  <1>13. CASE ReadByte
    BY <1>13 DEF ReadByte, AskStop
  <1>14. CASE ReadTimeout
    BY <1>14 DEF ReadTimeout, Fail, AskStop, Quiet, StartPossible, StopPossible, AnswerPossible,
       ShiftPossible, ReceivePossible
  <1>15. CASE StartTransfer
    BY <1>15 DEF StartTransfer
  <1>16. CASE SendChunk
    BY <1>16 DEF SendChunk
  <1>17. CASE EndTransfer
    BY <1>17 DEF EndTransfer, Call
  <1>18. CASE WriteRegister
    BY <1>18 DEF WriteRegister, Call
  <1>19. CASE NextStage
    BY <1>19 DEF NextStage
  <1>20. CASE GetReadings
    BY <1>20 DEF GetReadings, Call
  <1>21. CASE Return
    BY <1>21 DEF Return, NoCall
  <1>22. CASE BusStart
    BY <1>22 DEF BusStart, StartPossible
  <1>23. CASE BusStop
    BY <1>23 DEF BusStop, StopPossible
  <1>24. CASE BusAnswer
    BY <1>24 DEF BusAnswer, AnswerPossible
  <1>25. CASE BusShift
    BY <1>25 DEF BusShift, ShiftPossible
  <1>26. CASE BusReceive
    BY <1>26 DEF BusReceive, ReceivePossible
  <1>27. CASE Release
    BY <1>27 DEF Release
  <1>28. CASE Plug
    BY <1>28 DEF Plug
  <1>29. CASE UNCHANGED vars
    BY <1>29 DEF vars
  <1> QED BY <1>1, <1>2, <1>3, <1>4, <1>5, <1>6, <1>7, <1>8, <1>9, <1>10, <1>11, <1>12, <1>13, <1>14, <1>15, <1>16, <1>17, <1>18, <1>19, <1>20, <1>21, <1>22, <1>23, <1>24, <1>25, <1>26, <1>27, <1>28, <1>29
          DEF Next, Driver, Caller, Peripheral

(* A call that begins.                                                      *)
LEMMA CallBegins ==
    ASSUME NEW op, NEW dev, NEW tx, NEW len, Call(op, dev, tx, len)
    PROVE  /\ call'.op = op /\ call'.dev = dev /\ call'.tx = tx
           /\ pc' = "busy" /\ i' = 0 /\ err' = 0 /\ expired' = 0
           /\ op = "send" => ~reading'
  <1>1. /\ call'.op = op /\ call'.dev = dev /\ call'.tx = tx
        /\ pc' = "busy" /\ i' = 0 /\ err' = 0 /\ expired' = 0
    BY DEF Call
  <1>2. op = "send" => ~reading'
    BY DEF Call
  <1> QED BY <1>1, <1>2

LEMMA SendStep ==
    ASSUME SendInv, [Next]_vars
    PROVE  SendInv'
  <1> USE DEF SendInv, callerVars, driverVars, busVars, worldVars
  <1>1. CASE StartRequest
    BY <1>1 DEF StartRequest, Busy, Quiet, StopPossible, StartPossible
  <1>2. CASE SendAddress
    BY <1>2 DEF SendAddress
  <1>3. CASE StartTimeout
    BY <1>3 DEF StartTimeout, Fail, AskStop, Quiet, StartPossible, StopPossible, AnswerPossible,
       ShiftPossible, ReceivePossible
  <1>4. CASE ClearAddr
    BY <1>4 DEF ClearAddr
  <1>5. CASE AddrTimeout
    BY <1>5 DEF AddrTimeout, Fail, AskStop, Quiet, StartPossible, StopPossible, AnswerPossible,
       ShiftPossible, ReceivePossible
  <1>6. CASE SendByte
    BY <1>6 DEF SendByte, Txe
  <1>7. CASE SendTimeout
    BY <1>7 DEF SendTimeout, Fail, AskStop, Quiet, StartPossible, StopPossible, AnswerPossible,
       ShiftPossible, ReceivePossible
  <1>8. CASE SentAll
    BY <1>8 DEF SentAll
  <1>9. CASE SendComplete
    BY <1>9 DEF SendComplete, Btf
  <1>10. CASE CompleteTimeout
    BY <1>10 DEF CompleteTimeout, Fail, AskStop, Quiet, StartPossible, StopPossible, AnswerPossible,
       ShiftPossible, ReceivePossible
  <1>11. CASE SetStop
    BY <1>11 DEF SetStop, AskStop
  <1>12. CASE AckByte
    BY <1>12 DEF AckByte
  <1>13. CASE ReadByte
    BY <1>13 DEF ReadByte, AskStop
  <1>14. CASE ReadTimeout
    BY <1>14 DEF ReadTimeout, Fail, AskStop, Quiet, StartPossible, StopPossible, AnswerPossible,
       ShiftPossible, ReceivePossible
  <1>15. CASE StartTransfer
    BY <1>15 DEF StartTransfer
  <1>16. CASE SendChunk
    BY <1>16 DEF SendChunk
  <1>17. CASE EndTransfer
    BY <1>17, CallBegins DEF EndTransfer
  <1>18. CASE WriteRegister
    BY <1>18, CallBegins DEF WriteRegister
  <1>19. CASE NextStage
    BY <1>19 DEF NextStage
  <1>20. CASE GetReadings
    BY <1>20, CallBegins DEF GetReadings
  <1>21. CASE Return
    BY <1>21 DEF Return, NoCall
  <1>22. CASE BusStart
    BY <1>22 DEF BusStart, StartPossible
  <1>23. CASE BusStop
    BY <1>23 DEF BusStop, StopPossible
  <1>24. CASE BusAnswer
    BY <1>24 DEF BusAnswer, AnswerPossible
  <1>25. CASE BusShift
    BY <1>25 DEF BusShift, ShiftPossible
  <1>26. CASE BusReceive
    BY <1>26 DEF BusReceive, ReceivePossible
  <1>27. CASE Release
    BY <1>27 DEF Release
  <1>28. CASE Plug
    BY <1>28 DEF Plug
  <1>29. CASE UNCHANGED vars
    BY <1>29 DEF vars
  <1> QED BY <1>1, <1>2, <1>3, <1>4, <1>5, <1>6, <1>7, <1>8, <1>9, <1>10, <1>11, <1>12, <1>13, <1>14, <1>15, <1>16, <1>17, <1>18, <1>19, <1>20, <1>21, <1>22, <1>23, <1>24, <1>25, <1>26, <1>27, <1>28, <1>29
          DEF Next, Driver, Caller, Peripheral

(* What u8x8_byte_i2c and the rest of the program do to the display's       *)
(* buffer: a driver or bus step leaves it alone.                            *)
LEMMA BufferStep ==
    ASSUME BufferInv, [Next]_vars
    PROVE  BufferInv'
  <1> USE BufferAssumption DEF BufferInv
  <1>1. CASE StartTransfer
    <2>1. given' = <<>> /\ buffer_idx' = 0 /\ round' = 1 - round
          /\ UNCHANGED <<written, buffer>>
      BY <1>1 DEF StartTransfer
    <2>2. given' \in Seq(Byte) /\ Len(given') = 0
      BY <2>1
    <2> QED BY <2>1, <2>2
  <1>2. CASE SendChunk
    <2> DEFINE byte(k) == <<round, Len(given) + k>>
    <2>1. PICK n \in 1..MaxTransfer - Len(given) :
            /\ given' = given \o [k \in 1..n |-> byte(k)]
            /\ buffer' = [c \in DOMAIN buffer |->
                            IF c \in buffer_idx..buffer_idx + n - 1
                              THEN byte(c - buffer_idx + 1) ELSE buffer[c]]
            /\ buffer_idx' = buffer_idx + n
      BY <1>2 DEF SendChunk
    <2>2. /\ pc = "transfer" /\ UNCHANGED <<round, written>>
          /\ buffer_idx = Len(given) /\ Len(given) \in Nat
          /\ \A k \in 1..Len(given) : buffer[k - 1] = given[k]
      BY <1>2 DEF SendChunk
    <2> DEFINE new == [k \in 1..n |-> byte(k)]
    <2>3. new \in Seq(Byte) /\ Len(new) = n
      BY <2>2 DEF Byte
    <2>4. given' \in Seq(Byte) /\ Len(given') = Len(given) + n
      <3>1. given' = given \o new
        BY <2>1
      <3> HIDE DEF new
      <3> QED BY <2>2, <2>3, <3>1, ConcatProperties
    <2>5. \A k \in 1..Len(given') : given'[k] = IF k <= Len(given) THEN given[k]
                                                ELSE byte(k - Len(given))
      BY <2>1, <2>2, <2>3, <2>4
    <2>6. \A k \in 1..Len(given') : k - 1 \in DOMAIN buffer
      BY <2>2, <2>4
    <2>7. \A k \in 1..Len(given') :
            buffer'[k - 1] = IF k <= Len(given) THEN buffer[k - 1]
                             ELSE byte(k - Len(given))
      <3> SUFFICES ASSUME NEW k \in 1..Len(given')
                   PROVE  buffer'[k - 1] = IF k <= Len(given) THEN buffer[k - 1]
                                           ELSE byte(k - Len(given))
        OBVIOUS
      <3>1. k \in Nat /\ k - 1 \in DOMAIN buffer
        BY <2>4, <2>6
      <3>2. CASE k <= Len(given)
        <4>1. ~(k - 1 \in buffer_idx..buffer_idx + n - 1)
          BY <2>2, <3>1, <3>2
        <4> QED BY <2>1, <3>1, <3>2, <4>1
      <3>3. CASE k > Len(given)
        <4>1. k - 1 \in buffer_idx..buffer_idx + n - 1 /\ k - 1 - buffer_idx + 1 = k - Len(given)
          BY <2>2, <2>4, <3>1, <3>3
        <4> QED BY <2>1, <2>2, <3>1, <3>3, <4>1
      <3> QED BY <2>2, <3>1, <3>2, <3>3
    <2>8. \A k \in 1..Len(given') : buffer'[k - 1] = given'[k]
      <3> SUFFICES ASSUME NEW k \in 1..Len(given') PROVE buffer'[k - 1] = given'[k]
        OBVIOUS
      <3>1. CASE k <= Len(given)
        <4>1. k \in 1..Len(given)
          BY <2>4, <3>1
        <4> QED BY <2>2, <2>5, <2>7, <3>1, <4>1
      <3>2. CASE ~(k <= Len(given))
        BY <2>5, <2>7, <3>2
      <3> QED BY <3>1, <3>2
    <2>9. DOMAIN buffer' = 0..BufferSize - 1 /\ buffer_idx' = buffer_idx + n
      BY <2>1
    <2> HIDE DEF byte, new
    <2>10. n \in Nat /\ Len(given) + n <= MaxTransfer /\ MaxTransfer \in Nat
      BY <2>2
    <2>11. round' \in Nat /\ written' \in Nat
      BY <2>2
    <2> QED BY <2>2, <2>4, <2>8, <2>9, <2>10, <2>11
  <1>3. CASE EndTransfer
    BY <1>3 DEF EndTransfer, Call, callerVars
  <1>4. CASE WriteRegister
    BY <1>4 DEF WriteRegister, Call, callerVars
  <1>5. CASE NextStage
    BY <1>5 DEF NextStage, callerVars
  <1>6. CASE GetReadings
    BY <1>6 DEF GetReadings, Call, callerVars
  <1>7. CASE Return
    BY <1>7 DEF Return, callerVars
  <1>8. CASE Driver
    BY <1>8 DEF Driver, callerVars, StartRequest, SendAddress, StartTimeout, ClearAddr, AddrTimeout, SendByte, SendTimeout, SentAll, SendComplete, CompleteTimeout, SetStop, AckByte, ReadByte, ReadTimeout, Fail
  <1>9. CASE Peripheral \/ Release \/ Plug
    BY <1>9 DEF Peripheral, Release, Plug, BusStart, BusStop, BusAnswer,
       BusShift, BusReceive, callerVars, driverVars
  <1>10. CASE UNCHANGED vars
    BY <1>10 DEF vars, callerVars, driverVars
  <1> QED BY <1>1, <1>2, <1>3, <1>4, <1>5, <1>6, <1>7, <1>8, <1>9, <1>10 DEF Next, Caller

(* A call that begins: nothing of what it sends is under way yet.           *)
LEMMA CallData ==
    ASSUME DataInv, NEW op, NEW dev, NEW tx \in Seq(Byte), NEW len,
           Call(op, dev, tx, len), UNCHANGED <<out, received>>,
           op = "send" /\ dev = "display" => tx = given'
    PROVE  DataInv'
  <1>1. /\ call'.op = op /\ call'.dev = dev /\ call'.tx = tx /\ pc' = "busy" /\ i' = 0
    BY CallBegins
  <1>2. Len(tx) \in Nat
    OBVIOUS
  <1> QED BY <1>1, <1>2 DEF DataInv

(* The bytes stay where they are, and the driver and the bus where DataInv  *)
(* says nothing new of them.                                                *)
LEMMA DataStep ==
    ASSUME BusInv, BufferInv, SendInv, DataInv, [Next]_vars
    PROVE  DataInv'
  <1> USE DEF callerVars, driverVars, busVars, worldVars
  <1>1. CASE StartRequest
    BY <1>1 DEF StartRequest, BusInv, SendInv, DataInv, Talking, Underway
  <1>2. CASE SendAddress
    BY <1>2 DEF SendAddress, BusInv, SendInv, DataInv, Talking, Underway
  <1>3. CASE StartTimeout
    BY <1>3 DEF StartTimeout, Fail, BusInv, SendInv, DataInv, Talking, Underway
  <1>4. CASE ClearAddr
    BY <1>4 DEF ClearAddr, BusInv, SendInv, DataInv, Talking, Underway
  <1>5. CASE AddrTimeout
    BY <1>5 DEF AddrTimeout, Fail, BusInv, SendInv, DataInv, Talking, Underway
  <1>6. CASE SendByte
    <2>1. /\ pc = "txe" /\ i < Len(call.tx) /\ phase = "write"
          /\ out' = Append(out, call.tx[i + 1]) /\ i' = i + 1
          /\ UNCHANGED <<pc, call, received, phase, given, err, addr, start>>
      BY <1>6 DEF SendByte, Txe
    <2>2. out \in Seq(Byte) /\ received \in Seq(Byte) /\ call.tx \in Seq(Byte)
      BY DEF DataInv
    <2>3. i \in Nat /\ Len(call.tx) \in Nat /\ call.tx[i + 1] \in Byte
      <3>1. i \in Nat /\ i + 1 \in 1..Len(call.tx)
        BY <2>1, <2>2 DEF DataInv
      <3> QED BY <2>2, <3>1
    <2>4. /\ out' \in Seq(Byte) /\ Len(out') = Len(out) + 1
          /\ \A k \in 1..Len(out) : out'[k] = out[k]
          /\ out'[Len(out) + 1] = call.tx[i + 1]
          /\ Len(out) \in Nat /\ Len(received) \in Nat
      BY <2>1, <2>2, <2>3, AppendProperties
    <2>5. CASE call.op = "send"
      <3>1. i \in 0..Len(call.tx) /\ Underway
        BY <2>1, <2>3, <2>5 DEF DataInv
      <3>2. \A k \in 1..Len(out') : out'[k] = call.tx[Len(received) + k]
        <4> SUFFICES ASSUME NEW k \in 1..Len(out')
                     PROVE  out'[k] = call.tx[Len(received) + k]
          OBVIOUS
        <4>1. CASE k \in 1..Len(out)
          BY <2>4, <3>1, <4>1 DEF Underway
        <4>2. CASE k = Len(out) + 1
          BY <2>4, <3>1, <4>2 DEF Underway
        <4> QED BY <2>4, <4>1, <4>2
      <3>3. Underway'
        BY <2>1, <2>4, <3>1, <3>2 DEF Underway
      <3> QED BY <2>1, <2>2, <2>3, <2>4, <3>1, <3>3 DEF DataInv
    <2>6. CASE call.op # "send"
      BY <2>1, <2>2, <2>3, <2>4, <2>6 DEF DataInv
    <2> QED BY <2>5, <2>6
  <1>7. CASE SendTimeout
    BY <1>7 DEF SendTimeout, Fail, BusInv, SendInv, DataInv, Talking, Underway
  <1>8. CASE SentAll
    BY <1>8 DEF SentAll, BusInv, SendInv, DataInv, Talking, Underway
  <1>9. CASE SendComplete
    BY <1>9 DEF SendComplete, Btf, BusInv, SendInv, DataInv, Talking, Underway
  <1>10. CASE CompleteTimeout
    BY <1>10 DEF CompleteTimeout, Fail, BusInv, SendInv, DataInv, Talking, Underway
  <1>11. CASE SetStop
    BY <1>11 DEF SetStop, BusInv, SendInv, DataInv, Talking, Underway
  <1>12. CASE AckByte
    BY <1>12 DEF AckByte, BusInv, SendInv, DataInv, Talking, Underway
  <1>13. CASE ReadByte
    BY <1>13 DEF ReadByte, BusInv, SendInv, DataInv, Talking, Underway
  <1>14. CASE ReadTimeout
    BY <1>14 DEF ReadTimeout, Fail, BusInv, SendInv, DataInv, Talking, Underway
  <1>15. CASE StartTransfer
    BY <1>15 DEF StartTransfer, BusInv, SendInv, DataInv, Talking, Underway
  <1>16. CASE SendChunk
    BY <1>16 DEF SendChunk, BusInv, SendInv, DataInv, Talking, Underway
  <1>17. CASE EndTransfer
    <2> DEFINE tx == [k \in 1..buffer_idx |-> buffer[k - 1]]
    <2>1. /\ Call("send", "display", tx, 0) /\ pc = "transfer"
          /\ UNCHANGED <<out, received, given>>
      BY <1>17 DEF EndTransfer
    <2>2. /\ given \in Seq(Byte) /\ buffer_idx = Len(given) /\ Len(given) \in Nat
          /\ \A k \in 1..Len(given) : buffer[k - 1] = given[k]
      BY <2>1 DEF BufferInv
    <2>3. \A k \in 1..Len(given) : given[k] \in Byte
      BY <2>2
    <2>4. tx \in Seq(Byte) /\ Len(tx) = Len(given)
      BY <2>2, <2>3
    <2>5. \A k \in 1..Len(tx) : tx[k] = given[k]
      BY <2>2, <2>4
    <2> HIDE DEF tx
    <2>6. tx = given
      BY <2>2, <2>4, <2>5, SeqEqual
    <2> QED BY <2>1, <2>4, <2>6, CallData
  <1>18. CASE WriteRegister
    <2> DEFINE tx == <<<<2, written + 1>>, <<3, written + 1>>>>
    <2>1. Call("send", "accelerometer", tx, 0) /\ UNCHANGED <<out, received>>
      BY <1>18 DEF WriteRegister
    <2>2. tx \in Seq(Byte)
      BY DEF Byte, BufferInv
    <2> HIDE DEF tx
    <2> QED BY <2>1, <2>2, CallData
  <1>19. CASE NextStage
    BY <1>19 DEF NextStage, BusInv, SendInv, DataInv, Talking, Underway
  <1>20. CASE GetReadings
    <2>1. UNCHANGED <<out, received>>
      BY <1>20 DEF GetReadings
    <2>2. <<>> \in Seq(Byte) /\ <<<<2, 0>>>> \in Seq(Byte)
      BY DEF Byte
    <2>3. \/ Call("send", "accelerometer", <<<<2, 0>>>>, 0)
          \/ Call("read", "accelerometer", <<>>, Readings)
          \/ Call("readReg", "accelerometer", <<<<2, 0>>>>, Readings)
          \/ \E d \in Devices : Call("ping", d, <<>>, 0)
      BY <1>20 DEF GetReadings
    <2>4. CASE Call("send", "accelerometer", <<<<2, 0>>>>, 0)
      BY <2>1, <2>2, <2>4, CallData
    <2>5. CASE Call("read", "accelerometer", <<>>, Readings)
      BY <2>1, <2>2, <2>5, CallData
    <2>6. CASE Call("readReg", "accelerometer", <<<<2, 0>>>>, Readings)
      BY <2>1, <2>2, <2>6, CallData
    <2>7. CASE \E d \in Devices : Call("ping", d, <<>>, 0)
      BY <2>1, <2>2, <2>7, CallData
    <2> QED BY <2>3, <2>4, <2>5, <2>6, <2>7
  <1>21. CASE Return
    BY <1>21 DEF Return, NoCall, BusInv, SendInv, DataInv, Talking, Underway
  <1>22. CASE BusStart
    BY <1>22 DEF BusStart, StartPossible, BusInv, SendInv, DataInv, Talking, Underway
  <1>23. CASE BusStop
    BY <1>23 DEF BusStop, StopPossible, BusInv, SendInv, DataInv, Talking, Underway
  <1>24. CASE BusAnswer
    BY <1>24 DEF BusAnswer, AnswerPossible, BusInv, SendInv, DataInv, Talking, Underway
  <1>25. CASE BusShift
    <2>1. /\ phase = "write" /\ out # <<>> /\ pc' = pc /\ call' = call /\ i' = i
          /\ UNCHANGED <<given, addr, err, start>>
      BY <1>25 DEF BusShift, ShiftPossible
    <2>2. out \in Seq(Byte) /\ received \in Seq(Byte) /\ call.tx \in Seq(Byte)
      BY DEF DataInv
    <2>3. /\ Head(out) = out[1] /\ Head(out) \in Byte /\ Tail(out) \in Seq(Byte)
          /\ Len(Tail(out)) = Len(out) - 1 /\ Len(out) \in Nat \ {0}
          /\ \A k \in 1..Len(Tail(out)) : Tail(out)[k] = out[k + 1]
      BY <2>1, <2>2, HeadTailProperties, EmptySeq
    <2>4. CASE call.dev \in present
      <3>1. received' = Append(received, Head(out)) /\ out' = Tail(out) /\ phase' = phase
        BY <1>25, <2>4 DEF BusShift
      <3>2. /\ received' \in Seq(Byte) /\ Len(received') = Len(received) + 1
            /\ \A k \in 1..Len(received) : received'[k] = received[k]
            /\ received'[Len(received) + 1] = Head(out) /\ Len(received) \in Nat
        BY <2>2, <2>3, <3>1, AppendProperties
      <3>3. Underway => Underway'
        <4> SUFFICES ASSUME Underway PROVE Underway'
          OBVIOUS
        <4>1. Len(received') + Len(out') = i'
          BY <2>1, <2>3, <3>1, <3>2 DEF Underway
        <4>2. \A k \in 1..Len(received') : received'[k] = call.tx[k]
          <5> SUFFICES ASSUME NEW k \in 1..Len(received')
                       PROVE  received'[k] = call.tx[k]
            OBVIOUS
          <5>1. CASE k \in 1..Len(received)
            BY <3>2, <5>1 DEF Underway
          <5>2. CASE k = Len(received) + 1
            <6>1. 1 \in 1..Len(out)
              BY <2>3
            <6> QED BY <2>3, <3>2, <5>2, <6>1 DEF Underway
          <5> QED BY <3>2, <5>1, <5>2
        <4>3. \A k \in 1..Len(out') : out'[k] = call.tx[Len(received') + k]
          <5> SUFFICES ASSUME NEW k \in 1..Len(out')
                       PROVE  out'[k] = call.tx[Len(received') + k]
            OBVIOUS
          <5>1. out'[k] = out[k + 1] /\ k + 1 \in 1..Len(out)
            BY <2>3, <3>1
          <5>2. out[k + 1] = call.tx[Len(received) + (k + 1)]
            BY <5>1 DEF Underway
          <5>3. Len(received) + (k + 1) = Len(received') + k
            BY <3>2, <2>3, <3>1
          <5> QED BY <5>1, <5>2, <5>3
        <4> QED BY <2>1, <4>1, <4>2, <4>3 DEF Underway
      <3> QED BY <2>1, <2>3, <3>1, <3>2, <3>3 DEF DataInv
    <2>5. CASE call.dev \notin present
      BY <1>25, <2>1, <2>5 DEF BusShift, DataInv, BusInv
    <2> QED BY <2>4, <2>5
  <1>26. CASE BusReceive
    BY <1>26 DEF BusReceive, ReceivePossible, BusInv, SendInv, DataInv, Talking, Underway
  <1>27. CASE Release
    BY <1>27 DEF Release, BusInv, SendInv, DataInv, Talking, Underway
  <1>28. CASE Plug
    BY <1>28 DEF Plug, BusInv, SendInv, DataInv, Talking, Underway
  <1>29. CASE UNCHANGED vars
    BY <1>29 DEF vars, DataInv, Underway
  <1> QED BY <1>1, <1>2, <1>3, <1>4, <1>5, <1>6, <1>7, <1>8, <1>9, <1>10, <1>11, <1>12, <1>13, <1>14, <1>15, <1>16, <1>17, <1>18, <1>19, <1>20, <1>21, <1>22, <1>23, <1>24, <1>25, <1>26, <1>27, <1>28, <1>29
          DEF Next, Driver, Caller, Peripheral

LEMMA Inits == Init => BusInv /\ BufferInv /\ SendInv /\ DataInv
  <1> SUFFICES ASSUME Init PROVE BusInv /\ BufferInv /\ SendInv /\ DataInv
    OBVIOUS
  <1>1. BusInv
    BY DEF Init, BusInv, Talking
  <1>2. BufferInv
    BY BufferAssumption, EmptySeq DEF Init, BufferInv
  <1>3. SendInv
    BY DEF Init, SendInv, NoCall
  <1>4. DataInv
    BY EmptySeq DEF Init, DataInv, NoCall
  <1> QED BY <1>1, <1>2, <1>3, <1>4

-----------------------------------------------------------------------------
(* No call leaves the bus claimed (lib_i2c.c:97 and 147), whatever failed.  *)
THEOREM BusAlwaysGivenBack == Spec => []BusGivenBack
  <1>1. BusInv /\ [Next]_vars => BusInv'
    BY BusStep
  <1>2. BusInv => BusGivenBack
    BY DEF BusInv, BusGivenBack
  <1> QED BY Inits, <1>1, <1>2, PTL DEF Spec

(* The display's buffer holds what u8g2 sends at a time (display.c:146).    *)
THEOREM BufferNeverOverrun == Spec => []BufferInBounds
  <1>1. BufferInv /\ [Next]_vars => BufferInv'
    BY BufferStep
  <1>2. BufferInv => BufferInBounds
    BY BufferAssumption DEF BufferInv, BufferInBounds
  <1> QED BY Inits, <1>1, <1>2, PTL DEF Spec

(* A transfer holds the main loop up for two timeouts at most.              *)
THEOREM AlwaysTwoTimeoutsAtMost == Spec => []TwoTimeoutsAtMost
  <1>1. SendInv /\ [Next]_vars => SendInv'
    BY SendStep
  <1>2. SendInv => TwoTimeoutsAtMost
    BY DEF SendInv, TwoTimeoutsAtMost
  <1> QED BY Inits, <1>1, <1>2, PTL DEF Spec

(* What i2c_sendBytes reports as done (lib_i2c.c:111) has arrived complete  *)
(* and in order, and is what u8g2 handed over.                              *)
THEOREM OkAlwaysReceived == Spec => []OkMeansReceived
  <1>1. BusInv /\ [Next]_vars => BusInv'
    BY BusStep
  <1>2. BufferInv /\ [Next]_vars => BufferInv'
    BY BufferStep
  <1>3. SendInv /\ [Next]_vars => SendInv'
    BY SendStep
  <1>4. BusInv /\ BufferInv /\ SendInv /\ DataInv /\ [Next]_vars => DataInv'
    BY DataStep
  <1>5. DataInv => OkMeansReceived
    BY DEF DataInv, OkMeansReceived
  <1> QED BY Inits, <1>1, <1>2, <1>3, <1>4, <1>5, PTL DEF Spec
=============================================================================
