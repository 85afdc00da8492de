----------------------------- MODULE PdSinkProofs -----------------------------
(* Proofs about PdSink, for all offers and any number of losses, resets,    *)
(* rejections and changed offers: a negotiation that reports success has a  *)
(* contract behind it, a source that keeps to its offer supplies no voltage *)
(* the iron may not get, and undisturbed no Request is lost.                *)
EXTENDS PdSink, TLAPS

(* What is on the wire and in the buffer is well formed: Requests name a    *)
(* PDO counted from 1, an offer that arrives is one the source may make,    *)
(* and the source accepts only what is in its present offer.                *)
WireOK ==
    /\ buffer.type = "request" => buffer.arg \in Nat \ {0}
    /\ sending.type = "request" => sending.arg \in Nat \ {0}
    /\ ack.type \in {"none", "goodcrc"}
    /\ buffer.type = "source_cap" => buffer.arg \in Offers
    /\ pc \in {"select", "request"} => choice \in Nat \ {0}
    /\ offer \in Offers
    /\ phase = "accept" => wanted \in 1..Len(offer)

(* The trace a PS_RDY leaves, from the source that sends it to the main     *)
(* that acts on it: at every stage the source has already granted a         *)
(* voltage.  This is what makes SuccessMeansContract inductive.             *)
ContractOK ==
    /\ phase = "supply" => granted # 0
    /\ received /\ buffer.type = "ps_rdy" => granted # 0
    /\ state = "PS_RDY" => granted # 0
    /\ SuccessMeansContract

(* A voltage of an offer is not the mark for "nothing granted".             *)
LEMMA VoltageNotZero ==
    ASSUME NEW o \in Offers, NEW i \in 1..Len(o)
    PROVE  o[i] # 0
BY OffersAssumption

(* Offers are not empty.                                                    *)
LEMMA OfferNotEmpty ==
    ASSUME NEW o \in Offers
    PROVE  o # <<>>
BY OffersAssumption

(* What the source sends of its own accord: an offer, or a PS_RDY only when *)
(* it supplies.                                                             *)
LEMMA OutgoingFields ==
    /\ Outgoing.type = "ps_rdy" => phase = "supply"
    /\ Outgoing.type = "source_cap" => Outgoing.arg = offer
    /\ Outgoing.type # "request"
BY DEF Outgoing, Msg, NoMsg

-----------------------------------------------------------------------------
(* No step puts a malformed message on the wire.                            *)
LEMMA WireStep == WireOK /\ [Next]_vars => WireOK'
<1> SUFFICES ASSUME WireOK, [Next]_vars
             PROVE  WireOK'
  OBVIOUS
<1> USE DEF WireOK, mainVars, sinkVars, phyVars, sourceVars, faultVars
<1>1. CASE ReceiveGoodCRC \/ TransmitEnd
  BY <1>1 DEF ReceiveGoodCRC, TransmitEnd
<1>2. CASE ReceiveMessage
  BY <1>2 DEF ReceiveMessage, SendMessage, Msg, Garbage
<1>3. CASE PollIdle \/ AwaitAccept \/ PollWait \/ PollReady
  BY <1>3 DEF PollIdle, AwaitAccept, PollWait, PollReady, PollAgain
<1>4. CASE PollOffer
  BY <1>4 DEF PollOffer, Msg
<1>5. CASE SendDefault
  BY <1>5 DEF SendDefault, SendMessage, BufferedRequest, Msg, Garbage
<1>6. CASE ScanHit
  BY <1>6 DEF ScanHit, Candidates
<1>7. CASE ScanMiss
  BY <1>7 DEF ScanMiss
<1>8. CASE Select
  BY <1>8 DEF Select, Msg
<1>9. CASE SendRequest
  BY <1>9 DEF SendRequest, SendMessage, BufferedRequest, Msg, Garbage
<1>10. CASE Clock
  BY <1>10 DEF Clock
<1>11. CASE TransmitDone
  <2>1. /\ UNCHANGED <<pc, choice, buffer, offer>>
        /\ sending' = NoMsg
        /\ \/ phase' # "accept"
           \/ UNCHANGED <<phase, wanted>>
           \/ /\ phase' = "accept" /\ wanted' = sending.arg
              /\ sending.type = "request" /\ sending.arg <= Len(offer)
    BY <1>11 DEF TransmitDone, HearGoodCRC, HearRequest, DropRequest,
                 HearNothing, Lost
  <2>2. sending'.type = "none"
    BY <2>1 DEF NoMsg, Msg
  <2>4. ack'.type \in {"none", "goodcrc"}
    BY <1>11 DEF TransmitDone, HearGoodCRC, HearRequest, DropRequest,
                 HearNothing, Lost, Msg
  <2>3. Len(offer) \in Nat
    BY OffersAssumption
  <2> QED
    BY <2>1, <2>2, <2>3, <2>4
<1>12. CASE SourceAck
  BY <1>12 DEF SourceAck, Deliver, NoMsg, Msg
<1>13. CASE SourceMessage
  BY <1>13, OutgoingFields DEF SourceMessage, Deliver
<1>14. CASE Reoffer
  BY <1>14 DEF Reoffer
<1>15. CASE HardReset
  BY <1>15 DEF HardReset, NoMsg, Msg
<1>16. CASE UNCHANGED vars
  BY <1>16 DEF vars
<1> QED
  BY <1>1, <1>2, <1>3, <1>4, <1>5, <1>6, <1>7, <1>8, <1>9, <1>10, <1>11,
     <1>12, <1>13, <1>14, <1>15, <1>16 DEF Next, Main, Interrupt, Source

-----------------------------------------------------------------------------
(* The interrupt handler reads PS_RDY only where the source has granted.    *)
LEMMA ContractStep == WireOK /\ ContractOK /\ [Next]_vars => ContractOK'
<1> SUFFICES ASSUME WireOK, ContractOK, [Next]_vars
             PROVE  ContractOK'
  OBVIOUS
<1> USE DEF ContractOK, SuccessMeansContract, Decided, mainVars, sinkVars,
            phyVars, sourceVars, faultVars
<1>1. CASE ReceiveGoodCRC \/ TransmitEnd
  BY <1>1 DEF ReceiveGoodCRC, TransmitEnd
<1>2. CASE ReceiveMessage
  <2>1. state' = "PS_RDY" => buffer.type = "ps_rdy" \/ state = "PS_RDY"
    BY <1>2 DEF ReceiveMessage, NextState
  <2>2. caps' = caps \/ caps' # <<>>
    BY <1>2, OfferNotEmpty DEF ReceiveMessage, WireOK
  <2> QED
    BY <1>2, <2>1, <2>2 DEF ReceiveMessage
<1>3. CASE PollIdle \/ AwaitAccept \/ PollWait
  BY <1>3 DEF PollIdle, AwaitAccept, PollWait, PollAgain, MainRuns,
              InterruptPending
<1>4. CASE PollOffer \/ SendDefault
  BY <1>4 DEF PollOffer, SendDefault, MainRuns, InterruptPending
<1>5. CASE PollReady
  BY <1>5 DEF PollReady
<1>6. CASE ScanHit \/ ScanMiss \/ Select \/ SendRequest
  BY <1>6 DEF ScanHit, ScanMiss, Select, SendRequest, MainRuns,
              InterruptPending
<1>7. CASE Clock
  BY <1>7 DEF Clock
<1>8. CASE TransmitDone
  <2>1. UNCHANGED <<pc, state, caps, received, buffer>>
    BY <1>8 DEF TransmitDone
  <2>2. /\ granted' # 0 \/ granted' = granted
        /\ phase' = "supply" => phase = "supply" \/ granted' # 0
    <3>1. CASE HearGoodCRC(sending)
      <4>1. phase = "accept" => offer[wanted] # 0
        BY VoltageNotZero DEF WireOK
      <4> QED
        BY <3>1, <4>1 DEF HearGoodCRC
    <3>2. CASE HearRequest(sending)
      BY <3>2 DEF HearRequest
    <3>3. CASE DropRequest(sending) \/ HearNothing(sending)
      BY <3>3 DEF DropRequest, HearNothing
    <3>4. CASE UNCHANGED <<phase, granted>>
      BY <3>4
    <3> QED
      BY <1>8, <3>1, <3>2, <3>3, <3>4 DEF TransmitDone
  <2> QED
    BY <2>1, <2>2
<1>9. CASE SourceAck
  BY <1>9 DEF SourceAck, Deliver, WireOK
<1>10. CASE SourceMessage
  BY <1>10, OutgoingFields DEF SourceMessage, Deliver
<1>11. CASE Reoffer
  BY <1>11 DEF Reoffer
<1>12. CASE HardReset
  BY <1>12 DEF HardReset
<1>13. CASE UNCHANGED vars
  BY <1>13 DEF vars
<1> QED
  BY <1>1, <1>2, <1>3, <1>4, <1>5, <1>6, <1>7, <1>8, <1>9, <1>10, <1>11,
     <1>12, <1>13 DEF Next, Main, Interrupt, Source

(* Whenever pd_negotiate has reported success, the source has granted a     *)
(* voltage since the last power-up and its offer is known.                  *)
THEOREM SuccessAlwaysMeansContract == Spec => []SuccessMeansContract
<1>1. Init => WireOK /\ ContractOK
  BY DEF Init, WireOK, ContractOK, SuccessMeansContract, Decided, NoMsg, Msg
<1>2. WireOK /\ ContractOK /\ [Next]_vars => WireOK' /\ ContractOK'
  BY WireStep, ContractStep
<1>3. ContractOK => SuccessMeansContract
  BY DEF ContractOK
<1> QED
  BY <1>1, <1>2, <1>3, PTL DEF Spec

-----------------------------------------------------------------------------
(* The objects of the present offer the iron may ask for: the first, and    *)
(* those pd_get_profile accepts.                                            *)
Good == {k \in 1..Len(offer) : k = 1 \/ offer[k] \in Fits}

(* While the source keeps to its offer, the engine's copy of it is right,   *)
(* and every Request, from the choice in pd_get_profile to the source that  *)
(* accepts it, names one of these objects.                                  *)
KeepsOffer ==
    /\ caps \in {<<>>, offer}
    /\ buffer.type = "source_cap" => buffer.arg = offer
    /\ pc \in {"scan", "select", "request"} => caps = offer /\ capCount = Len(offer)
    /\ pc \in {"select", "request"} => choice \in Good
    /\ buffer.type = "request" => buffer.arg \in Good
    /\ sending.type = "request" => sending.arg \in Good
    /\ phase = "accept" => wanted \in Good
    /\ granted \in {0, offer[1]} \cup Fits

FittingInv == reoffers \in Nat /\ offer \in Offers /\ (reoffers = 0 => KeepsOffer)

LEMMA FirstIsGood ==
    ASSUME offer \in Offers
    PROVE  1 \in Good /\ Len(offer) \in Nat /\ \A k \in Good : offer[k] \in {offer[1]} \cup Fits
  BY OffersAssumption DEF Good

LEMMA FittingStep == WireOK /\ FittingInv /\ [Next]_vars => FittingInv'
<1> SUFFICES ASSUME WireOK, FittingInv, [Next]_vars
             PROVE  FittingInv'
  OBVIOUS
<1>0. 1 \in Good /\ Len(offer) \in Nat /\ \A k \in Good : offer[k] \in {offer[1]} \cup Fits
  BY FirstIsGood DEF FittingInv
<1> USE DEF FittingInv, KeepsOffer, Good, mainVars, sinkVars, phyVars, sourceVars,
            faultVars
<1>1. CASE ReceiveGoodCRC \/ TransmitEnd
  BY <1>1 DEF ReceiveGoodCRC, TransmitEnd
<1>2. CASE ReceiveMessage
  BY <1>2 DEF ReceiveMessage, SendMessage, Msg, Garbage
<1>3. CASE PollIdle \/ AwaitAccept \/ PollWait
  BY <1>3 DEF PollIdle, AwaitAccept, PollWait, PollAgain
<1>4. CASE PollOffer
  BY <1>0, <1>4 DEF PollOffer, Msg
<1>5. CASE SendDefault
  BY <1>5 DEF SendDefault, SendMessage, BufferedRequest, Msg, Garbage
<1>6. CASE PollReady
  BY <1>6 DEF PollReady
<1>7. CASE ScanHit
  <2>1. /\ pc = "scan" /\ choice' \in Candidates
        /\ UNCHANGED <<reoffers, offer, caps, capCount, buffer, sending, phase, wanted,
                       granted>>
        /\ pc' = "select"
    BY <1>7 DEF ScanHit
  <2>2. reoffers = 0 => choice' \in Good
    BY <1>0, <2>1 DEF Candidates
  <2> QED
    BY <2>1, <2>2
<1>8. CASE ScanMiss
  BY <1>8 DEF ScanMiss
<1>9. CASE Select
  BY <1>9 DEF Select, Msg
<1>10. CASE SendRequest
  BY <1>10 DEF SendRequest, SendMessage, BufferedRequest, Msg, Garbage
<1>11. CASE Clock
  BY <1>11 DEF Clock
<1>12. CASE TransmitDone
  <2>1. /\ UNCHANGED <<pc, capCount, choice, caps, buffer, offer, reoffers>>
        /\ sending' = NoMsg
    BY <1>12 DEF TransmitDone, HearGoodCRC, HearRequest, DropRequest, HearNothing
  <2>2. \/ UNCHANGED <<wanted, granted>> /\ (phase' = "accept" => phase = "accept")
        \/ /\ sending.type = "request" /\ wanted' = sending.arg
           /\ UNCHANGED granted
        \/ /\ phase = "accept" /\ granted' = offer[wanted] /\ UNCHANGED wanted
           /\ phase' = "supply"
    <3>1. CASE HearGoodCRC(sending)
      BY <3>1 DEF HearGoodCRC
    <3>2. CASE HearRequest(sending)
      BY <3>2 DEF HearRequest
    <3>3. CASE DropRequest(sending) \/ HearNothing(sending)
      BY <3>3 DEF DropRequest, HearNothing
    <3>4. CASE UNCHANGED <<phase, wanted, granted>>
      BY <3>4
    <3> QED
      BY <1>12, <3>1, <3>2, <3>3, <3>4 DEF TransmitDone
  <2>3. sending'.type = "none"
    BY <2>1 DEF NoMsg, Msg
  <2> QED
    BY <1>0, <2>1, <2>2, <2>3
<1>13. CASE SourceAck
  BY <1>13 DEF SourceAck, Deliver, WireOK
<1>14. CASE SourceMessage
  BY <1>14, OutgoingFields DEF SourceMessage, Deliver
<1>15. CASE Reoffer
  BY <1>15 DEF Reoffer
<1>16. CASE HardReset
  BY <1>16 DEF HardReset, NoMsg, Msg
<1>17. CASE UNCHANGED vars
  BY <1>17 DEF vars
<1> QED
  BY <1>1, <1>2, <1>3, <1>4, <1>5, <1>6, <1>7, <1>8, <1>9, <1>10, <1>11, <1>12,
     <1>13, <1>14, <1>15, <1>16, <1>17 DEF Next, Main, Interrupt, Source

(* As long as the source keeps to its offer, VBUS carries 5 V, the first    *)
(* object or one pd_get_profile accepts (pd.c:114), whatever is lost, cut   *)
(* off, repeated or rejected, and however often the iron restarts.          *)
THEOREM OnlyFittingEver == Spec => []OnlyFittingVoltages
<1>1. Init => WireOK /\ FittingInv
  BY DEF Init, WireOK, FittingInv, KeepsOffer, NoMsg, Msg
<1>2. WireOK /\ FittingInv /\ [Next]_vars => WireOK' /\ FittingInv'
  BY WireStep, FittingStep
<1>3. FittingInv => OnlyFittingVoltages
  BY DEF FittingInv, KeepsOffer, OnlyFittingVoltages, Vbus
<1> QED
  BY <1>1, <1>2, <1>3, PTL DEF Spec

-----------------------------------------------------------------------------
(* Types                                                                    *)

LEMMA MessageParts ==
    ASSUME NEW m \in Messages
    PROVE  /\ m.id \in 0..IdMod - 1
           /\ m.type = "request" => m.arg \in Nat
           /\ m.type = "source_cap" => m.arg \in Offers
BY DEF Messages

LEMMA MessageMade ==
    ASSUME NEW id \in 0..IdMod - 1
    PROVE  /\ \A ty \in {"none", "garbage", "goodcrc", "accept", "reject", "ps_rdy"} :
                Msg(ty, id, 0) \in Messages
           /\ \A o \in Offers : Msg("source_cap", id, o) \in Messages
           /\ \A n \in Nat : Msg("request", id, n) \in Messages
           /\ NoMsg \in Messages /\ Garbage \in Messages
BY IdAssumption DEF Messages, Msg, NoMsg, Garbage

LEMMA NextIDRange ==
    ASSUME NEW id \in 0..IdMod - 1
    PROVE  NextID(id) \in 0..IdMod - 1
BY IdAssumption DEF NextID

LEMMA TypeStep == WireOK /\ TypeOK /\ [Next]_vars => TypeOK'
<1> SUFFICES ASSUME WireOK, TypeOK, [Next]_vars
             PROVE  TypeOK'
  OBVIOUS
<1>0. /\ NoMsg \in Messages /\ Garbage \in Messages
      /\ IdMod \in Nat \ {0} /\ CCDebounce \in Nat
      /\ messageID \in 0..IdMod - 1 /\ sourceID \in 0..IdMod - 1
  BY IdAssumption, MessageMade DEF TypeOK
<1> USE <1>0 DEF TypeOK, Decided, States, mainVars, sinkVars, phyVars, sourceVars, faultVars
<1>1. CASE ReceiveGoodCRC \/ TransmitEnd
  <2>1. messageID' \in 0..IdMod - 1
    BY <1>1, NextIDRange DEF ReceiveGoodCRC, TransmitEnd
  <2>2. CASE ReceiveGoodCRC
    <3>1. received' \in BOOLEAN
      BY <2>2 DEF ReceiveGoodCRC
    <3>2. UNCHANGED <<mainVars, state, ccCount, lastCC, caps, phy, sending, buffer,
                      sourceVars, faultVars>>
      BY <2>2 DEF ReceiveGoodCRC
    <3> QED
      BY <2>1, <3>1, <3>2
  <2>3. CASE TransmitEnd
    BY <2>3 DEF TransmitEnd
  <2> QED
    BY <1>1, <2>2, <2>3
<1>2. CASE ReceiveMessage
  <2>1. buffer' \in Messages
    BY <1>2, MessageParts, MessageMade DEF ReceiveMessage
  <2>2. caps' \in Offers \cup {<<>>}
    BY <1>2, MessageParts DEF ReceiveMessage
  <2>3. state' \in States
    BY <1>2 DEF ReceiveMessage, NextState
  <2> QED
    BY <1>2, <2>1, <2>2, <2>3 DEF ReceiveMessage, SendMessage
<1>3. CASE PollIdle
  BY <1>3 DEF PollIdle, PollAgain
<1>4. CASE AwaitAccept \/ PollWait \/ PollReady
  <2>1. Len(caps) \in Nat
    BY OffersAssumption
  <2>2. CASE AwaitAccept
    BY <2>2 DEF AwaitAccept, PollAgain
  <2>3. CASE PollWait
    BY <2>3 DEF PollWait, PollAgain
  <2>4. CASE PollReady
    BY <2>1, <2>4 DEF PollReady
  <2> QED
    BY <1>4, <2>2, <2>3, <2>4
<1>5. CASE PollOffer
  BY <1>5, MessageMade DEF PollOffer
<1>6. CASE SendDefault \/ SendRequest
  <2>1. sending' \in Messages /\ phy' = "sending"
    BY <1>6 DEF SendDefault, SendRequest, SendMessage, BufferedRequest
  <2>2. CASE SendDefault
    BY <2>1, <2>2 DEF SendDefault
  <2>3. CASE SendRequest
    BY <2>1, <2>3 DEF SendRequest
  <2> QED
    BY <1>6, <2>2, <2>3
<1>7. CASE ScanHit
  <2>1. \A o \in Offers : \A k \in 1..Len(o) : o[k] \in Nat
    BY OffersAssumption
  <2>2. Volts \subseteq Nat
    BY <2>1 DEF Volts
  <2>3. PICK k \in Candidates : choice' = k /\ voltage' \in
               IF Leftover(k) THEN Volts \cap Fits ELSE {caps[k]}
    BY <1>7 DEF ScanHit
  <2>4. k \in Nat /\ k >= 1
    BY DEF Candidates
  <2>5. ~Leftover(k) => caps[k] \in Nat
    BY <2>1, <2>4, OffersAssumption DEF Leftover
  <2> QED
    BY <1>7, <2>2, <2>3, <2>4, <2>5 DEF ScanHit
<1>8. CASE ScanMiss
  BY <1>8 DEF ScanMiss
<1>9. CASE Select
  BY <1>9, MessageMade DEF Select
<1>10. CASE Clock
  BY <1>10 DEF Clock
<1>11. CASE TransmitDone
  <2>1. sending \in Messages /\ sending.id \in 0..IdMod - 1
    BY MessageParts
  <2>2. CASE HearGoodCRC(sending)
    <3>1. phase = "accept" => offer[wanted] \in Nat
      BY OffersAssumption DEF WireOK
    <3>2. granted' \in Nat
      BY <2>2, <3>1 DEF HearGoodCRC
    <3>3. sourceID' \in 0..IdMod - 1
      BY <2>2, NextIDRange DEF HearGoodCRC
    <3>4. phase' \in {"wait", "supply", "ready"}
      BY <2>2 DEF HearGoodCRC
    <3>5. /\ losses' \in Nat /\ phy' = "sent" /\ sending' = NoMsg
          /\ UNCHANGED <<mainVars, sinkVars, received, buffer>>
      BY <1>11 DEF TransmitDone, Lost
    <3>6. UNCHANGED <<offer, lastID, ack, wanted, resets, rejects, reoffers, quiet>>
      BY <2>2 DEF HearGoodCRC
    <3> QED
      BY <3>2, <3>3, <3>4, <3>5, <3>6
  <2>3. CASE HearRequest(sending)
    BY <1>11, <2>1, <2>3, MessageMade, MessageParts DEF TransmitDone, HearRequest, Lost
  <2>4. CASE DropRequest(sending)
    BY <1>11, <2>1, <2>4, MessageMade DEF TransmitDone, DropRequest, Lost
  <2>5. CASE HearNothing(sending)
    BY <1>11, <2>5 DEF TransmitDone, HearNothing, Lost
  <2>6. CASE UNCHANGED <<sourceVars, resets, rejects, reoffers, quiet>>
    BY <1>11, <2>6 DEF TransmitDone, Lost
  <2> QED
    BY <1>11, <2>2, <2>3, <2>4, <2>5, <2>6 DEF TransmitDone
<1>12. CASE SourceAck
  <2>1. buffer' \in Messages
    BY <1>12 DEF SourceAck, Deliver
  <2>2. received' \in BOOLEAN
    BY <1>12 DEF SourceAck, Deliver
  <2>3. losses' \in Nat
    BY <1>12 DEF SourceAck, Deliver, Lost
  <2> QED
    BY <1>12, <2>1, <2>2, <2>3 DEF SourceAck, Deliver
<1>13. CASE SourceMessage
  <2>1. Outgoing \in Messages
    BY MessageMade DEF Outgoing
  <2>2. buffer' \in Messages
    BY <1>13, <2>1 DEF SourceMessage, Deliver
  <2>3. received' \in BOOLEAN
    BY <1>13 DEF SourceMessage, Deliver
  <2>4. losses' \in Nat
    BY <1>13 DEF SourceMessage, Deliver, Lost
  <2> QED
    BY <1>13, <2>2, <2>3, <2>4 DEF SourceMessage, Deliver
<1>14. CASE Reoffer
  BY <1>14 DEF Reoffer
<1>15. CASE HardReset
  <2>1. /\ messageID' \in 0..IdMod - 1 /\ sourceID' \in 0..IdMod - 1
        /\ lastID' \in 0..IdMod /\ ccCount' \in 0..CCDebounce
        /\ losses' \in Nat /\ resets' \in Nat /\ rejects' \in Nat /\ reoffers' \in Nat
    BY <1>15 DEF HardReset
  <2>2. late' \in BOOLEAN /\ received' \in BOOLEAN /\ quiet' \in BOOLEAN
    BY <1>15 DEF HardReset
  <2>3. /\ sending' \in Messages /\ buffer' \in Messages /\ ack' \in Messages
        /\ caps' \in Offers \cup {<<>>} /\ offer' \in Offers
    BY <1>15 DEF HardReset
  <2>4. /\ pc' = "poll" /\ state' = "IDLE" /\ lastCC' = "none" /\ phy' = "off"
        /\ phase' = "advertise" /\ capCount' = 0 /\ choice' = 0 /\ voltage' = 0
        /\ profile' = 0 /\ wanted' = 0 /\ granted' = 0
    BY <1>15 DEF HardReset
  <2> QED
    BY <2>1, <2>2, <2>3, <2>4
<1>16. CASE UNCHANGED vars
  BY <1>16 DEF vars
<1> QED
  BY <1>1, <1>2, <1>3, <1>4, <1>5, <1>6, <1>7, <1>8, <1>9, <1>10, <1>11, <1>12,
     <1>13, <1>14, <1>15, <1>16 DEF Next, Main, Interrupt, Source

(* The types of the engine, the wire and the source: the message IDs keep   *)
(* to the width of the header (usbpd.h:905).                                *)
THEOREM TypeCorrect == Spec => []TypeOK
<1>1. Init => WireOK /\ TypeOK
  <2> SUFFICES ASSUME Init PROVE WireOK /\ TypeOK
    OBVIOUS
  <2>1. WireOK
    BY DEF Init, WireOK, NoMsg, Msg
  <2>2. 0 \in 0..IdMod - 1 /\ IdMod \in 0..IdMod /\ 0 \in 0..CCDebounce
    BY IdAssumption
  <2>3. NoMsg \in Messages
    BY <2>2, MessageMade
  <2>4. quiet \in BOOLEAN
    BY BoundsAssumption DEF Init
  <2> QED
    BY <2>1, <2>2, <2>3, <2>4 DEF Init, TypeOK, Decided, States
<1>2. WireOK /\ TypeOK /\ [Next]_vars => WireOK' /\ TypeOK'
  BY WireStep, TypeStep
<1> QED
  BY <1>1, <1>2, PTL DEF Spec

-----------------------------------------------------------------------------
(* The stages of an undisturbed negotiation, up to the Request for the PDO  *)
(* chosen.  The default Request has not been sent ...                       *)
Unsent ==
    /\ pc \in {"poll", "send"} /\ phase \in {"advertise", "wait"}
    /\ messageID = 0 /\ lastID = IdMod /\ ack = NoMsg
    /\ sending.type # "request"
    /\ received => /\ phy = "listening" /\ phase = "advertise"
                   /\ state = "CABLE_DETECT"
                   /\ buffer.type = "source_cap" /\ buffer.id = sourceID
    /\ \/ state = "IDLE" /\ phy = "off" /\ phase = "advertise" /\ pc = "poll"
       \/ state = "CABLE_DETECT" /\ phy = "listening" /\ phase = "advertise"
          /\ pc = "poll"
       \/ /\ state = "SOURCE_CAP" /\ caps # <<>>
          /\ \/ phase = "wait"
             \/ phy = "sending" /\ sending = Msg("goodcrc", sourceID, 0)
    /\ pc = "send" => state = "SOURCE_CAP" /\ buffer = Msg("request", 0, 1)

(* ... it is on its way ...                                                 *)
OnItsWay ==
    /\ \/ pc = "await" /\ state = "SOURCE_CAP"
       \/ pc = "poll" /\ state = "WAIT_ACCEPT"
    /\ phase = "wait" /\ messageID = 0 /\ lastID = IdMod /\ ack = NoMsg
    /\ ~received /\ phy = "sending" /\ sending = Msg("request", 0, 1)

(* ... the source has it and answers with a GoodCRC ...                     *)
Heard ==
    /\ pc = "poll" /\ state = "WAIT_ACCEPT" /\ phase = "accept"
    /\ messageID = 0 /\ lastID = 0 /\ sending = NoMsg
    /\ \/ ack = Msg("goodcrc", 0, 0) /\ ~received /\ phy \in {"sent", "listening"}
       \/ ack = NoMsg /\ received /\ buffer.type = "goodcrc" /\ phy = "listening"

(* ... which has been counted, and the rest of the answer follows: an       *)
(* Accept and a PS_RDY, each in the buffer or with its GoodCRC on the way,  *)
(* so that the source waits for nothing any more when main sends the        *)
(* Request for the PDO it has chosen ...                                    *)
AcceptDue ==
    /\ state = "WAIT_ACCEPT" /\ phase = "accept"
    /\ phy = "listening" /\ sending = NoMsg
    /\ received => buffer = Msg("accept", sourceID, 0)

ReadyDue ==
    /\ state = "WAIT_PS_RDY"
    /\ \/ /\ phase = "accept" /\ ~received
          /\ phy = "sending" /\ sending = Msg("goodcrc", sourceID, 0)
       \/ /\ phase = "supply" /\ phy \in {"sent", "listening"} /\ sending = NoMsg
          /\ received => buffer = Msg("ps_rdy", sourceID, 0)

Contract ==
    /\ state = "PS_RDY" /\ ~received
    /\ \/ /\ phase = "supply"
          /\ phy = "sending" /\ sending = Msg("goodcrc", sourceID, 0)
       \/ phase = "ready" /\ phy \in {"sent", "listening"} /\ sending = NoMsg

Choosing ==
    /\ Contract /\ pc \in {"scan", "select", "request"}
    /\ caps = offer /\ capCount = Len(offer)
    /\ pc # "scan" => choice \in 1..Len(offer) /\ voltage = offer[choice]
    /\ pc = "request" => buffer = Msg("request", messageID, choice)

Counted ==
    /\ messageID = NextID(0) /\ lastID = 0 /\ ack = NoMsg
    /\ \/ pc = "poll" /\ (AcceptDue \/ ReadyDue \/ Contract)
       \/ Choosing

(* ... and then the negotiation is over, one way or the other: if there is  *)
(* a profile, its Request is on the wire, accepted or supplied.             *)
Requested ==
    /\ phase = "ready" /\ lastID = 0 /\ ack = NoMsg /\ ~received
    /\ phy = "sending" /\ sending.type = "request" /\ sending.id = NextID(0)
    /\ sending.arg \in 1..Len(offer) /\ offer[sending.arg] = profile

Served ==
    /\ sending.type # "request"
    /\ \/ phase = "accept" /\ offer[wanted] = profile
       \/ phase \in {"supply", "ready"} /\ granted = profile

Over == pc = "fail" \/ (pc = "run" /\ (profile # 0 => Requested \/ Served))

(* The engine knows the offer, or none; and the profile is set last.        *)
Known ==
    /\ caps = <<>> \/ caps = offer
    /\ buffer.type = "source_cap" => buffer.arg = offer
    /\ pc # "run" => profile = 0

(* This is what makes RequestIsServed inductive: it relates the counter of  *)
(* the engine to the last ID of the source at every stage.                  *)
QuietInv == quiet => Known /\ (Unsent \/ OnItsWay \/ Heard \/ Counted \/ Over)

(* An offer has a first PDO, the one the default Request asks for.          *)
LEMMA OfferHasFirst ==
    ASSUME offer \in Offers PROVE 1 <= Len(offer)
BY OffersAssumption

(* Until the default Request goes out, only the offer and its GoodCRC pass. *)
LEMMA UnsentStep ==
    ASSUME quiet, Unsent, WireOK, [Next]_vars
    PROVE  quiet' /\ (Unsent' \/ OnItsWay' \/ Over')
<1> USE IdAssumption DEF Unsent, OnItsWay, Heard, Over, Msg, NoMsg, Garbage,
            mainVars, sinkVars, phyVars, sourceVars, faultVars
<1>1. ~(ReceiveGoodCRC \/ AwaitAccept \/ PollReady \/ ScanHit \/
        ScanMiss \/ Select \/ SendRequest \/ Clock \/ SourceAck \/
        Reoffer \/ HardReset)
  BY DEF ReceiveGoodCRC, AwaitAccept, PollReady, ScanHit, ScanMiss, Select,
         SendRequest, Clock, SourceAck, Reoffer, HardReset
<1>2. CASE ReceiveMessage
  <2>1. buffer.type = "source_cap" /\ buffer.id = sourceID /\ buffer.arg # <<>>
    BY <1>2, OfferNotEmpty DEF ReceiveMessage, WireOK
  <2>2. /\ state' = "SOURCE_CAP" /\ caps' = buffer.arg /\ ~received'
        /\ phy = "listening" /\ phase = "advertise" /\ state = "CABLE_DETECT"
    BY <1>2, <2>1 DEF ReceiveMessage, NextState
  <2>3. phy' = "sending" /\ sending' = Msg("goodcrc", sourceID, 0)
    BY <1>2, <2>1, <2>2 DEF ReceiveMessage, SendMessage
  <2> QED
    BY <1>2, <2>1, <2>2, <2>3 DEF ReceiveMessage
<1>3. CASE TransmitEnd
  BY <1>3 DEF TransmitEnd
<1>4. CASE PollIdle
  BY <1>4 DEF PollIdle, PollAgain, MainRuns, InterruptPending
<1>5. CASE PollWait
  BY <1>5 DEF PollWait, PollAgain
<1>6. CASE PollOffer
  BY <1>6 DEF PollOffer, MainRuns, InterruptPending
<1>7. CASE SendDefault
  BY <1>7 DEF SendDefault, SendMessage, BufferedRequest, MainRuns,
         InterruptPending
<1>8. CASE TransmitDone
  <2>1. /\ state = "SOURCE_CAP" /\ caps # <<>>
        /\ phase = "wait" \/ sending = Msg("goodcrc", sourceID, 0)
    BY <1>8 DEF TransmitDone
  <2>2. /\ phy' = "sent" /\ sending' = NoMsg /\ quiet
        /\ UNCHANGED <<mainVars, sinkVars, received, buffer>>
        /\ \/ HearGoodCRC(sending) \/ HearRequest(sending)
           \/ DropRequest(sending) \/ HearNothing(sending)
    BY <1>8 DEF TransmitDone, Lost
  <2>3. ~HearRequest(sending) /\ ~DropRequest(sending)
    BY DEF HearRequest, DropRequest
  <2>4. HearGoodCRC(sending) => phase' = "wait"
    BY DEF HearGoodCRC, Outgoing
  <2>5. HearNothing(sending) => phase = "wait" \/ Outgoing = NoMsg
    BY <2>1 DEF HearNothing
  <2>6. phase' = "wait"
    BY <2>2, <2>3, <2>4, <2>5 DEF HearNothing, Outgoing
  <2>7. UNCHANGED <<lastID, ack, quiet>>
    BY <2>2, <2>3 DEF HearGoodCRC, HearNothing
  <2> QED
    BY <2>1, <2>2, <2>6, <2>7
<1>9. CASE SourceMessage
  BY <1>9 DEF SourceMessage, Deliver, Lost, Outgoing
<1>10. CASE UNCHANGED vars
  BY <1>10 DEF vars
<1> QED
  BY <1>1, <1>2, <1>3, <1>4, <1>5, <1>6, <1>7, <1>8, <1>9, <1>10
     DEF Next, Main, Interrupt, Source

(* The Request on its way reaches a source that waits for one, and it is a  *)
(* new one, for the first PDO: it is accepted.                              *)
LEMMA OnItsWayStep ==
    ASSUME quiet, OnItsWay, WireOK, [Next]_vars
    PROVE  quiet' /\ (OnItsWay' \/ Heard' \/ Over')
<1> USE IdAssumption DEF Unsent, OnItsWay, Heard, Over, Msg, NoMsg, Garbage,
            mainVars, sinkVars, phyVars, sourceVars, faultVars
<1>1. ~(ReceiveGoodCRC \/ ReceiveMessage \/ TransmitEnd \/ PollIdle \/
        PollOffer \/ SendDefault \/ PollReady \/ ScanHit \/ ScanMiss \/
        Select \/ SendRequest \/ Clock \/ SourceAck \/ Reoffer \/ HardReset)
  BY DEF ReceiveGoodCRC, ReceiveMessage, TransmitEnd, PollIdle, MainRuns,
         InterruptPending, PollOffer, SendDefault, PollReady, ScanHit,
         ScanMiss, Select, SendRequest, Clock, SourceAck, Reoffer, HardReset
<1>2. CASE AwaitAccept
  BY <1>2 DEF AwaitAccept, PollAgain
<1>3. CASE PollWait
  BY <1>3 DEF PollWait, PollAgain
<1>4. CASE TransmitDone
  <2>1. /\ phy' = "sent" /\ sending' = NoMsg /\ quiet /\ pc # "await"
        /\ UNCHANGED <<mainVars, sinkVars, received, buffer>>
        /\ \/ HearGoodCRC(sending) \/ HearRequest(sending)
           \/ DropRequest(sending) \/ HearNothing(sending)
    BY <1>4 DEF TransmitDone, Lost
  <2>2. sending.type = "request" /\ sending.id = 0 /\ sending.arg = 1
    OBVIOUS
  <2>3. 0 # lastID /\ phase = "wait"
    OBVIOUS
  <2>4. HearRequest(sending)
    BY <2>1, <2>2, <2>3 DEF HearGoodCRC, DropRequest, HearNothing
  <2>5. ~(1 > Len(offer))
    BY OfferHasFirst, OffersAssumption DEF WireOK
  <2>6. phase' = "accept" /\ ack' = Msg("goodcrc", 0, 0) /\ lastID' = 0 /\ quiet'
    BY <2>1, <2>2, <2>4, <2>5 DEF HearRequest
  <2> QED
    BY <2>1, <2>6
<1>5. CASE SourceMessage
  BY <1>5 DEF SourceMessage, Deliver, Lost, Outgoing
<1>6. CASE UNCHANGED vars
  BY <1>6 DEF vars
<1> QED
  BY <1>1, <1>2, <1>3, <1>4, <1>5, <1>6
     DEF Next, Main, Interrupt, Source

(* Its GoodCRC comes before anything else, and is counted.                  *)
LEMMA HeardStep ==
    ASSUME quiet, Heard, WireOK, [Next]_vars
    PROVE  quiet' /\ (Heard' \/ Counted' \/ Over')
<1> USE IdAssumption DEF Unsent, OnItsWay, Heard, Over, Msg, NoMsg, Garbage,
            mainVars, sinkVars, phyVars, sourceVars, faultVars
<1>1. ~(ReceiveMessage \/ PollIdle \/ PollOffer \/ SendDefault \/
        AwaitAccept \/ PollReady \/ ScanHit \/ ScanMiss \/ Select \/
        SendRequest \/ Clock \/ TransmitDone \/ Reoffer \/ HardReset)
  BY DEF ReceiveMessage, PollIdle, MainRuns, InterruptPending, PollOffer,
         SendDefault, AwaitAccept, PollReady, ScanHit, ScanMiss, Select,
         SendRequest, Clock, TransmitDone, Reoffer, HardReset
<1>2. CASE ReceiveGoodCRC
  BY <1>2 DEF ReceiveGoodCRC, Counted, AcceptDue
<1>3. CASE TransmitEnd
  BY <1>3 DEF TransmitEnd
<1>4. CASE PollWait
  BY <1>4 DEF PollWait, PollAgain
<1>5. CASE SourceAck
  BY <1>5 DEF SourceAck, Deliver, Lost
<1>6. CASE SourceMessage
  BY <1>6 DEF SourceMessage, Deliver, Lost, Outgoing
<1>7. CASE UNCHANGED vars
  BY <1>7 DEF vars
<1> QED
  BY <1>1, <1>2, <1>3, <1>4, <1>5, <1>6, <1>7
     DEF Next, Main, Interrupt, Source

(* What a message is made of.                                               *)
LEMMA MsgFields ==
    ASSUME NEW type, NEW id, NEW arg
    PROVE  Msg(type, id, arg).type = type
BY DEF Msg

(* Until the negotiation is reported, nothing but the answer is received.   *)
LEMMA AnswerType ==
    ASSUME Counted, pc = "poll", received
    PROVE  buffer.type # "goodcrc"
<1>1. \/ buffer = Msg("accept", sourceID, 0)
      \/ buffer = Msg("ps_rdy", sourceID, 0)
  BY DEF Counted, Choosing, AcceptDue, ReadyDue, Contract
<1>2. buffer.type \in {"accept", "ps_rdy"}
  BY <1>1, MsgFields
<1> QED
  BY <1>2

(* The Accept arrives.                                                      *)
LEMMA AcceptStep ==
    ASSUME quiet, Counted, pc = "poll", AcceptDue, [Next]_vars
    PROVE  Counted' \/ Over'
<1> USE DEF AcceptDue, Msg, NoMsg, mainVars, sinkVars, phyVars, sourceVars, faultVars
<1>0. messageID = NextID(0) /\ lastID = 0 /\ ack = NoMsg
  BY DEF Counted
<1>1. ~(PollIdle \/ PollOffer \/ SendDefault \/ AwaitAccept \/ PollReady \/
        ScanHit \/ ScanMiss \/ Select \/ SendRequest)
  BY DEF PollIdle, PollOffer, SendDefault, AwaitAccept, PollReady, ScanHit, ScanMiss,
         Select, SendRequest
<1>6. ~(ReceiveGoodCRC \/ TransmitEnd \/ Clock \/ TransmitDone \/ SourceAck \/
        Reoffer \/ HardReset)
  <2>1. ~ReceiveGoodCRC
    BY AnswerType DEF ReceiveGoodCRC
  <2>2. ~TransmitEnd /\ ~TransmitDone
    BY DEF TransmitEnd, TransmitDone
  <2>3. ~Clock /\ ~Reoffer /\ ~HardReset
    BY DEF Clock, Reoffer, HardReset
  <2>4. ~SourceAck
    BY <1>0 DEF SourceAck
  <2> QED
    BY <2>1, <2>2, <2>3, <2>4
<1>2. CASE ReceiveMessage
  <2>1. ReadyDue'
    BY <1>2 DEF ReceiveMessage, NextState, SendMessage, ReadyDue
  <2> QED
    BY <1>0, <1>2, <2>1 DEF ReceiveMessage, Counted
<1>3. CASE PollWait
  BY <1>0, <1>3 DEF PollWait, PollAgain, Counted, Over
<1>4. CASE SourceMessage
  BY <1>0, <1>4 DEF SourceMessage, Deliver, Lost, Outgoing, Counted
<1>5. CASE UNCHANGED vars
  BY <1>0, <1>5 DEF vars, Counted
<1> QED
  BY <1>1, <1>2, <1>3, <1>4, <1>5, <1>6 DEF Next, Main, Interrupt, Source

(* The PS_RDY arrives.                                                      *)
LEMMA ReadyStep ==
    ASSUME quiet, Counted, pc = "poll", ReadyDue, [Next]_vars
    PROVE  Counted' \/ Over'
<1> USE DEF ReadyDue, Msg, NoMsg, mainVars, sinkVars, phyVars, sourceVars, faultVars
<1>0. messageID = NextID(0) /\ lastID = 0 /\ ack = NoMsg
  BY DEF Counted
<1>1. ~(PollIdle \/ PollOffer \/ SendDefault \/ AwaitAccept \/ PollReady \/
        ScanHit \/ ScanMiss \/ Select \/ SendRequest)
  BY DEF PollIdle, PollOffer, SendDefault, AwaitAccept, PollReady, ScanHit, ScanMiss,
         Select, SendRequest
<1>8. ~(ReceiveGoodCRC \/ Clock \/ SourceAck \/ Reoffer \/ HardReset)
  <2>1. ~ReceiveGoodCRC
    BY AnswerType DEF ReceiveGoodCRC
  <2>2. ~Clock /\ ~Reoffer /\ ~HardReset
    BY DEF Clock, Reoffer, HardReset
  <2>3. ~SourceAck
    BY <1>0 DEF SourceAck
  <2> QED
    BY <2>1, <2>2, <2>3
<1>2. CASE ReceiveMessage
  <2>1. Contract'
    BY <1>2 DEF ReceiveMessage, NextState, SendMessage, Contract
  <2> QED
    BY <1>0, <1>2, <2>1 DEF ReceiveMessage, Counted
<1>3. CASE TransmitEnd
  BY <1>0, <1>3 DEF TransmitEnd, Counted
<1>4. CASE PollWait
  BY <1>0, <1>4 DEF PollWait, PollAgain, Counted, Over
<1>5. CASE TransmitDone
  <2>1. /\ phase = "accept" /\ sending = Msg("goodcrc", sourceID, 0) /\ ~received
        /\ phy' = "sent" /\ sending' = NoMsg
        /\ UNCHANGED <<mainVars, sinkVars, received, buffer>>
    BY <1>5 DEF TransmitDone
  <2>2. HearGoodCRC(sending)
    BY <1>5, <2>1 DEF TransmitDone, Lost, HearRequest, DropRequest, HearNothing,
       Outgoing
  <2>3. phase' = "supply" /\ UNCHANGED <<lastID, ack>>
    BY <2>1, <2>2 DEF HearGoodCRC
  <2> QED
    BY <1>0, <2>1, <2>3 DEF Counted
<1>6. CASE SourceMessage
  BY <1>0, <1>6 DEF SourceMessage, Deliver, Lost, Outgoing, Counted
<1>7. CASE UNCHANGED vars
  BY <1>0, <1>7 DEF vars, Counted
<1> QED
  BY <1>1, <1>2, <1>3, <1>4, <1>5, <1>6, <1>7, <1>8
     DEF Next, Main, Interrupt, Source

(* With the contract made, only the GoodCRC for the PS_RDY moves on the     *)
(* wire, until main sends something.                                        *)
LEMMA ContractWire ==
    ASSUME quiet, Contract, ack = NoMsg,
           Interrupt \/ Clock \/ TransmitDone \/ Source \/ UNCHANGED vars
    PROVE  Contract' /\ UNCHANGED <<mainVars, caps, messageID, buffer, offer, lastID, ack>>
<1> USE DEF Contract, Msg, NoMsg, mainVars, sinkVars, phyVars, sourceVars, faultVars
<1>1. ~(ReceiveGoodCRC \/ ReceiveMessage \/ Clock \/ SourceAck \/ SourceMessage
        \/ Reoffer \/ HardReset)
  BY DEF ReceiveGoodCRC, ReceiveMessage, Clock, SourceAck, SourceMessage, Deliver,
         Outgoing, Reoffer, HardReset
<1>2. CASE TransmitEnd
  BY <1>2 DEF TransmitEnd
<1>3. CASE TransmitDone
  <2>1. /\ phase = "supply" /\ sending = Msg("goodcrc", sourceID, 0)
        /\ phy' = "sent" /\ sending' = NoMsg
        /\ UNCHANGED <<mainVars, sinkVars, received, buffer>>
    BY <1>3 DEF TransmitDone
  <2>2. HearGoodCRC(sending)
    BY <1>3, <2>1 DEF TransmitDone, Lost, HearRequest, DropRequest, HearNothing,
       Outgoing
  <2>3. phase' = "ready" /\ UNCHANGED <<offer, lastID, ack>>
    BY <2>1, <2>2 DEF HearGoodCRC
  <2> QED
    BY <2>1, <2>3
<1>4. CASE UNCHANGED vars
  BY <1>4 DEF vars
<1> QED
  BY <1>1, <1>2, <1>3, <1>4 DEF Interrupt, Source

(* The negotiation is reported, unless there is no offer to choose from.    *)
LEMMA ReportStep ==
    ASSUME quiet, Known, Counted, pc = "poll", Contract, [Next]_vars
    PROVE  Counted' \/ Over'
<1> USE DEF mainVars, sinkVars, phyVars, sourceVars, faultVars
<1>0. messageID = NextID(0) /\ lastID = 0 /\ ack = NoMsg
  BY DEF Counted
<1>1. CASE Main
  <2>1. PollReady
    BY <1>1 DEF Main, Contract, PollIdle, PollOffer, SendDefault, AwaitAccept, PollWait,
       ScanHit, ScanMiss, Select, SendRequest
  <2>2. /\ UNCHANGED <<state, received, phase, phy, sending, sourceID, caps, offer,
                       messageID, lastID, ack>>
        /\ capCount' = Len(caps)
        /\ pc' = IF caps = <<>> THEN "fail" ELSE "scan"
    BY <2>1 DEF PollReady
  <2>3. Contract'
    BY <2>2 DEF Contract
  <2> QED
    BY <1>0, <2>2, <2>3 DEF Known, Counted, Choosing, Over
<1>2. CASE ~Main
  BY <1>0, <1>2, ContractWire DEF Next, Counted
<1> QED
  BY <1>1, <1>2

(* main chooses and asks: the source is waiting for nothing else, and has   *)
(* not seen the ID of the Request.                                          *)
LEMMA ChoosingStep ==
    ASSUME IdMod > 1, quiet, Known, Counted, Choosing, [Next]_vars
    PROVE  Counted' \/ Over'
<1> USE DEF mainVars, sinkVars, phyVars, sourceVars, faultVars
<1>0. messageID = NextID(0) /\ lastID = 0 /\ ack = NoMsg /\ Contract
  BY DEF Counted, Choosing
<1>1. CASE ~Main
  <2>1. /\ Contract' /\ UNCHANGED <<mainVars, caps, messageID, buffer, offer, lastID, ack>>
    BY <1>0, <1>1, ContractWire DEF Next
  <2> QED
    BY <1>0, <2>1 DEF Choosing, Counted
<1>2. ~(PollIdle \/ PollOffer \/ SendDefault \/ AwaitAccept \/ PollWait \/ PollReady)
  BY DEF Choosing, PollIdle, PollOffer, SendDefault, AwaitAccept, PollWait, PollReady
<1>3. CASE ScanHit
  <2>1. /\ pc = "scan" /\ pc' = "select"
        /\ UNCHANGED <<capCount, sinkVars, phyVars, sourceVars>>
    BY <1>3 DEF ScanHit
  <2>2. choice' \in 1..Len(offer) /\ voltage' = offer[choice']
    BY <1>3 DEF ScanHit, Candidates, Leftover, Choosing
  <2>3. Contract'
    BY <1>0, <2>1 DEF Contract
  <2> QED
    BY <1>0, <2>1, <2>2, <2>3 DEF Choosing, Counted
<1>4. CASE ScanMiss
  BY <1>4 DEF ScanMiss, Known, Over
<1>5. CASE Select
  <2>1. /\ pc = "select" /\ UNCHANGED <<capCount, choice, voltage, sinkVars, phy, sending,
                                      received, sourceVars>>
    BY <1>5 DEF Select
  <2>2. choice \in 1..Len(offer) /\ voltage = offer[choice] /\ caps = offer
    BY <2>1 DEF Choosing
  <2>3. pc' = "request" /\ buffer' = Msg("request", messageID, choice)
    BY <1>5, <2>2 DEF Select
  <2>4. Contract'
    BY <1>0, <2>1 DEF Contract
  <2> QED
    BY <1>0, <2>1, <2>2, <2>3, <2>4 DEF Choosing, Counted
<1>6. CASE SendRequest
  <2>1. /\ pc = "request" /\ pc' = "run" /\ phy = "listening" /\ profile' = voltage
        /\ SendMessage(BufferedRequest)
        /\ UNCHANGED <<received, sourceVars>>
    BY <1>6 DEF SendRequest
  <2>2. /\ buffer = Msg("request", NextID(0), choice)
        /\ choice \in 1..Len(offer) /\ voltage = offer[choice]
    BY <1>0, <2>1 DEF Choosing
  <2>3. phy' = "sending" /\ sending' = Msg("request", NextID(0), choice)
    BY <2>1, <2>2 DEF SendMessage, BufferedRequest, Msg
  <2>4. phase = "ready" /\ ~received
    BY <1>0, <2>1 DEF Contract
  <2>5. Requested'
    BY <1>0, <2>1, <2>2, <2>3, <2>4 DEF Requested, Msg
  <2> QED
    BY <2>1, <2>5 DEF Over
<1> QED
  BY <1>1, <1>2, <1>3, <1>4, <1>5, <1>6 DEF Main

(* From then on the counter stays, and nothing overtakes the Request.       *)
LEMMA CountedStep ==
    ASSUME IdMod > 1, quiet, Known, Counted, [Next]_vars
    PROVE  Counted' \/ Over'
<1>1. \/ pc = "poll" /\ (AcceptDue \/ ReadyDue \/ Contract)
      \/ Choosing
  BY DEF Counted
<1> QED
  BY <1>1, AcceptStep, ReadyStep, ReportStep, ChoosingStep

(* The Request reaches a source that waits for one, and is new to it.       *)
LEMMA RequestedStep ==
    ASSUME IdMod > 1, quiet, pc = "run", Requested, [Next]_vars
    PROVE  Requested' \/ Served'
<1> USE DEF Requested, Msg, NoMsg, mainVars, sinkVars, phyVars, sourceVars, faultVars
<1>1. NextID(0) = 1
  BY IdAssumption DEF NextID
<1>2. ~(Main \/ Interrupt \/ Clock \/ Source)
  BY DEF Main, PollIdle, PollOffer, SendDefault, AwaitAccept, PollWait, PollReady,
     ScanHit, ScanMiss, Select, SendRequest, Interrupt, ReceiveGoodCRC, ReceiveMessage,
     TransmitEnd, Clock, Source, SourceAck, SourceMessage, Outgoing, Reoffer, HardReset
<1>3. CASE TransmitDone
  <2>1. sending' = NoMsg /\ UNCHANGED <<pc, profile>>
    BY <1>3 DEF TransmitDone
  <2>2. sending.id # lastID /\ phase = "ready" /\ sending.type = "request"
    BY <1>1
  <2>3. HearRequest(sending)
    BY <1>3, <2>2 DEF TransmitDone, Lost, HearGoodCRC, DropRequest, HearNothing
  <2>4. ~(sending.arg > Len(offer))
    OBVIOUS
  <2>5. phase' = "accept" /\ wanted' = sending.arg /\ offer' = offer
    BY <2>3, <2>4 DEF HearRequest
  <2> QED
    BY <2>1, <2>5 DEF Served
<1>4. CASE UNCHANGED vars
  BY <1>4 DEF vars
<1> QED
  BY <1>2, <1>3, <1>4 DEF Next

(* What is accepted is supplied, and stays so: there is no other Request.   *)
LEMMA ServedStep ==
    ASSUME quiet, pc = "run", Served, [Next]_vars
    PROVE  Served'
<1> USE DEF Served, mainVars, sinkVars, phyVars, sourceVars, faultVars
<1>1. ~(Main \/ Clock \/ Reoffer \/ HardReset)
  BY DEF Main, PollIdle, PollOffer, SendDefault, AwaitAccept, PollWait, PollReady,
     ScanHit, ScanMiss, Select, SendRequest, Clock, Reoffer, HardReset
<1>2. CASE ReceiveGoodCRC \/ TransmitEnd
  BY <1>2 DEF ReceiveGoodCRC, TransmitEnd
<1>3. CASE ReceiveMessage
  <2>1. sending'.type # "request" /\ UNCHANGED <<mainVars, sourceVars>>
    BY <1>3 DEF ReceiveMessage, SendMessage, Msg, Garbage
  <2> QED
    BY <2>1
<1>4. CASE TransmitDone
  <2>1. sending'.type # "request" /\ UNCHANGED mainVars
    BY <1>4 DEF TransmitDone, NoMsg, Msg
  <2>2. HearGoodCRC(sending) \/ HearNothing(sending)
    BY <1>4 DEF TransmitDone, Lost, HearRequest, DropRequest
  <2>3. CASE HearGoodCRC(sending)
    <3>1. phase # "ready"
      BY <2>3 DEF HearGoodCRC, Outgoing
    <3> QED
      BY <2>1, <2>3, <3>1 DEF HearGoodCRC
  <2>4. CASE HearNothing(sending)
    BY <2>1, <2>4 DEF HearNothing
  <2> QED
    BY <2>2, <2>3, <2>4
<1>5. CASE SourceAck \/ SourceMessage
  BY <1>5 DEF SourceAck, SourceMessage, Deliver
<1>6. CASE UNCHANGED vars
  BY <1>6 DEF vars
<1> QED
  BY <1>1, <1>2, <1>3, <1>4, <1>5, <1>6 DEF Next, Interrupt, Source

(* When the negotiation is over, main leaves it alone.                      *)
LEMMA OverStep ==
    ASSUME IdMod > 1, quiet, Over, [Next]_vars
    PROVE  Over'
<1>1. pc' = pc /\ profile' = profile
  <2> USE DEF Over, mainVars, sinkVars, phyVars, sourceVars, faultVars
  <2>1. CASE Interrupt
    BY <2>1 DEF Interrupt, ReceiveGoodCRC, ReceiveMessage, TransmitEnd
  <2>2. CASE Main
    BY <2>2 DEF Main, PollIdle, PollOffer, SendDefault, AwaitAccept, PollWait,
       PollReady, ScanHit, ScanMiss, Select, SendRequest
  <2>3. CASE Clock \/ SourceAck \/ SourceMessage \/ Reoffer \/ HardReset
    BY <2>3 DEF Clock, SourceAck, SourceMessage, Deliver, Reoffer, HardReset
  <2>4. CASE TransmitDone
    BY <2>4 DEF TransmitDone
  <2>5. CASE UNCHANGED vars
    BY <2>5 DEF vars
  <2> QED
    BY <2>1, <2>2, <2>3, <2>4, <2>5 DEF Next, Source
<1> QED
  BY <1>1, RequestedStep, ServedStep DEF Over

(* Nobody but the source makes offers, and it makes one.                    *)
LEMMA KnownStep ==
    ASSUME quiet, WireOK, Known, [Next]_vars
    PROVE  Known'
<1> USE DEF Known, Msg, NoMsg, mainVars, sinkVars, phyVars, sourceVars, faultVars
<1>1. ~(Clock \/ Reoffer \/ HardReset)
  BY DEF Clock, Reoffer, HardReset
<1>2. CASE Interrupt
  <2>1. CASE ReceiveGoodCRC \/ TransmitEnd
    BY <2>1 DEF ReceiveGoodCRC, TransmitEnd
  <2>2. CASE ReceiveMessage
    BY <2>2 DEF ReceiveMessage, SendMessage
  <2> QED
    BY <1>2, <2>1, <2>2 DEF Interrupt
<1>3. CASE Main
  <2>1. UNCHANGED <<caps, offer>>
    BY <1>3 DEF Main, PollIdle, PollOffer, SendDefault, AwaitAccept, PollWait,
       PollReady, ScanHit, ScanMiss, Select, SendRequest
  <2>2. UNCHANGED buffer \/ buffer'.type = "request"
    <3>1. CASE PollOffer \/ Select
      <4>1. buffer' = buffer \/ \E c : buffer' = Msg("request", messageID, c)
        BY <3>1 DEF PollOffer, Select
      <4> QED
        BY <4>1, MsgFields
    <3>2. CASE ~PollOffer /\ ~Select
      BY <1>3, <3>2 DEF Main, PollIdle, SendDefault, AwaitAccept, PollWait,
         PollReady, ScanHit, ScanMiss, SendRequest
    <3> QED
      BY <3>1, <3>2
  <2>3. pc # "run" /\ (pc' # "run" => profile' = profile)
    BY <1>3 DEF Main, PollIdle, PollOffer, SendDefault, AwaitAccept, PollWait,
       PollReady, ScanHit, ScanMiss, Select, SendRequest
  <2> QED
    BY <2>1, <2>2, <2>3
<1>5. CASE TransmitDone
  BY <1>5 DEF TransmitDone, HearGoodCRC, HearRequest, DropRequest, HearNothing
<1>6. CASE SourceAck
  BY <1>6 DEF SourceAck, Deliver, WireOK
<1>7. CASE SourceMessage
  BY <1>7, OutgoingFields DEF SourceMessage, Deliver
<1>8. CASE UNCHANGED vars
  BY <1>8 DEF vars
<1> QED
  BY <1>1, <1>2, <1>3, <1>5, <1>6, <1>7, <1>8 DEF Next, Source

(* No step makes a disturbed negotiation an undisturbed one.                *)
LEMMA QuietStays == [Next]_vars => quiet' = quiet
<1> USE DEF mainVars, sinkVars, phyVars, sourceVars, faultVars
<1>1. Interrupt => quiet' = quiet
  BY DEF Interrupt, ReceiveGoodCRC, ReceiveMessage, TransmitEnd
<1>2. Main => quiet' = quiet
  BY DEF Main, PollIdle, PollOffer, SendDefault, AwaitAccept, PollWait,
     PollReady, ScanHit, ScanMiss, Select, SendRequest
<1>3. Clock \/ Source => quiet' = quiet
  BY DEF Clock, Source, SourceAck, SourceMessage, Reoffer, HardReset
<1>4. TransmitDone => quiet' = quiet
  BY DEF TransmitDone, Lost, HearGoodCRC, HearRequest, DropRequest, HearNothing
<1>5. UNCHANGED vars => quiet' = quiet
  BY DEF vars
<1> QED
  BY <1>1, <1>2, <1>3, <1>4, <1>5 DEF Next

LEMMA QuietInvHolds ==
    ASSUME IdMod > 1 PROVE Spec => [](WireOK /\ QuietInv)
<1>1. Init => WireOK /\ QuietInv
  BY DEF Init, WireOK, QuietInv, Known, Unsent, NoMsg, Msg
<1>2. WireOK /\ QuietInv /\ [Next]_vars => WireOK' /\ QuietInv'
  <2> SUFFICES ASSUME WireOK, QuietInv, [Next]_vars PROVE WireOK' /\ QuietInv'
    OBVIOUS
  <2>1. WireOK'
    BY WireStep
  <2>2. CASE quiet
    BY <2>1, <2>2, UnsentStep, OnItsWayStep, HeardStep, CountedStep, OverStep,
       KnownStep, QuietStays DEF QuietInv
  <2>3. CASE ~quiet
    BY <2>1, <2>3, QuietStays DEF QuietInv
  <2> QED
    BY <2>1, <2>2, <2>3
<1> QED
  BY <1>1, <1>2, PTL DEF Spec

(* Undisturbed, the profile main takes as set (pd.c:114, usbpd.h:905) is    *)
(* what the source supplies, or is about to: the Request cannot be dropped, *)
(* cut off or refused.  IDs are counted modulo more than 1.                 *)
THEOREM RequestAlwaysServed ==
    ASSUME IdMod > 1 PROVE Spec => []RequestIsServed
<1>1. WireOK /\ QuietInv => RequestIsServed
  <2> SUFFICES ASSUME WireOK, QuietInv, quiet, profile # 0
               PROVE  RequestIsServed
    BY DEF RequestIsServed
  <2>1. pc = "run" /\ (Requested \/ Served)
    BY DEF QuietInv, Known, Unsent, OnItsWay, Heard, Counted, Choosing, Over
  <2>2. NextID(0) = 1
    BY IdAssumption DEF NextID
  <2>3. CASE Requested
    BY <2>2, <2>3 DEF Requested, RequestIsServed
  <2>4. CASE Served
    BY <2>4 DEF Served, RequestIsServed, Vbus
  <2> QED
    BY <2>1, <2>3, <2>4
<1> QED
  BY <1>1, QuietInvHolds, PTL

(* Once there is an offer, there is one for good: main leaves the poll, and *)
(* the engine the first two states, only with an offer.                     *)
Fine ==
    /\ ~late /\ pc # "fail"
    /\ pc # "poll" \/ state \notin {"IDLE", "CABLE_DETECT"} => caps # <<>>

LEMMA FineKept ==
    ASSUME Fine, late' = late, pc' = pc, state' = state, caps' = caps
    PROVE  Fine'
<1>1. ~late'
  BY Zenon DEF Fine
<1> QED
  BY <1>1 DEF Fine

LEMMA FineStep ==
    ASSUME quiet, WireOK, QuietInv, Fine, [Next]_vars
    PROVE  Fine'
<1> USE DEF mainVars, sinkVars, phyVars, sourceVars, faultVars
<1>1. ~(Clock \/ Reoffer \/ HardReset)
  BY DEF Clock, Reoffer, HardReset
<1>2. CASE Main
  <2>1. late' = late /\ caps' = caps
    BY <1>2 DEF Main, PollIdle, PollOffer, SendDefault, AwaitAccept, PollWait, PollReady,
       ScanHit, ScanMiss, Select, SendRequest
  <2>2. ~late'
    BY <2>1, Zenon DEF Fine
  <2>3. CASE PollIdle
    BY <2>1, <2>2, <2>3 DEF PollIdle, PollAgain, Fine
  <2>4. CASE PollOffer
    BY <2>1, <2>2, <2>4 DEF PollOffer, Fine
  <2>5. CASE SendDefault
    BY <2>1, <2>2, <2>5 DEF SendDefault, Fine
  <2>6. CASE AwaitAccept
    BY <2>1, <2>2, <2>6 DEF AwaitAccept, PollAgain, Fine
  <2>7. CASE PollWait
    BY <2>1, <2>2, <2>7 DEF PollWait, PollAgain, Fine
  <2>8. CASE PollReady
    BY <2>1, <2>2, <2>8 DEF PollReady, Fine
  <2>9. CASE ScanHit \/ ScanMiss
    BY <2>1, <2>2, <2>9 DEF ScanHit, ScanMiss, Fine
  <2>10. CASE Select
    BY <2>1, <2>2, <2>10 DEF Select, Fine
  <2>11. CASE SendRequest
    BY <2>1, <2>2, <2>11 DEF SendRequest, Fine
  <2> QED
    BY <1>2, <2>3, <2>4, <2>5, <2>6, <2>7, <2>8, <2>9, <2>10, <2>11 DEF Main
<1>3. CASE ReceiveMessage
  <2>1. UNCHANGED mainVars /\ caps' = (IF buffer.type = "source_cap" THEN buffer.arg ELSE caps)
    BY <1>3 DEF ReceiveMessage
  <2>2. ~late'
    BY <2>1, Zenon DEF Fine
  <2>3. CASE buffer.type = "source_cap"
    BY <2>1, <2>2, <2>3, OfferNotEmpty DEF WireOK, Fine
  <2>4. CASE buffer.type # "source_cap"
    <3>1. pc = "poll" => state \notin {"IDLE", "CABLE_DETECT"}
      BY <1>3, <2>4 DEF ReceiveMessage, QuietInv, Unsent, OnItsWay, Heard, Counted,
         AcceptDue, ReadyDue, Contract, Choosing, Over
    <3> QED
      BY <2>1, <2>2, <2>4, <3>1 DEF Fine
  <2> QED
    BY <2>3, <2>4
<1>4. CASE ReceiveGoodCRC
  BY <1>4, FineKept DEF ReceiveGoodCRC
<1>5. CASE TransmitEnd
  BY <1>5, FineKept DEF TransmitEnd
<1>6. CASE TransmitDone
  BY <1>6, FineKept DEF TransmitDone
<1>7. CASE SourceAck
  <2>1. Deliver(ack)
    BY <1>7 DEF SourceAck
  <2> QED
    BY <2>1, FineKept DEF Deliver
<1>8. CASE SourceMessage
  <2>1. Deliver(Outgoing)
    BY <1>8 DEF SourceMessage
  <2> QED
    BY <2>1, FineKept DEF Deliver
<1>9. CASE UNCHANGED vars
  BY <1>9, FineKept DEF vars
<1> QED
  BY <1>1, <1>2, <1>3, <1>4, <1>5, <1>6, <1>7, <1>8, <1>9 DEF Next, Interrupt, Source

(* An undisturbed negotiation never fails (pd.c:40, pd.c:46): it only ends  *)
(* with pd_negotiate's success.  That it does end is left to TLC.           *)
THEOREM QuietNeverFails ==
    ASSUME IdMod > 1 PROVE Spec => [](quiet => pc # "fail")
<1>1. Init => (quiet => Fine)
  BY DEF Init, Fine
<1>2. WireOK /\ QuietInv /\ (quiet => Fine) /\ [Next]_vars => (quiet => Fine)'
  BY FineStep, QuietStays
<1>3. Fine => pc # "fail"
  BY DEF Fine
<1> QED
  BY <1>1, <1>2, <1>3, QuietInvHolds, PTL DEF Spec
=============================================================================
