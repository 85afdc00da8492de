------------------------------- MODULE PdSink -------------------------------
(* The USB Power Delivery negotiation: the protocol engine of fw/usbpd.h    *)
(* (lines 584-979), polled by pd_negotiate and used by pd_get_profile       *)
(* (fw/pd.c), its interrupt handler, the PD transceiver, and a source at    *)
(* the other end of the cable.                                              *)
(* The interrupt handler preempts main: main takes no step while an         *)
(* interrupt is pending, but the transceiver and the source do, since the   *)
(* encoder's handler may hold the processor for a while.  An offer is the   *)
(* sequence of the voltages of its PDOs; which of them pd_get_profile may   *)
(* take is its Fits (module PdProfile treats the choice in detail).         *)
EXTENDS Naturals, Sequences

CONSTANTS
    Offers,      \* the offers the source may make, sequences of voltages
    Fits,        \* the voltages pd_get_profile accepts (power and BOARD_MAX_VOLTAGE)
    IdMod,       \* message IDs are counted modulo IdMod (3 bits)
    CCDebounce,  \* equal readings of the CC lines wanted (10 in the code)
    Quietness,   \* the values quiet may have
    ClockRuns,   \* five seconds may pass during the negotiation
    MaxLosses, MaxResets, MaxRejects, MaxReoffers \* bounds on what may go wrong

ASSUME OffersAssumption ==
    Offers \subseteq Seq(Nat \ {0}) /\ \A o \in Offers : Len(o) >= 1
ASSUME IdAssumption == IdMod \in Nat \ {0} /\ CCDebounce \in Nat
ASSUME BoundsAssumption ==
    /\ Quietness \subseteq BOOLEAN /\ ClockRuns \in BOOLEAN
    /\ MaxLosses \in Nat /\ MaxResets \in Nat
    /\ MaxRejects \in Nat /\ MaxReoffers \in Nat

VARIABLES
    \* main: pd_negotiate, pd_get_profile, then the main loop
    pc, late, capCount, choice, voltage, profile,
    \* s_instance and s_buffer
    state, ccCount, lastCC, caps, messageID, buffer,
    \* the transceiver: its mode, what it is sending, IF_RX_ACT
    phy, sending, received,
    \* the source
    phase, offer, sourceID, lastID, ack, wanted, granted,
    \* how often something has gone wrong
    losses, resets, rejects, reoffers,
    \* nothing goes wrong: the CC line reads steadily, no message is lost, no
    \* encoder interrupts hold main or the engine up, and main sends nothing
    \* while a GoodCRC is going out
    quiet

mainVars   == <<pc, late, capCount, choice, voltage, profile>>
sinkVars   == <<state, ccCount, lastCC, caps, messageID>>
phyVars    == <<phy, sending, received, buffer>>
sourceVars == <<phase, offer, sourceID, lastID, ack, wanted, granted>>
faultVars  == <<losses, resets, rejects, reoffers, quiet>>
vars == <<mainVars, sinkVars, phyVars, sourceVars, faultVars>>

Volts == UNION {{o[i] : i \in 1..Len(o)} : o \in Offers}
Msg(type, id, arg) == [type |-> type, id |-> id, arg |-> arg]
NoMsg   == Msg("none", 0, 0)
Garbage == Msg("garbage", 0, 0)

(* Mutant of NextID: the counter is not cut to the width of the header.     *)
NextIDUncut(i) == i + 1

NextID(i) == (i + 1) % IdMod

Init ==
    /\ pc = "poll" /\ late = FALSE
    /\ capCount = 0 /\ choice = 0 /\ voltage = 0 /\ profile = 0
    /\ state = "IDLE" /\ ccCount = 0 /\ lastCC = "none"
    /\ caps = <<>> /\ messageID = 0
    /\ phy = "off" /\ sending = NoMsg /\ received = FALSE /\ buffer = NoMsg
    /\ phase = "advertise" /\ offer \in Offers
    /\ sourceID = 0 /\ lastID = IdMod /\ ack = NoMsg
    /\ wanted = 0 /\ granted = 0
    /\ losses = 0 /\ resets = 0 /\ rejects = 0 /\ reoffers = 0
    /\ quiet \in Quietness

-----------------------------------------------------------------------------
(* The interrupt handler, USBPD_IRQHandler                                  *)

InterruptPending == received \/ phy = "sent"

(* SendMessage: start the transmitter on the buffer's contents.  It does    *)
(* not ask whether the transmitter is busy: a message being sent is cut     *)
(* off, and the new one may come out damaged.                               *)
SendMessage(m) ==
    /\ phy' = "sending"
    /\ sending' \in IF phy = "sending" THEN {m, Garbage} ELSE {m}

(* Mutant of ReceiveGoodCRC: the message ID is not counted.                 *)
ReceiveGoodCRCUncounted ==
    /\ received /\ buffer.type = "goodcrc"
    /\ received' = FALSE
    /\ UNCHANGED <<mainVars, sinkVars, phy, sending, buffer, sourceVars, faultVars>>

(* ParsePacket on a GoodCRC: count the message ID, no reply.                *)
ReceiveGoodCRC ==
    /\ received /\ buffer.type = "goodcrc"
    /\ received' = FALSE
    /\ messageID' = NextID(messageID)
    /\ UNCHANGED <<mainVars, state, ccCount, lastCC, caps, phy, sending, buffer,
                   sourceVars, faultVars>>

(* Mutant of NextState: the Accept is taken for the end of the negotiation. *)
NextStateHasty(m) ==
    CASE m.type \in {"accept", "ps_rdy"}     -> "PS_RDY"
      [] m.type \in {"reject", "source_cap"} -> "SOURCE_CAP"
      [] OTHER                               -> state

(* The state a message leads to, whatever the present one is.               *)
NextState(m) ==
    CASE m.type = "accept"     -> "WAIT_PS_RDY"
      [] m.type = "reject"     -> "SOURCE_CAP"
      [] m.type = "ps_rdy"     -> "PS_RDY"
      [] m.type = "source_cap" -> "SOURCE_CAP"
      [] OTHER                 -> state

(* ParsePacket on anything else: new state, new capabilities if it carries  *)
(* some, and a GoodCRC written over the message in the buffer.              *)
ReceiveMessage ==
    /\ received /\ buffer.type # "goodcrc"
    /\ received' = FALSE
    /\ state' = NextState(buffer)
    /\ caps' = IF buffer.type = "source_cap" THEN buffer.arg ELSE caps
    /\ buffer' = Msg("goodcrc", buffer.id, 0)
    /\ SendMessage(buffer')
    /\ UNCHANGED <<mainVars, ccCount, lastCC, messageID, sourceVars, faultVars>>

(* IF_TX_END: SwitchRXMode.                                                 *)
TransmitEnd ==
    /\ phy = "sent"
    /\ phy' = "listening"
    /\ UNCHANGED <<mainVars, sinkVars, sending, received, buffer, sourceVars,
                   faultVars>>

Interrupt == ReceiveGoodCRC \/ ReceiveMessage \/ TransmitEnd

-----------------------------------------------------------------------------
(* main: pd_negotiate, polling USBPD_SinkNegotiate                          *)

MainRuns == ~InterruptPending

(* Mutant of PollAgain: no time limit.                                      *)
PollForEver == pc' = "poll"

(* After a poll that answered BUSY: give up once five seconds have passed.  *)
PollAgain == pc' = IF late THEN "fail" ELSE "poll"

(* Mutant of PollIdle: the last reading of the CC lines is not kept.        *)
PollIdleForgetful ==
    /\ MainRuns /\ pc = "poll" /\ state = "IDLE"
    /\ ccCount' = 0
    /\ PollAgain
    /\ UNCHANGED <<late, capCount, choice, voltage, profile, state, lastCC, caps,
                   messageID, phyVars, sourceVars, faultVars>>

(* eSTATE_IDLE: debounce the CC lines; more than CCDebounce equal readings  *)
(* in a row switch the receiver and the interrupt on.                       *)
PollIdle ==
    /\ MainRuns /\ pc = "poll" /\ state = "IDLE"
    /\ \E cc \in IF quiet THEN {"cc1"} ELSE {"none", "cc1", "cc2"} :
         LET count == IF cc = "none" \/ lastCC # cc THEN 0 ELSE ccCount + 1
             detected == count > CCDebounce
         IN  /\ lastCC' = cc
             /\ ccCount' = IF detected THEN 0 ELSE count
             /\ state' = IF detected THEN "CABLE_DETECT" ELSE state
             /\ phy' = IF detected THEN "listening" ELSE phy
    /\ PollAgain
    /\ UNCHANGED <<late, capCount, choice, voltage, profile, caps, messageID, sending,
                   received, buffer, sourceVars, faultVars>>

(* eSTATE_SOURCE_CAP: USBPD_SelectPDO(0, 0) writes a Request for the first  *)
(* PDO into the buffer ...                                                  *)
PollOffer ==
    /\ MainRuns /\ pc = "poll" /\ state = "SOURCE_CAP"
    /\ IF caps = <<>> THEN pc' = "await" /\ UNCHANGED buffer
                      ELSE pc' = "send" /\ buffer' = Msg("request", messageID, 1)
    /\ UNCHANGED <<late, capCount, choice, voltage, profile, sinkVars, phy, sending,
                   received, sourceVars, faultVars>>

(* What main sends is whatever the buffer holds by now.                     *)
BufferedRequest == IF buffer.type = "request" THEN buffer ELSE Garbage

(* ... SendMessage(6) ...                                                   *)
SendDefault ==
    /\ MainRuns /\ pc = "send"
    /\ quiet => phy = "listening"
    /\ SendMessage(BufferedRequest)
    /\ pc' = "await"
    /\ UNCHANGED <<late, capCount, choice, voltage, profile, sinkVars, received, buffer,
                   sourceVars, faultVars>>

(* ... and only then does the state say so.                                 *)
AwaitAccept ==
    /\ MainRuns /\ pc = "await"
    /\ state' = "WAIT_ACCEPT"
    /\ PollAgain
    /\ UNCHANGED <<late, capCount, choice, voltage, profile, ccCount, lastCC, caps,
                   messageID, phyVars, sourceVars, faultVars>>

(* The other states leave everything to the interrupt handler.              *)
PollWait ==
    /\ MainRuns /\ pc = "poll"
    /\ state \in {"CABLE_DETECT", "WAIT_ACCEPT", "WAIT_PS_RDY"}
    /\ PollAgain
    /\ UNCHANGED <<late, capCount, choice, voltage, profile, sinkVars, phyVars,
                   sourceVars, faultVars>>

(* eSTATE_PS_RDY ends the negotiation; pd_negotiate notes the number of     *)
(* capabilities and fails if there are none.                                *)
PollReady ==
    /\ MainRuns /\ pc = "poll" /\ state = "PS_RDY"
    /\ capCount' = Len(caps)
    /\ pc' = IF caps = <<>> THEN "fail" ELSE "scan"
    /\ UNCHANGED <<late, choice, voltage, profile, sinkVars, phyVars, sourceVars,
                   faultVars>>

-----------------------------------------------------------------------------
(* main: pd_get_profile, whose result main ignores                          *)

(* The loop over the PDOs, in the capabilities buffer of the engine: the    *)
(* first that fits.  If the interrupt has shortened the offer since         *)
(* capCount was noted, leftovers behind it may fit too.                     *)
Candidates == {i \in 1..capCount : i > Len(caps) \/ caps[i] \in Fits}
Leftover(i) == i > Len(caps)

ScanHit ==
    /\ MainRuns /\ pc = "scan" /\ pc' = "select"
    /\ \E i \in Candidates :
         /\ \A j \in Candidates : j < i => Leftover(j)
         /\ choice' = i
         /\ voltage' \in IF Leftover(i) THEN Volts \cap Fits ELSE {caps[i]}
    /\ UNCHANGED <<late, capCount, profile, sinkVars, phyVars, sourceVars,
                   faultVars>>

(* No PDO fits: false is returned, main goes on with an empty profile.      *)
ScanMiss ==
    /\ MainRuns /\ pc = "scan" /\ pc' = "run"
    /\ \A i \in Candidates : Leftover(i)
    /\ UNCHANGED <<late, capCount, choice, voltage, profile, sinkVars, phyVars,
                   sourceVars, faultVars>>

(* Mutant of Select: the index is not turned into an object position.       *)
SelectFromZero ==
    /\ MainRuns /\ pc = "select"
    /\ IF choice > Len(caps)
         THEN pc' = "run" /\ UNCHANGED buffer
         ELSE pc' = "request" /\ buffer' = Msg("request", messageID, choice - 1)
    /\ UNCHANGED <<late, capCount, choice, voltage, profile, sinkVars, phy,
                   sending, received, sourceVars, faultVars>>

(* USBPD_SelectPDO checks the index against the offer of this moment and    *)
(* writes the Request.                                                      *)
Select ==
    /\ MainRuns /\ pc = "select"
    /\ IF choice > Len(caps)
         THEN pc' = "run" /\ UNCHANGED buffer
         ELSE pc' = "request" /\ buffer' = Msg("request", messageID, choice)
    /\ UNCHANGED <<late, capCount, choice, voltage, profile, sinkVars, phy,
                   sending, received, sourceVars, faultVars>>

(* SendMessage(6).  The profile is taken as set and the heater loop starts. *)
SendRequest ==
    /\ MainRuns /\ pc = "request" /\ pc' = "run"
    /\ quiet => phy = "listening"
    /\ SendMessage(BufferedRequest)
    /\ profile' = voltage
    /\ UNCHANGED <<late, capCount, choice, voltage, sinkVars, received, buffer,
                   sourceVars, faultVars>>

Main ==
    \/ PollIdle \/ PollOffer \/ SendDefault \/ AwaitAccept \/ PollWait
    \/ PollReady \/ ScanHit \/ ScanMiss \/ Select \/ SendRequest

(* Five seconds have passed since the negotiation began.                    *)
Clock ==
    /\ ClockRuns /\ ~quiet /\ ~late /\ late' = TRUE
    /\ UNCHANGED <<pc, capCount, choice, voltage, profile, sinkVars, phyVars,
                   sourceVars, faultVars>>

-----------------------------------------------------------------------------
(* The wire.  What the source sends reaches the buffer by DMA if the        *)
(* receiver is on, and is lost if it is not.                                *)
Lost == ~quiet /\ losses < MaxLosses /\ losses' = losses + 1

Deliver(m) ==
    /\ quiet => phy = "listening" /\ ~received
    /\ \/ /\ phy = "listening"
          /\ buffer' = m /\ received' = TRUE
          /\ UNCHANGED losses
       \/ phy # "listening" /\ UNCHANGED <<buffer, received, losses>>
       \/ phy = "listening" /\ Lost /\ UNCHANGED <<buffer, received>>
    /\ UNCHANGED <<mainVars, sinkVars, phy, sending>>

-----------------------------------------------------------------------------
(* The source, as the USB PD protocol has it behave and as the engine       *)
(* relies on: it repeats a message until its GoodCRC comes, answers every   *)
(* Request with a GoodCRC and then with Accept and PS_RDY or with Reject,   *)
(* and drops a Request that repeats the ID of the last one.                 *)

Outgoing ==
    CASE phase = "advertise" -> Msg("source_cap", sourceID, offer)
      [] phase = "accept"    -> Msg("accept", sourceID, 0)
      [] phase = "supply"    -> Msg("ps_rdy", sourceID, 0)
      [] phase = "reject"    -> Msg("reject", sourceID, 0)
      [] OTHER               -> NoMsg

(* VBUS: 5 V until a Request is accepted, then the voltage granted.         *)
Vbus == IF granted = 0 THEN 5 ELSE granted

SourceAck ==
    /\ ack # NoMsg /\ ack' = NoMsg
    /\ Deliver(ack)
    /\ UNCHANGED <<phase, offer, sourceID, lastID, wanted, granted, resets,
                   rejects, reoffers, quiet>>

SourceMessage ==
    /\ ack = NoMsg /\ Outgoing # NoMsg
    /\ Deliver(Outgoing)
    /\ UNCHANGED <<sourceVars, resets, rejects, reoffers, quiet>>

(* A GoodCRC for the message being repeated: on to the next phase.  The     *)
(* supply changes once the Accept is through.                               *)
HearGoodCRC(m) ==
    /\ m.type = "goodcrc" /\ Outgoing # NoMsg /\ m.id = sourceID
    /\ sourceID' = NextID(sourceID)
    /\ phase' = CASE phase = "advertise" -> "wait"
                  [] phase = "accept"    -> "supply"
                  [] phase = "supply"    -> "ready"
                  [] OTHER -> IF granted = 0 THEN "wait" ELSE "ready"
    /\ granted' = IF phase = "accept" THEN offer[wanted] ELSE granted
    /\ UNCHANGED <<offer, lastID, ack, wanted, resets, rejects, reoffers,
                   quiet>>

(* A new Request while the source waits for one or has a contract.          *)
HearRequest(m) ==
    /\ m.type = "request" /\ m.id # lastID /\ phase \in {"wait", "ready"}
    /\ ack' = Msg("goodcrc", m.id, 0) /\ lastID' = m.id
    /\ \/ /\ m.arg <= Len(offer)
          /\ phase' = "accept" /\ wanted' = m.arg
          /\ UNCHANGED rejects
       \/ /\ m.arg > Len(offer)
          /\ phase' = "reject"
          /\ UNCHANGED <<wanted, rejects>>
       \/ /\ ~quiet /\ rejects < MaxRejects /\ rejects' = rejects + 1
          /\ phase' = "reject"
          /\ UNCHANGED wanted
    /\ UNCHANGED <<offer, sourceID, granted, resets, reoffers, quiet>>

(* A repeated Request, or one that comes while a message is unacknowledged, *)
(* is acknowledged and dropped.                                             *)
DropRequest(m) ==
    /\ m.type = "request"
    /\ m.id = lastID \/ phase \notin {"wait", "ready"}
    /\ ack' = Msg("goodcrc", m.id, 0) /\ lastID' = m.id
    /\ UNCHANGED <<phase, offer, sourceID, wanted, granted, resets, rejects,
                   reoffers, quiet>>

HearNothing(m) ==
    /\ \/ m.type = "garbage"
       \/ m.type = "goodcrc" /\ (Outgoing = NoMsg \/ m.id # sourceID)
    /\ UNCHANGED <<sourceVars, resets, rejects, reoffers, quiet>>

(* The transmitter has sent its message: IF_TX_END, and the source hears it *)
(* unless it is lost on the way.                                            *)
TransmitDone ==
    /\ phy = "sending" /\ phy' = "sent" /\ sending' = NoMsg
    /\ quiet => pc # "await"
    /\ \/ /\ \/ HearGoodCRC(sending) \/ HearRequest(sending)
             \/ DropRequest(sending) \/ HearNothing(sending)
          /\ UNCHANGED losses
       \/ Lost /\ UNCHANGED <<sourceVars, resets, rejects, reoffers, quiet>>
    /\ UNCHANGED <<mainVars, sinkVars, received, buffer>>

(* A source under contract may change its offer (another port was plugged). *)
Reoffer ==
    /\ phase = "ready" /\ ack = NoMsg /\ ~quiet /\ reoffers < MaxReoffers
    /\ reoffers' = reoffers + 1
    /\ offer' \in Offers \ {offer} /\ phase' = "advertise"
    /\ UNCHANGED <<mainVars, sinkVars, phyVars, sourceID, lastID, ack, wanted,
                   granted, losses, resets, rejects, quiet>>

(* A hard reset: a source that has waited too long for an answer takes VBUS *)
(* away.  The iron is powered by it, so it restarts.                        *)
HardReset ==
    /\ ~quiet /\ resets < MaxResets /\ resets' = resets + 1
    /\ pc' = "poll" /\ late' = FALSE
    /\ capCount' = 0 /\ choice' = 0 /\ voltage' = 0 /\ profile' = 0
    /\ state' = "IDLE" /\ ccCount' = 0 /\ lastCC' = "none"
    /\ caps' = <<>> /\ messageID' = 0
    /\ phy' = "off" /\ sending' = NoMsg /\ received' = FALSE /\ buffer' = NoMsg
    /\ phase' = "advertise" /\ offer' \in Offers
    /\ sourceID' = 0 /\ lastID' = IdMod /\ ack' = NoMsg
    /\ wanted' = 0 /\ granted' = 0
    /\ UNCHANGED <<losses, rejects, reoffers, quiet>>

Source == SourceAck \/ SourceMessage \/ Reoffer \/ HardReset

Next == Main \/ Interrupt \/ Clock \/ TransmitDone \/ Source

Spec == Init /\ [][Next]_vars

(* Interrupts are far shorter than messages, so main goes on between them;  *)
(* the transmitter finishes; the source keeps sending what it has to send.  *)
Fairness ==
    /\ SF_vars(Main) /\ WF_vars(Interrupt) /\ WF_vars(TransmitDone)
    /\ SF_vars(SourceAck) /\ SF_vars(SourceMessage)
    /\ WF_vars(Clock)

FairSpec == Spec /\ Fairness

-----------------------------------------------------------------------------
(* Properties                                                               *)

Decided == {"scan", "select", "request", "run"}
States == {"IDLE", "CABLE_DETECT", "SOURCE_CAP", "WAIT_ACCEPT", "WAIT_PS_RDY",
           "PS_RDY"}
Messages ==
    [type : {"none", "garbage", "goodcrc", "accept", "reject", "ps_rdy"},
     id : 0..IdMod - 1, arg : {0}]
      \cup [type : {"source_cap"}, id : 0..IdMod - 1, arg : Offers]
      \cup [type : {"request"}, id : 0..IdMod - 1, arg : Nat]

(* The types of the variables.                                              *)
TypeOK ==
    /\ pc \in {"poll", "send", "await", "fail"} \cup Decided
    /\ late \in BOOLEAN /\ received \in BOOLEAN
    /\ capCount \in Nat /\ choice \in Nat /\ voltage \in Nat /\ profile \in Nat
    /\ state \in States /\ ccCount \in 0..CCDebounce
    /\ lastCC \in {"none", "cc1", "cc2"}
    /\ caps \in Offers \cup {<<>>} /\ messageID \in 0..IdMod - 1
    /\ phy \in {"off", "listening", "sending", "sent"}
    /\ sending \in Messages /\ buffer \in Messages /\ ack \in Messages
    /\ phase \in {"advertise", "wait", "accept", "reject", "supply", "ready"}
    /\ offer \in Offers /\ sourceID \in 0..IdMod - 1 /\ lastID \in 0..IdMod
    /\ wanted \in Nat /\ granted \in Nat
    /\ losses \in Nat /\ resets \in Nat /\ rejects \in Nat /\ reoffers \in Nat
    /\ quiet \in BOOLEAN

(* When pd_negotiate reports success, the source has granted a voltage in   *)
(* the same power cycle, whatever was lost, repeated, cut off or received   *)
(* out of turn on the way: the engine takes any message in any state, and   *)
(* only the source's own order keeps a stray one from faking the success.   *)
SuccessMeansContract == pc \in Decided => granted # 0 /\ caps # <<>>

(* As long as the source keeps to its offer, VBUS only ever carries 5 V,    *)
(* the first PDO or a voltage pd_get_profile accepts: no lost, repeated or  *)
(* damaged Request makes the source supply another one.                     *)
OnlyFittingVoltages == reoffers = 0 => Vbus \in {5, offer[1]} \cup Fits

(* Undisturbed, the Request for the profile main takes as set is never      *)
(* lost: it is on the wire with an ID the source has not seen (one that is  *)
(* repeated would be acknowledged and dropped), or it is accepted, or VBUS  *)
(* carries what it asks for.                                                *)
RequestIsServed ==
    quiet /\ profile # 0 =>
      \/ /\ phase = "ready" /\ sending.type = "request" /\ sending.id # lastID
         /\ offer[sending.arg] = profile
      \/ phase = "accept" /\ offer[wanted] = profile
      \/ Vbus = profile

(* pd_negotiate comes to an end, even if the source repeats itself for ever *)
(* or stays silent.                                                         *)
NegotiationEnds == <>[](pc \in Decided \cup {"fail"})

(* An undisturbed negotiation succeeds.                                     *)
NegotiationSucceeds == quiet => <>(pc = "run")

(* The profile the heater works with is what the source supplies, once the  *)
(* source has had time to switch (pd.h:11, usbpd.h:556).                    *)
ProfileTakesEffect == (pc = "run" /\ profile # 0) ~> (Vbus = profile)

(* It is after an undisturbed negotiation.                                  *)
QuietTakesEffect == (quiet /\ pc = "run" /\ profile # 0) ~> (Vbus = profile)
=============================================================================
