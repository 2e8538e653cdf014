----------------------------- MODULE DfuProofs -----------------------------
(***************************************************************************)
(* Proofs about Dfu for every pool of buffers, every set of image sizes and *)
(* of notification targets, and every limit of directed advertising.        *)
(*                                                                          *)
(* One inductive invariant carries every safety property of the module.     *)
(* RadioInv lists the five queues of GAP events there can be and what each  *)
(* says of the link and of the transport's flags; FlashInv and FinalInv say *)
(* that the flash works through the accepted packets in order, so that the  *)
(* final one is the last of them to be stored.                              *)
(***************************************************************************)
EXTENDS Dfu, FiniteSetTheorems, SequenceTheorems, TLAPS

\* The events that can wait, and what they leave to be done.
RadioInv ==
    \/ /\ radio.events = <<>>
       /\ (radio.linkUp <=> transport.conn) /\ (transport.advertising <=> radio.onAir)
       /\ radio.onAir => ~transport.conn /\ ~transport.tearDown
       /\ phase = "running" => radio.onAir \/ transport.conn \/ transport.tearDown
    \/ /\ radio.events = <<"connected">>
       /\ radio.linkUp /\ ~radio.onAir
       /\ ~transport.conn /\ transport.advertising /\ ~transport.tearDown
    \/ /\ radio.events = <<"connected", "disconnected">>
       /\ ~radio.linkUp /\ ~radio.onAir
       /\ ~transport.conn /\ transport.advertising /\ ~transport.tearDown
    \/ /\ radio.events = <<"disconnected">>
       /\ ~radio.linkUp /\ ~radio.onAir
       /\ transport.conn /\ ~transport.advertising
    \/ /\ radio.events = <<"timeout">>
       /\ ~radio.linkUp /\ ~radio.onAir
       /\ ~transport.conn /\ transport.advertising /\ ~transport.tearDown

\* The last of the directed advertisements leaves the radio off for good.
DirectInv ==
    transport.directCount = 0 =>
        radio.events = <<>> /\ ~radio.linkUp /\ ~radio.onAir /\ ~transport.conn

\* What is left of the count is what the controller still has to wait.
NoticeInv ==
    transport.notices =>
        /\ transport.target \in NoticeTargets
        /\ transport.count > 0 /\ told.sinceNotice + transport.count = transport.target

\* Nothing of the transfer is left while the bootloader does not run.
OffInv == phase \in {"boot", "app"} => bank = BankIdle /\ told = NothingTold

\* The buffers whose packets the flash has not stored yet.
Queued == {bank.flash[i] : i \in InFlash}

\* Each buffer that is not free is in the flash's queue once, or was given up.
FlashInv ==
    /\ bank.used = Queued \union bank.lost
    /\ \A i \in InFlash : bank.flash[i] \notin bank.lost
    /\ \A i, j \in DOMAIN bank.flash :
           bank.flash[i] = bank.flash[j] /\ bank.flash[i] # "settings" => i = j
    /\ \A i \in DOMAIN bank.flash : bank.flash[i] = "erase" => bank.state = "erasing"

\* The final packet completes the image and is the last in the queue.
FinalInv ==
    /\ bank.state \notin {"data", "valid"} =>
           Accepted = 0 /\ transport.finalPacket = Nothing /\ ~told.complete
    /\ transport.finalPacket # Nothing =>
           /\ Accepted = bank.image
           /\ \A i, j \in InFlash : bank.flash[i] = transport.finalPacket => j <= i
    /\ told.complete => InFlash = {} /\ Accepted = bank.image

IInv ==
    /\ DfuTypeOK /\ OffInv /\ ReportIsRight
    /\ RadioInv /\ DirectInv /\ NoticeInv /\ FlashInv /\ FinalInv

-----------------------------------------------------------------------------
(***************************************************************************)
(* Types.                                                                  *)
(***************************************************************************)
Operation == Buffer \union {"erase", "settings"}
GapEventName == {"connected", "disconnected", "timeout"}

\* The targets of notifications are positive.
LEMMA TargetFacts ==
  /\ \A n \in NoticeTargets : n \in Nat /\ n > 0
  /\ \A n \in NoticeTargets \union {0} : n \in Nat
  <1>1. \A n \in NoticeTargets : n \in Nat /\ n > 0
    BY DfuAssumption
  <1> QED BY <1>1

\* Updates that the prover does not see through by itself.
LEMMA TransportUpdates ==
  ASSUME NEW t \in Transport
  PROVE  /\ \A v \in BOOLEAN : [t EXCEPT !.advertising = v] \in Transport
         /\ \A n, m \in Nat : [t EXCEPT !.received = n, !.count = m] \in Transport
         /\ \A n \in 0 .. DirectLimit, v \in BOOLEAN :
                /\ [t EXCEPT !.directCount = n, !.advertising = v] \in Transport
                /\ [t EXCEPT !.directCount = n, !.conn = v] \in Transport
  BY DEF Transport

\* What a reset and a start leave has the right types.
LEMMA RestTypes ==
  /\ \A p \in PeerData : Idle(p) \in Transport
  /\ \A p \in PeerData : [Idle(p) EXCEPT !.advertising = TRUE] \in Transport
  /\ RadioOff \in Radio /\ [RadioOff EXCEPT !.onAir = TRUE] \in Radio
  /\ BankIdle \in Bank
  /\ NothingTold \in [complete : BOOLEAN, sinceNotice : Nat]
  /\ "none" \in PeerData
  <1>1. /\ <<>> \in Seq(GapEventName) /\ <<>> \in Seq(Operation)
    BY EmptySeq
  <1>2. \A p \in PeerData : Idle(p) \in Transport
    BY DfuAssumption DEF Idle, Transport
  <1>7. \A p \in PeerData : [Idle(p) EXCEPT !.advertising = TRUE] \in Transport
    BY <1>2, TransportUpdates
  <1>3. RadioOff \in Radio /\ [RadioOff EXCEPT !.onAir = TRUE] \in Radio
    BY <1>1 DEF RadioOff, Radio, GapEventName
  <1>4. BankIdle \in Bank
    BY <1>1 DEF BankIdle, Bank, Operation
  <1>5. NothingTold \in [complete : BOOLEAN, sinceNotice : Nat]
    BY DEF NothingTold
  <1>6. "none" \in PeerData
    BY DEF PeerData
  <1> QED BY <1>2, <1>3, <1>4, <1>5, <1>6, <1>7

\* So does what a GAP event, handled or raised, makes of the radio.
LEMMA RadioTypes ==
  ASSUME radio \in Radio
  PROVE  /\ HungUp \in Radio
         /\ \A air, up \in BOOLEAN, e \in GapEventName :
                [[radio EXCEPT !.onAir = air, !.linkUp = up] EXCEPT !.events = Append(@, e)] \in Radio
         /\ radio.events # <<>> => Handled \in Radio /\ [Handled EXCEPT !.onAir = TRUE] \in Radio
  <1>1. radio.events \in Seq(GapEventName)
    BY DEF Radio, GapEventName
  <1>2. \A e \in GapEventName : Append(radio.events, e) \in Seq(GapEventName)
    BY <1>1, AppendProperties
  <1>3. radio.events # <<>> => Tail(radio.events) \in Seq(GapEventName)
    BY <1>1, HeadTailProperties
  <1> QED BY <1>2, <1>3 DEF Radio, GapEventName, HungUp, Handled

\* And what a new or an ended operation makes of the flash's queue.
LEMMA FlashTypes ==
  ASSUME bank \in Bank
  PROVE  /\ bank.flash \in Seq(Operation)
         /\ \A o \in Operation : Append(bank.flash, o) \in Seq(Operation)
         /\ bank.flash # <<>> => Tail(bank.flash) \in Seq(Operation)
  <1>1. bank.flash \in Seq(Operation)
    BY DEF Bank, Operation
  <1> QED BY <1>1, AppendProperties, HeadTailProperties

\* Every step keeps the types: DirectInv and NoticeInv keep the two counts that go
\* down from going below zero.
LEMMA TypeStep ==
  ASSUME DfuTypeOK, DirectInv, NoticeInv, [Next]_vars
  PROVE  DfuTypeOK'
  <1> USE DfuAssumption DEF DfuTypeOK, Command, Awake, OnLink, Set, bootVars
  <1>1. CASE Boot
    BY <1>1, RestTypes DEF Boot, UpdateStart, PeerDataGet
  <1>2. CASE Leave
    BY <1>2, RestTypes DEF Leave, Cleared
  <1>3. CASE ErrorReset
    BY <1>3, RestTypes DEF ErrorReset, Cleared
  <1>4. CASE AppEntersDfu
    BY <1>4, RestTypes DEF AppEntersDfu, Cleared
  <1>5. CASE PowerCycle
    BY <1>5, RestTypes DEF PowerCycle, Cleared
  <1>6. CASE StartCommand \/ AppCommand \/ InitCommand
    BY <1>6 DEF StartCommand, AppCommand, InitCommand, Transport
  <1>7. CASE InitComplete
    <2>1. transport' \in Transport
      BY <1>7 DEF InitComplete, Transport
    <2>2. bank' \in Bank
      BY <1>7 DEF InitComplete, Bank
    <2> QED BY <1>7, <2>1, <2>2 DEF InitComplete, Respond
  <1>8. ASSUME NEW n \in NoticeTargets, EnableNotices(n) PROVE DfuTypeOK'
    BY <1>8 DEF EnableNotices, Transport
  <1>9. CASE DisableNotices
    BY <1>9 DEF DisableNotices, Transport
  <1>10. CASE BytesReport \/ StackRequest
    BY <1>10 DEF BytesReport, StackRequest, Respond
  <1>11. CASE Validate
    BY <1>11 DEF Validate, Respond, Bank
  <1>12. CASE SysReset
    BY <1>12, RadioTypes DEF SysReset, Close, HangUp, Transport
  <1>13. CASE ActivateAndReset
    BY <1>13, RadioTypes, FlashTypes DEF ActivateAndReset, Close, HangUp, Transport, Bank, Operation
  <1>14. CASE StartPacketRefused \/ InitPacketRefused \/ DataPacketRefused
    BY <1>14 DEF StartPacketRefused, InitPacketRefused, DataPacketRefused, Respond
  <1>29. ASSUME NEW b \in Buffer, DataPacketLost(b) PROVE DfuTypeOK'
    BY <1>29 DEF DataPacketLost, Respond, Bank
  <1>15. CASE InitPacket
    BY <1>15 DEF InitPacket, Bank
  <1>16. ASSUME NEW size \in ImageSizes, StartPacket(size) PROVE DfuTypeOK'
    BY <1>16, FlashTypes DEF StartPacket, Bank, Operation
  <1>17. ASSUME NEW b \in Buffer, FinalPacket(b) PROVE DfuTypeOK'
    <2>3. transport.received + 1 \in Nat
      BY DEF Transport
    <2>1. transport' \in Transport
      BY <1>17, <2>3 DEF FinalPacket, Transport
    <2>2. bank' \in Bank
      BY <1>17, FlashTypes DEF FinalPacket, Store, Bank, Operation
    <2> QED BY <1>17, <2>1, <2>2 DEF FinalPacket, Store
  <1>18. ASSUME NEW b \in Buffer, MorePackets(b) PROVE DfuTypeOK'
    <2>4. transport.received + 1 \in Nat /\ transport.count \in Nat
      BY DEF Transport
    <2>7. transport.target \in Nat
      <3>1. transport.target \in NoticeTargets \union {0}
        BY DEF Transport
      <3> QED BY <3>1, TargetFacts
    <2>5. (IF transport.notices THEN transport.count - 1 ELSE transport.count) \in Nat
      BY <2>4 DEF NoticeInv
    <2>6. told.sinceNotice + 1 \in Nat
      OBVIOUS
    <2>1. transport' \in Transport
      <3> DEFINE n == transport.received + 1
                 m == IF transport.notices THEN transport.count - 1 ELSE transport.count
      <3>1. /\ [transport EXCEPT !.received = n, !.count = m] \in Transport
            /\ [transport EXCEPT !.received = n, !.count = transport.target] \in Transport
        BY <2>4, <2>5, <2>7, TransportUpdates
      <3> QED BY <1>18, <3>1 DEF MorePackets
    <2>2. bank' \in Bank
      BY <1>18, FlashTypes DEF MorePackets, Store, Bank, Operation
    <2>3. told' \in [complete : BOOLEAN, sinceNotice : Nat]
      BY <1>18, <2>6 DEF MorePackets
    <2> QED BY <1>18, <2>1, <2>2, <2>3 DEF MorePackets, Store, Respond
  <1>19. CASE Erased
    BY <1>19, FlashTypes DEF Erased, Done, Respond, Bank, Operation
  <1>20. CASE Activated
    BY <1>20, FlashTypes DEF Activated, Done, Bank, Operation
  <1>21. ASSUME NEW b \in Buffer, Stored(b) PROVE DfuTypeOK'
    <2>4. bank.stored + 1 \in Nat
      BY DEF Bank
    <2>1. bank' \in Bank
      BY <1>21, <2>4, FlashTypes DEF Stored, Done, Bank, Operation
    <2>2. OnLink \in BOOLEAN
      BY DEF Radio, Transport
    <2>3. told' \in [complete : BOOLEAN, sinceNotice : Nat]
      BY <1>21, <2>2 DEF Stored
    <2> QED BY <1>21, <2>1, <2>3 DEF Stored
  <1>22. ASSUME NEW b \in Buffer, StoreFailed(b) PROVE DfuTypeOK'
    <2>4. bank.failed + 1 \in Nat
      BY DEF Bank
    <2>1. bank' \in Bank
      BY <1>22, <2>4, FlashTypes DEF StoreFailed, Done, Bank, Operation
    <2>2. radio' \in Radio
      BY <1>22, RadioTypes DEF StoreFailed, HangUp
    <2> QED BY <1>22, <2>1, <2>2 DEF StoreFailed, HangUp
  <1>23. CASE Connected
    BY <1>23, RadioTypes DEF Connected, Event, Transport
  <1>24. CASE Disconnected
    <2>3. DirectLimit \in 0 .. DirectLimit
      BY DEF DfuAssumption
    <2>1. transport' \in Transport
      <3>1. [transport EXCEPT !.directCount = DirectLimit, !.conn = FALSE] \in Transport
        BY <2>3, TransportUpdates
      <3> QED BY <1>24, <3>1, TransportUpdates DEF Disconnected, Advertise
    <2>2. radio' \in Radio
      BY <1>24, RadioTypes DEF Disconnected, Event, Advertise
    <2> QED BY <1>24, <2>1, <2>2 DEF Disconnected, Advertise
  <1>25. CASE AdvTimeout
    <2>1. transport.directCount - 1 \in 0 .. DirectLimit
      BY <1>25 DEF AdvTimeout, Event, DirectInv, Transport
    <2>2. transport' \in Transport
      <3>1. [transport EXCEPT !.directCount = @ - 1, !.advertising = FALSE] \in Transport
        BY <2>1, TransportUpdates
      <3> QED BY <1>25, <3>1, TransportUpdates DEF AdvTimeout, Advertise
    <2>3. radio' \in Radio
      BY <1>25, RadioTypes DEF AdvTimeout, Event, Advertise
    <2> QED BY <1>25, <2>2, <2>3 DEF AdvTimeout, Advertise
  <1>26. CASE PeerConnects \/ LinkLoss \/ NobodyConnects
    <2>1. CASE PeerConnects
      BY <2>1, RadioTypes DEF PeerConnects, Air, Radio, GapEventName
    <2>2. CASE LinkLoss
      BY ZenonT(40), <2>2, RadioTypes DEF LinkLoss, Air, Radio, GapEventName
    <2>3. CASE NobodyConnects
      BY ZenonT(40), <2>3, RadioTypes DEF NobodyConnects, Air, Radio, GapEventName
    <2> QED BY <1>26, <2>1, <2>2, <2>3
  <1>27. CASE GattsTimeout
    BY <1>27, RadioTypes DEF GattsTimeout, HangUp
  <1>28. CASE UNCHANGED vars
    BY <1>28 DEF vars
  <1> QED BY <1>1, <1>2, <1>3, <1>4, <1>5, <1>6, <1>7, <1>8, <1>9, <1>10, <1>11, <1>12, <1>13, <1>14, <1>15, <1>16, <1>17, <1>18, <1>19, <1>20, <1>21, <1>22, <1>23, <1>24, <1>25, <1>26, <1>27, <1>28, <1>29
    DEF Next, Commands, Packets, FlashCallback, GapEvent, Environment, ActivateNothing

-----------------------------------------------------------------------------
(***************************************************************************)
(* The radio.                                                              *)
(***************************************************************************)
\* The queues of RadioInv, one event later and one earlier.
LEMMA TwoEvents == Append(<<"connected">>, "disconnected") = <<"connected", "disconnected">>
  <1> DEFINE S == {"connected", "disconnected"}
             s == Append(<<"connected">>, "disconnected")
             t == <<"connected", "disconnected">>
  <1>1. <<"connected">> \in Seq(S) /\ t \in Seq(S)
    OBVIOUS
  <1>2. /\ s \in Seq(S) /\ Len(s) = 2 /\ s[1] = "connected" /\ s[2] = "disconnected"
    BY <1>1, AppendProperties
  <1>3. Len(t) = 2 /\ t[1] = "connected" /\ t[2] = "disconnected"
    OBVIOUS
  <1>4. \A i \in 1 .. Len(s) : s[i] = t[i]
    BY <1>2, <1>3
  <1> QED BY <1>1, <1>2, <1>3, <1>4, SeqEqual

\* What raising and handling an event makes of each queue.
LEMMA QueueFacts ==
  /\ Append(<<>>, "connected") = <<"connected">>
  /\ Append(<<>>, "disconnected") = <<"disconnected">>
  /\ Append(<<>>, "timeout") = <<"timeout">>
  /\ Append(<<"connected">>, "disconnected") = <<"connected", "disconnected">>
  /\ Tail(<<"connected">>) = <<>> /\ Head(<<"connected">>) = "connected"
  /\ Tail(<<"disconnected">>) = <<>> /\ Head(<<"disconnected">>) = "disconnected"
  /\ Tail(<<"timeout">>) = <<>> /\ Head(<<"timeout">>) = "timeout"
  /\ Tail(<<"connected", "disconnected">>) = <<"disconnected">>
  /\ Head(<<"connected", "disconnected">>) = "connected"
  /\ <<"connected">> # <<>> /\ <<"disconnected">> # <<>> /\ <<"timeout">> # <<>>
  /\ <<"connected", "disconnected">> # <<>>
  BY TwoEvents

\* A reset leaves the radio off, a start leaves it on the air.
LEMMA OffFacts ==
  /\ \A p : /\ ~Idle(p).conn /\ ~Idle(p).tearDown /\ ~Idle(p).advertising
           /\ LET t == [Idle(p) EXCEPT !.advertising = TRUE]
              IN  ~t.conn /\ ~t.tearDown /\ t.advertising
  /\ RadioOff.events = <<>> /\ ~RadioOff.linkUp /\ ~RadioOff.onAir
  /\ LET r == [RadioOff EXCEPT !.onAir = TRUE]
     IN  r.events = <<>> /\ ~r.linkUp /\ r.onAir
  BY DEF Idle, RadioOff

\* Every step leads from one of the five queues of GAP events to another.
LEMMA RadioStep ==
  ASSUME DfuTypeOK, RadioInv, [Next]_vars
  PROVE  RadioInv'
  <1> USE DEF DfuTypeOK, Transport, Radio, RadioInv, Command, Awake, OnLink, Set, bootVars
  <1>1. CASE Boot
    <2>1. CASE UpdateStart
      <3>1. radio'.events = <<>> /\ ~radio'.linkUp /\ radio'.onAir
        BY <2>1, OffFacts DEF UpdateStart
      <3>2. ~transport'.conn /\ ~transport'.tearDown /\ transport'.advertising
        BY <2>1, OffFacts DEF UpdateStart
      <3> QED BY <2>1, <3>1, <3>2 DEF UpdateStart
    <2>2. CASE phase' = "app" /\ UNCHANGED <<transport, radio>>
      BY <1>1, <2>2 DEF Boot
    <2> QED BY <1>1, <2>1, <2>2 DEF Boot
  <1>2. CASE Leave \/ ErrorReset \/ AppEntersDfu \/ PowerCycle
    <2>1. Cleared /\ phase' \in {"app", "boot"}
      BY <1>2 DEF Leave, ErrorReset, AppEntersDfu, PowerCycle
    <2>2. radio'.events = <<>> /\ ~radio'.linkUp /\ ~radio'.onAir
      BY <2>1, OffFacts DEF Cleared
    <2>3. ~transport'.conn /\ ~transport'.tearDown /\ ~transport'.advertising
      BY <2>1, OffFacts DEF Cleared
    <2> QED BY <2>1, <2>2, <2>3
  <1>3. CASE StartCommand \/ AppCommand \/ InitCommand
    BY <1>3 DEF StartCommand, AppCommand, InitCommand
  <1>4. CASE InitComplete
    BY <1>4 DEF InitComplete, Respond
  <1>5. ASSUME NEW n \in NoticeTargets, EnableNotices(n) PROVE RadioInv'
    BY <1>5 DEF EnableNotices
  <1>6. CASE DisableNotices
    BY <1>6 DEF DisableNotices
  <1>7. CASE BytesReport \/ StackRequest \/ Validate
    BY <1>7 DEF BytesReport, StackRequest, Validate, Respond
  <1>8. CASE SysReset
    BY ZenonT(40), <1>8, QueueFacts DEF SysReset, Close, HangUp, HungUp
  <1>9. CASE ActivateAndReset
    <2>1. CASE ~radio.linkUp
      BY <1>9, <2>1 DEF ActivateAndReset, Close, HangUp
    <2>2. CASE radio.linkUp
      <3>1. radio' = HungUp /\ phase' = phase /\ phase # "fault"
        BY <1>9, <2>2 DEF ActivateAndReset, Close, HangUp
      <3>2. transport'.conn = transport.conn /\ transport'.advertising = transport.advertising
        BY <1>9 DEF ActivateAndReset, Close
      <3>3. radio.events = <<>> /\ ~radio.onAir /\ transport.conn
        BY <1>9, <2>2, QueueFacts DEF ActivateAndReset
      <3>4. radio'.events = <<"disconnected">> /\ ~radio'.linkUp /\ ~radio'.onAir
        BY <3>1, <3>3, QueueFacts DEF HungUp
      <3> QED BY <3>1, <3>2, <3>3, <3>4
    <2> QED BY <2>1, <2>2
  <1>10. CASE StartPacketRefused \/ InitPacketRefused \/ DataPacketRefused
    BY <1>10 DEF StartPacketRefused, InitPacketRefused, DataPacketRefused, Respond
  <1>27. ASSUME NEW b \in Buffer, DataPacketLost(b) PROVE RadioInv'
    BY <1>27 DEF DataPacketLost, Packet, Respond
  <1>11. CASE InitPacket
    BY <1>11 DEF InitPacket
  <1>12. ASSUME NEW size \in ImageSizes, StartPacket(size) PROVE RadioInv'
    BY <1>12 DEF StartPacket
  <1>13. ASSUME NEW b \in Buffer, FinalPacket(b) PROVE RadioInv'
    BY <1>13 DEF FinalPacket, Store, Packet
  <1>14. ASSUME NEW b \in Buffer, MorePackets(b) PROVE RadioInv'
    BY <1>14 DEF MorePackets, Store, Packet, Respond
  <1>15. CASE Erased
    BY <1>15 DEF Erased, Done, Respond
  <1>16. CASE Activated
    BY <1>16 DEF Activated, Done
  <1>17. ASSUME NEW b \in Buffer, Stored(b) PROVE RadioInv'
    BY <1>17 DEF Stored, Done
  <1>18. ASSUME NEW b \in Buffer, StoreFailed(b) PROVE RadioInv'
    BY ZenonT(40), <1>18, QueueFacts DEF StoreFailed, Done, HangUp, HungUp
  <1>19. CASE Connected
    BY <1>19, QueueFacts DEF Connected, Event, Handled
  <1>20. CASE Disconnected
    <2>1. /\ radio.events = <<"disconnected">> /\ ~radio.linkUp /\ ~radio.onAir
          /\ transport.conn /\ ~transport.advertising
      BY <1>20, QueueFacts DEF Disconnected, Event
    <2>2. Handled.events = <<>> /\ ~Handled.linkUp /\ ~Handled.onAir
      BY <2>1, QueueFacts DEF Handled
    <2>3. phase' = phase /\ ~transport'.conn /\ transport'.tearDown = transport.tearDown
      BY <1>20, <2>1 DEF Disconnected, Advertise
    <2>4. CASE transport.tearDown
      <3>1. radio' = Handled /\ ~transport'.advertising
        BY <1>20, <2>1, <2>4 DEF Disconnected
      <3> QED BY <1>20, <2>2, <2>3, <2>4, <3>1 DEF Disconnected, Event
    <2>5. CASE ~transport.tearDown
      <3>1. radio' = [Handled EXCEPT !.onAir = TRUE] /\ transport'.advertising
        BY <1>20, <2>1, <2>5 DEF Disconnected, Advertise
      <3>2. radio'.events = <<>> /\ ~radio'.linkUp /\ radio'.onAir
        BY <2>2, <3>1 DEF Handled
      <3> QED BY <1>20, <2>3, <2>5, <3>1, <3>2 DEF Disconnected, Event
    <2> QED BY <2>4, <2>5
  <1>21. CASE AdvTimeout
    <2>1. /\ radio.events = <<"timeout">> /\ ~radio.linkUp /\ ~radio.onAir
          /\ ~transport.conn /\ ~transport.tearDown
      BY <1>21, QueueFacts DEF AdvTimeout, Event
    <2>2. Handled.events = <<>> /\ ~Handled.linkUp /\ ~Handled.onAir
      BY <2>1, QueueFacts DEF Handled
    <2>3. phase' # "fault" /\ ~transport'.conn /\ ~transport'.tearDown
      BY <1>21, <2>1 DEF AdvTimeout, Advertise, Event
    <2>4. CASE transport.directCount - 1 = 0
      <3>1. radio' = Handled /\ ~transport'.advertising /\ phase' = "over"
        BY <1>21, <2>4 DEF AdvTimeout
      <3> QED BY <2>2, <2>3, <3>1
    <2>5. CASE transport.directCount - 1 # 0
      <3>1. radio' = [Handled EXCEPT !.onAir = TRUE] /\ transport'.advertising
        BY <1>21, <2>5 DEF AdvTimeout, Advertise
      <3>2. radio'.events = <<>> /\ ~radio'.linkUp /\ radio'.onAir
        BY <2>2, <3>1 DEF Handled
      <3> QED BY <2>3, <3>1, <3>2
    <2> QED BY <2>4, <2>5
  <1>22. CASE PeerConnects
    BY <1>22, QueueFacts DEF PeerConnects, Air
  <1>23. CASE LinkLoss
    BY <1>23, QueueFacts DEF LinkLoss, Air
  <1>24. CASE NobodyConnects
    BY <1>24, QueueFacts DEF NobodyConnects, Air
  <1>25. CASE GattsTimeout
    BY ZenonT(40), <1>25, QueueFacts DEF GattsTimeout, HangUp, HungUp
  <1>26. CASE UNCHANGED vars
    BY <1>26 DEF vars
  <1> QED BY <1>1, <1>2, <1>3, <1>4, <1>5, <1>6, <1>7, <1>8, <1>9, <1>10, <1>11, <1>12, <1>13, <1>14, <1>15, <1>16, <1>17, <1>18, <1>19, <1>20, <1>21, <1>22, <1>23, <1>24, <1>25, <1>26, <1>27
    DEF Next, Commands, Packets, FlashCallback, GapEvent, Environment, ActivateNothing

-----------------------------------------------------------------------------
(***************************************************************************)
(* Directed advertising, notifications, and what a reset leaves.           *)
(***************************************************************************)
\* The count of directed advertisements reaches zero only when main is to leave.
LEMMA DirectStep ==
  ASSUME DfuTypeOK, RadioInv, DirectInv, [Next]_vars
  PROVE  DirectInv'
  <1> USE DfuAssumption DEF DfuTypeOK, DirectInv, Transport, Radio, Command, Awake, Set, bootVars
  <1>1. CASE Boot
    BY ZenonT(40), <1>1, OffFacts DEF Boot, UpdateStart, Idle
  <1>2. CASE Leave \/ ErrorReset \/ AppEntersDfu \/ PowerCycle
    BY <1>2, OffFacts DEF Leave, ErrorReset, AppEntersDfu, PowerCycle, Cleared, Idle
  <1>3. CASE StartCommand \/ AppCommand \/ InitCommand
    BY <1>3 DEF StartCommand, AppCommand, InitCommand
  <1>4. CASE InitComplete \/ BytesReport \/ StackRequest \/ Validate
    BY <1>4 DEF InitComplete, BytesReport, StackRequest, Validate
  <1>5. ASSUME NEW n \in NoticeTargets, EnableNotices(n) PROVE DirectInv'
    BY <1>5 DEF EnableNotices
  <1>6. CASE DisableNotices
    BY <1>6 DEF DisableNotices
  <1>7. CASE SysReset \/ ActivateAndReset
    BY <1>7 DEF SysReset, ActivateAndReset, Close, HangUp
  <1>8. CASE StartPacketRefused \/ InitPacketRefused \/ DataPacketRefused
    BY <1>8 DEF StartPacketRefused, InitPacketRefused, DataPacketRefused
  <1>21. ASSUME NEW b \in Buffer, DataPacketLost(b) PROVE DirectInv'
    BY <1>21 DEF DataPacketLost
  <1>9. CASE InitPacket \/ \E size \in ImageSizes : StartPacket(size)
    BY <1>9 DEF InitPacket, StartPacket
  <1>10. ASSUME NEW b \in Buffer, FinalPacket(b) PROVE DirectInv'
    BY <1>10 DEF FinalPacket, Store
  <1>11. ASSUME NEW b \in Buffer, MorePackets(b) PROVE DirectInv'
    BY ZenonT(40), <1>11 DEF MorePackets, Store
  <1>12. CASE Erased \/ Activated
    BY <1>12 DEF Erased, Activated
  <1>13. ASSUME NEW b \in Buffer, Stored(b) PROVE DirectInv'
    BY <1>13 DEF Stored
  <1>14. ASSUME NEW b \in Buffer, StoreFailed(b) PROVE DirectInv'
    BY <1>14 DEF StoreFailed, HangUp
  <1>15. CASE Connected
    BY <1>15 DEF Connected, Event
  <1>16. CASE Disconnected
    BY <1>16 DEF Disconnected, Advertise
  <1>17. CASE AdvTimeout
    <2>1. radio.events = <<"timeout">> /\ ~radio.linkUp /\ ~radio.onAir /\ ~transport.conn
      BY <1>17, QueueFacts DEF AdvTimeout, Event, RadioInv
    <2>2. Handled.events = <<>> /\ ~Handled.linkUp /\ ~Handled.onAir
      BY <2>1, QueueFacts DEF Handled
    <2>3. transport'.directCount = transport.directCount - 1 /\ ~transport'.conn
      <3> DEFINE t == [transport EXCEPT !.directCount = @ - 1, !.advertising = FALSE]
      <3>1. t.directCount = transport.directCount - 1 /\ ~t.conn
        BY <2>1
      <3>2. transport' = t \/ transport' = [t EXCEPT !.advertising = TRUE]
        BY <1>17 DEF AdvTimeout, Advertise
      <3>3. LET u == [t EXCEPT !.advertising = TRUE]
            IN  u.directCount = t.directCount /\ u.conn = t.conn
        OBVIOUS
      <3> HIDE DEF t
      <3> QED BY <3>1, <3>2, <3>3
    <2>4. transport.directCount - 1 = 0 => radio' = Handled
      BY <1>17 DEF AdvTimeout
    <2> QED BY <2>2, <2>3, <2>4
  <1>18. CASE PeerConnects \/ LinkLoss \/ NobodyConnects
    BY <1>18 DEF PeerConnects, LinkLoss, NobodyConnects, Air
  <1>19. CASE GattsTimeout
    BY <1>19 DEF GattsTimeout, HangUp
  <1>20. CASE UNCHANGED vars
    BY <1>20 DEF vars
  <1> QED BY <1>1, <1>2, <1>3, <1>4, <1>5, <1>6, <1>7, <1>8, <1>9, <1>10, <1>11, <1>12, <1>13, <1>14, <1>15, <1>16, <1>17, <1>18, <1>19, <1>20, <1>21
    DEF Next, Commands, Packets, FlashCallback, GapEvent, Environment, ActivateNothing

\* Every step keeps the count of packets until a notification in line with the wait.
LEMMA NoticeStep ==
  ASSUME DfuTypeOK, NoticeInv, [Next]_vars
  PROVE  NoticeInv'
  <1> USE TargetFacts DEF DfuTypeOK, NoticeInv, Transport, Command, Awake, Set, bootVars
  <1>1. CASE Boot
    BY <1>1, OffFacts DEF Boot, UpdateStart, Idle
  <1>2. CASE Leave \/ ErrorReset \/ AppEntersDfu \/ PowerCycle
    BY <1>2, OffFacts DEF Leave, ErrorReset, AppEntersDfu, PowerCycle, Cleared, Idle
  <1>3. CASE StartCommand \/ AppCommand \/ InitCommand
    BY <1>3 DEF StartCommand, AppCommand, InitCommand
  <1>4. CASE InitComplete \/ BytesReport \/ StackRequest \/ Validate
    BY <1>4 DEF InitComplete, BytesReport, StackRequest, Validate
  <1>5. ASSUME NEW n \in NoticeTargets, EnableNotices(n) PROVE NoticeInv'
    BY <1>5 DEF EnableNotices
  <1>6. CASE DisableNotices
    BY <1>6 DEF DisableNotices
  <1>7. CASE SysReset \/ ActivateAndReset
    BY <1>7 DEF SysReset, ActivateAndReset, Close, HangUp
  <1>8. CASE StartPacketRefused \/ InitPacketRefused \/ DataPacketRefused
    BY <1>8 DEF StartPacketRefused, InitPacketRefused, DataPacketRefused
  <1>21. ASSUME NEW b \in Buffer, DataPacketLost(b) PROVE NoticeInv'
    BY <1>21 DEF DataPacketLost
  <1>9. CASE InitPacket \/ \E size \in ImageSizes : StartPacket(size)
    BY <1>9 DEF InitPacket, StartPacket
  <1>10. ASSUME NEW b \in Buffer, FinalPacket(b) PROVE NoticeInv'
    BY <1>10 DEF FinalPacket, Store
  <1>11. ASSUME NEW b \in Buffer, MorePackets(b) PROVE NoticeInv'
    <2> SUFFICES ASSUME transport'.notices
                 PROVE  /\ transport'.target \in NoticeTargets /\ transport'.count > 0
                        /\ told'.sinceNotice + transport'.count = transport'.target
      OBVIOUS
    <2>1. transport.notices /\ transport'.target = transport.target
      BY <1>11 DEF MorePackets
    <2>2. /\ transport.target \in Nat /\ transport.target > 0 /\ transport.target \in NoticeTargets
          /\ transport.count \in Nat /\ transport.count > 0 /\ told.sinceNotice \in Nat
          /\ told.sinceNotice + transport.count = transport.target
      BY <2>1
    <2>3. CASE transport.count = 1
      <3>1. transport'.count = transport.target /\ told'.sinceNotice = 0
        BY <1>11, <2>1, <2>3 DEF MorePackets
      <3> QED BY <2>1, <2>2, <3>1
    <2>4. CASE transport.count # 1
      <3>1. transport'.count = transport.count - 1 /\ told'.sinceNotice = told.sinceNotice + 1
        BY <1>11, <2>1, <2>4 DEF MorePackets
      <3> QED BY <2>1, <2>2, <2>4, <3>1
    <2> QED BY <2>3, <2>4
  <1>12. CASE Erased \/ Activated
    BY <1>12 DEF Erased, Activated
  <1>13. ASSUME NEW b \in Buffer, Stored(b) PROVE NoticeInv'
    BY <1>13 DEF Stored
  <1>14. ASSUME NEW b \in Buffer, StoreFailed(b) PROVE NoticeInv'
    BY <1>14 DEF StoreFailed, HangUp
  <1>15. CASE Connected
    BY <1>15 DEF Connected
  <1>16. CASE Disconnected
    BY <1>16 DEF Disconnected, Advertise
  <1>17. CASE AdvTimeout
    BY <1>17 DEF AdvTimeout, Advertise
  <1>18. CASE PeerConnects \/ LinkLoss \/ NobodyConnects
    BY <1>18 DEF PeerConnects, LinkLoss, NobodyConnects, Air
  <1>19. CASE GattsTimeout
    BY <1>19 DEF GattsTimeout, HangUp
  <1>20. CASE UNCHANGED vars
    BY <1>20 DEF vars
  <1> QED BY <1>1, <1>2, <1>3, <1>4, <1>5, <1>6, <1>7, <1>8, <1>9, <1>10, <1>11, <1>12, <1>13, <1>14, <1>15, <1>16, <1>17, <1>18, <1>19, <1>20, <1>21
    DEF Next, Commands, Packets, FlashCallback, GapEvent, Environment, ActivateNothing

\* main starts the transport, or the application, with nothing of a transfer left.
LEMMA OffStep ==
  ASSUME DfuTypeOK, OffInv, [Next]_vars
  PROVE  OffInv'
  <1> USE DEF DfuTypeOK, OffInv, Command, Awake, Done, Event, Packet, bootVars
  <1>1. CASE Boot
    BY <1>1, OffFacts DEF Boot, UpdateStart
  <1>2. CASE Leave \/ ErrorReset \/ AppEntersDfu \/ PowerCycle
    BY <1>2, OffFacts DEF Leave, ErrorReset, AppEntersDfu, PowerCycle, Cleared
  <1>3. CASE StartCommand \/ AppCommand \/ InitCommand
    BY <1>3 DEF StartCommand, AppCommand, InitCommand
  <1>4. CASE InitComplete \/ BytesReport \/ StackRequest \/ Validate
    BY <1>4 DEF InitComplete, BytesReport, StackRequest, Validate, Respond
  <1>5. ASSUME NEW n \in NoticeTargets, EnableNotices(n) PROVE OffInv'
    BY <1>5 DEF EnableNotices
  <1>6. CASE DisableNotices
    BY <1>6 DEF DisableNotices
  <1>7. CASE SysReset \/ ActivateAndReset
    BY <1>7 DEF SysReset, ActivateAndReset, Close, HangUp
  <1>8. CASE StartPacketRefused \/ InitPacketRefused \/ DataPacketRefused
    BY <1>8 DEF StartPacketRefused, InitPacketRefused, DataPacketRefused, Respond
  <1>21. ASSUME NEW b \in Buffer, DataPacketLost(b) PROVE OffInv'
    BY <1>21 DEF DataPacketLost, Respond
  <1>9. CASE InitPacket \/ \E size \in ImageSizes : StartPacket(size)
    BY <1>9 DEF InitPacket, StartPacket
  <1>10. ASSUME NEW b \in Buffer, FinalPacket(b) PROVE OffInv'
    BY <1>10 DEF FinalPacket, Store
  <1>11. ASSUME NEW b \in Buffer, MorePackets(b) PROVE OffInv'
    BY <1>11 DEF MorePackets, Store, Respond
  <1>12. CASE Erased \/ Activated
    BY <1>12 DEF Erased, Activated, Respond
  <1>13. ASSUME NEW b \in Buffer, Stored(b) PROVE OffInv'
    BY <1>13 DEF Stored
  <1>14. ASSUME NEW b \in Buffer, StoreFailed(b) PROVE OffInv'
    BY <1>14 DEF StoreFailed, HangUp
  <1>15. CASE Connected
    BY <1>15 DEF Connected
  <1>16. CASE Disconnected
    BY <1>16 DEF Disconnected, Advertise
  <1>17. CASE AdvTimeout
    BY <1>17 DEF AdvTimeout, Advertise
  <1>18. CASE PeerConnects \/ LinkLoss \/ NobodyConnects
    BY <1>18 DEF PeerConnects, LinkLoss, NobodyConnects, Air
  <1>19. CASE GattsTimeout
    BY <1>19 DEF GattsTimeout, HangUp
  <1>20. CASE UNCHANGED vars
    BY <1>20 DEF vars
  <1> QED BY <1>1, <1>2, <1>3, <1>4, <1>5, <1>6, <1>7, <1>8, <1>9, <1>10, <1>11, <1>12, <1>13, <1>14, <1>15, <1>16, <1>17, <1>18, <1>19, <1>20, <1>21
    DEF Next, Commands, Packets, FlashCallback, GapEvent, Environment, ActivateNothing

-----------------------------------------------------------------------------
(***************************************************************************)
(* The flash.                                                              *)
(***************************************************************************)
\* The stores in a queue are finitely many, and each has a place in it.
LEMMA StoresFinite ==
  ASSUME NEW f \in Seq(Operation)
  PROVE  /\ IsFiniteSet(Stores(f)) /\ Cardinality(Stores(f)) \in Nat
         /\ Stores(f) \subseteq 1 .. Len(f) /\ Len(f) \in Nat
  <1>1. Len(f) \in Nat /\ Stores(f) \subseteq 1 .. Len(f)
    BY LenProperties DEF Stores
  <1>2. IsFiniteSet(1 .. Len(f))
    BY <1>1, FS_Interval
  <1>3. IsFiniteSet(Stores(f))
    BY <1>1, <1>2, FS_Subset
  <1> QED BY <1>1, <1>3, FS_CardinalityType

\* A new operation is the last, and a store is one store more.
LEMMA StoresAppend ==
  ASSUME NEW f \in Seq(Operation), NEW o \in Operation
  PROVE  /\ o \in Buffer => /\ Stores(Append(f, o)) = Stores(f) \union {Len(f) + 1}
                            /\ Cardinality(Stores(Append(f, o))) = Cardinality(Stores(f)) + 1
         /\ o \notin Buffer => Stores(Append(f, o)) = Stores(f)
  <1> DEFINE g == Append(f, o)
  <1>1. /\ g \in Seq(Operation) /\ Len(f) \in Nat /\ Len(g) = Len(f) + 1
        /\ \A i \in 1 .. Len(f) : g[i] = f[i]
        /\ g[Len(f) + 1] = o
    BY AppendProperties, LenProperties
  <1>2. DOMAIN f = 1 .. Len(f) /\ DOMAIN g = 1 .. Len(f) + 1
    BY <1>1, LenProperties
  <1> HIDE DEF g
  <1>3. o \in Buffer => Stores(g) = Stores(f) \union {Len(f) + 1}
    BY <1>1, <1>2 DEF Stores
  <1>4. o \notin Buffer => Stores(g) = Stores(f)
    BY <1>1, <1>2 DEF Stores
  <1>5. Len(f) + 1 \notin Stores(f) /\ IsFiniteSet(Stores(f))
    BY <1>1, StoresFinite
  <1>6. o \in Buffer => Cardinality(Stores(g)) = Cardinality(Stores(f)) + 1
    BY <1>3, <1>5, FS_AddElement
  <1> QED BY <1>3, <1>4, <1>6 DEF g

\* When the oldest operation ends the others move up.
LEMMA StoresTail ==
  ASSUME NEW f \in Seq(Operation), f # <<>>
  PROVE  /\ \A i \in DOMAIN Tail(f) : i + 1 \in DOMAIN f /\ Tail(f)[i] = f[i + 1]
         /\ \A i \in Stores(Tail(f)) : i + 1 \in Stores(f)
         /\ \A i \in Stores(f) \ {1} : i - 1 \in Stores(Tail(f)) /\ Tail(f)[i - 1] = f[i]
         /\ 1 \in DOMAIN f /\ f[1] = Head(f)
         /\ Head(f) \in Buffer =>
                Cardinality(Stores(f)) = Cardinality(Stores(Tail(f))) + 1
         /\ Head(f) \notin Buffer =>
                Cardinality(Stores(f)) = Cardinality(Stores(Tail(f)))
  <1> DEFINE g == Tail(f)
             R == Stores(f) \ {1}
             up == [i \in Stores(g) |-> i + 1]
  <1>1. /\ g \in Seq(Operation) /\ Len(f) \in Nat \ {0} /\ Len(g) = Len(f) - 1
        /\ DOMAIN f = 1 .. Len(f) /\ DOMAIN g = 1 .. Len(g)
        /\ \A i \in 1 .. Len(g) : g[i] = f[i + 1]
        /\ f[1] = Head(f)
    BY HeadTailProperties, LenProperties, EmptySeq
  <1> HIDE DEF g
  <1>2. \A i \in 1 .. Len(g) : i \in Stores(g) <=> i + 1 \in Stores(f)
    BY <1>1 DEF Stores
  <1>3. Stores(g) \subseteq 1 .. Len(g) /\ R \subseteq 2 .. Len(f)
    BY <1>1 DEF Stores
  <1>4. up \in Bijection(Stores(g), R)
    <2>1. up \in [Stores(g) -> R]
      BY <1>1, <1>2, <1>3
    <2>2. \A i, j \in Stores(g) : up[i] = up[j] => i = j
      BY <1>3
    <2>3. \A k \in R : \E i \in Stores(g) : up[i] = k
      <3> TAKE k \in R
      <3>1. k - 1 \in 1 .. Len(g) /\ (k - 1) + 1 = k
        BY <1>1, <1>3
      <3>2. k - 1 \in Stores(g)
        BY <1>2, <3>1
      <3>3. up[k - 1] = k
        BY <3>1, <3>2
      <3> QED BY <3>2, <3>3
    <2> QED BY <2>1, <2>2, <2>3 DEF Bijection, Injection, Surjection, IsInjective
  <1>5. IsFiniteSet(Stores(g)) /\ IsFiniteSet(Stores(f))
        /\ Cardinality(Stores(f)) \in Nat
    BY <1>1, StoresFinite
  <1>6. Cardinality(R) = Cardinality(Stores(g))
    BY <1>4, <1>5, FS_Bijection DEF ExistsBijection
  <1>7. Cardinality(R) = IF 1 \in Stores(f) THEN Cardinality(Stores(f)) - 1
                                            ELSE Cardinality(Stores(f))
    BY <1>5, FS_RemoveElement
  <1>8. 1 \in Stores(f) <=> Head(f) \in Buffer
    BY <1>1 DEF Stores
  <1>9. /\ Head(f) \in Buffer => Cardinality(Stores(f)) = Cardinality(Stores(g)) + 1
        /\ Head(f) \notin Buffer => Cardinality(Stores(f)) = Cardinality(Stores(g))
    BY <1>5, <1>6, <1>7, <1>8
  <1>10. \A i \in R : i - 1 \in Stores(g) /\ g[i - 1] = f[i]
    <2> TAKE i \in R
    <2>1. i - 1 \in 1 .. Len(g) /\ (i - 1) + 1 = i
      BY <1>1, <1>3
    <2> QED BY <1>1, <1>2, <2>1
  <1> QED BY <1>1, <1>2, <1>3, <1>9, <1>10 DEF g

-----------------------------------------------------------------------------
TransferInv == ReportIsRight /\ FlashInv /\ FinalInv

\* What the invariant says of the queue and of the numbers, for the proofs below.
LEMMA FlashFacts ==
  ASSUME DfuTypeOK
  PROVE  /\ bank.flash \in Seq(Operation) /\ bank.stored \in Nat /\ bank.failed \in Nat
         /\ IsFiniteSet(InFlash) /\ Cardinality(InFlash) \in Nat
         /\ InFlash \subseteq DOMAIN bank.flash /\ Len(bank.flash) \in Nat
         /\ DOMAIN bank.flash = 1 .. Len(bank.flash)
         /\ Accepted \in Nat
  <1>1. bank.flash \in Seq(Operation) /\ bank.stored \in Nat /\ bank.failed \in Nat
    BY FlashTypes DEF DfuTypeOK, Bank
  <1>2. IsFiniteSet(InFlash) /\ Cardinality(InFlash) \in Nat /\ InFlash \subseteq DOMAIN bank.flash
    BY <1>1, StoresFinite DEF InFlash, Stores
  <1>3. DOMAIN bank.flash = 1 .. Len(bank.flash) /\ Len(bank.flash) \in Nat
    BY <1>1, LenProperties
  <1> QED BY <1>1, <1>2, <1>3 DEF Accepted

\* A step that leaves the bank and what is said of the final packet alone.
LEMMA TransferKept ==
  ASSUME TransferInv, UNCHANGED bank,
         transport'.received = transport.received,
         transport'.finalPacket = transport.finalPacket,
         told'.complete = told.complete
  PROVE  TransferInv'
  BY DEF TransferInv, ReportIsRight, FlashInv, FinalInv, Accepted, Queued, InFlash, Stores

\* A step after which there is no transfer.
LEMMA TransferGone ==
  ASSUME bank' = BankIdle, told' = NothingTold,
         transport'.received = 0, transport'.finalPacket = Nothing
  PROVE  TransferInv'
  <1>1. Stores(<<>>) = {} /\ DOMAIN <<>> = {}
    BY DEF Stores
  <1>2. /\ bank'.flash = <<>> /\ bank'.used = {} /\ bank'.lost = {}
        /\ bank'.stored = 0 /\ bank'.failed = 0
    BY DEF BankIdle
  <1>3. InFlash' = {} /\ Accepted' = 0
    BY <1>1, <1>2, FS_EmptySet DEF InFlash, Accepted, Stores
  <1>4. ~told'.complete
    BY DEF NothingTold
  <1>5. Queued' = {}
    BY <1>3 DEF Queued
  <1> QED BY <1>1, <1>2, <1>3, <1>4, <1>5 DEF TransferInv, ReportIsRight, FlashInv, FinalInv

\* The transport gives up a buffer that no packet in the queue is in.
LEMMA TransferLost ==
  ASSUME DfuTypeOK, TransferInv, NEW b \in Buffer, DataPacketLost(b)
  PROVE  TransferInv'
  <1> USE DEF TransferInv
  <1>1. /\ b \notin bank.used
        /\ bank'.used = bank.used \union {b} /\ bank'.lost = bank.lost \union {b}
        /\ bank'.flash = bank.flash /\ bank'.state = bank.state /\ bank'.image = bank.image
        /\ bank'.stored = bank.stored /\ bank'.failed = bank.failed
        /\ UNCHANGED <<transport, told>>
    BY DEF DataPacketLost, DfuTypeOK, Bank
  <1>2. InFlash' = InFlash /\ Accepted' = Accepted /\ Queued' = Queued
    BY <1>1 DEF InFlash, Stores, Accepted, Queued
  <1>3. \A i \in InFlash : bank.flash[i] \in bank.used
    BY DEF FlashInv, Queued
  <1>4. FlashInv'
    <2>1. bank'.used = Queued' \union bank'.lost
      BY <1>1, <1>2 DEF FlashInv
    <2>2. \A i \in InFlash' : bank'.flash[i] \notin bank'.lost
      BY <1>1, <1>2, <1>3 DEF FlashInv
    <2> QED BY <1>1, <2>1, <2>2 DEF FlashInv
  <1>5. FinalInv'
    BY <1>1, <1>2 DEF FinalInv
  <1> QED BY <1>1, <1>2, <1>4, <1>5 DEF ReportIsRight

\* The bank accepts a packet.
LEMMA TransferStore ==
  ASSUME DfuTypeOK, TransferInv, NEW b \in Buffer, FinalPacket(b) \/ MorePackets(b)
  PROVE  TransferInv'
  <1> DEFINE f == bank.flash
             n == Len(bank.flash) + 1
  <1> USE DEF TransferInv
  <1>1. /\ b \notin bank.used /\ Accepted < bank.image /\ bank.state = "data"
        /\ bank'.used = bank.used \union {b} /\ bank'.flash = Append(f, b)
        /\ bank'.lost = bank.lost
        /\ bank'.stored = bank.stored /\ bank'.failed = bank.failed
        /\ bank'.image = bank.image /\ bank'.state = bank.state
    BY DEF FinalPacket, MorePackets, Store, DfuTypeOK, Bank
  <1>2. transport'.received = transport.received + 1
    BY DEF FinalPacket, MorePackets, DfuTypeOK, Transport
  <1>3. b \in Operation /\ b # "erase"
    BY DfuAssumption DEF Operation
  <1>4. InFlash' = InFlash \union {n} /\ Cardinality(InFlash') = Cardinality(InFlash) + 1
    <2>1. InFlash' = Stores(Append(f, b)) /\ InFlash = Stores(f)
      BY <1>1 DEF InFlash, Stores
    <2> QED BY <1>3, <2>1, FlashFacts, StoresAppend
  <1>5. Accepted' = Accepted + 1
    BY <1>1, <1>4, FlashFacts DEF Accepted
  <1>6. /\ DOMAIN bank'.flash = 1 .. n
        /\ \A i \in 1 .. Len(f) : bank'.flash[i] = f[i]
        /\ bank'.flash[n] = b
    <2>1. Append(f, b) \in Seq(Operation) /\ Len(Append(f, b)) = n
      BY <1>3, FlashFacts, AppendProperties
    <2>2. DOMAIN Append(f, b) = 1 .. n
      BY <2>1, LenProperties
    <2> QED BY <1>1, <1>3, <2>2, FlashFacts, AppendProperties
  <1>7. \A i \in DOMAIN f : f[i] # b
    BY <1>1 DEF FlashInv, Queued, InFlash, Stores
  <1> HIDE DEF f, n
  <1>8. n = Len(f) + 1 /\ Len(f) \in Nat /\ DOMAIN f = 1 .. Len(f) /\ f = bank.flash
    BY FlashFacts DEF f, n
  <1>9. FlashInv'
    <2>1. /\ \A i \in InFlash : bank'.flash[i] = bank.flash[i]
          /\ n \in InFlash' /\ bank'.flash[n] = b
      BY <1>4, <1>6, <1>8, FlashFacts
    <2>2. Queued' = Queued \union {b}
      BY <1>4, <2>1 DEF Queued
    <2>3. /\ bank'.used = Queued' \union bank'.lost
          /\ \A i \in InFlash' : bank'.flash[i] \notin bank'.lost
      BY <1>1, <1>4, <2>1, <2>2 DEF FlashInv
    <2>4. \A i, j \in DOMAIN bank'.flash :
             bank'.flash[i] = bank'.flash[j] /\ bank'.flash[i] # "settings" => i = j
      BY SMTT(30), <1>6, <1>7, <1>8 DEF FlashInv
    <2>5. \A i \in DOMAIN bank'.flash : bank'.flash[i] = "erase" => bank'.state = "erasing"
      BY <1>1, <1>3, <1>6, <1>8 DEF FlashInv
    <2> QED BY <2>3, <2>4, <2>5 DEF FlashInv
  <1>10. ~told'.complete
    BY SMTT(30), <1>1, FlashFacts DEF FinalInv, FinalPacket, MorePackets, DfuTypeOK
  <1>11. CASE FinalPacket(b)
    <2>1. transport'.finalPacket = b
      BY <1>11 DEF FinalPacket, DfuTypeOK, Transport
    <2>2. Accepted' = bank'.image
      BY <1>1, <1>5, <1>11 DEF FinalPacket
    <2>3. \A i, j \in InFlash' : bank'.flash[i] = b => j <= i
      <3>1. InFlash' \subseteq 1 .. n
        BY <1>4, <1>8, FlashFacts
      <3>2. \A i \in 1 .. n : bank'.flash[i] = b => i = n
        BY <1>6, <1>7, <1>8
      <3>3. SUFFICES ASSUME NEW i \in InFlash', NEW j \in InFlash', bank'.flash[i] = b
                     PROVE  j <= i
        OBVIOUS
      <3>4. i = n /\ j \in 1 .. n
        BY <3>1, <3>2, <3>3
      <3> QED BY <1>8, <3>4
    <2>4. FinalInv'
      BY <1>1, <1>10, <2>1, <2>2, <2>3 DEF FinalInv
    <2> QED BY <1>2, <1>5, <1>9, <2>4 DEF ReportIsRight
  <1>12. CASE MorePackets(b)
    <2>1. transport'.finalPacket = transport.finalPacket
      BY <1>12 DEF MorePackets, DfuTypeOK, Transport
    <2>2. transport.finalPacket = Nothing
      BY <1>1, FlashFacts DEF FinalInv
    <2>3. FinalInv'
      BY <1>1, <1>10, <2>1, <2>2 DEF FinalInv
    <2> QED BY <1>2, <1>5, <1>9, <2>3 DEF ReportIsRight
  <1> QED BY <1>11, <1>12

\* A new operation that is no store joins the queue.
LEMMA QueueAppend ==
  ASSUME DfuTypeOK, NEW o \in {"erase", "settings"},
         bank'.flash = Append(bank.flash, o),
         bank'.stored = bank.stored, bank'.failed = bank.failed
  PROVE  /\ InFlash' = InFlash /\ Accepted' = Accepted /\ Queued' = Queued
         /\ DOMAIN bank'.flash = 1 .. Len(bank.flash) + 1
         /\ \A i \in DOMAIN bank.flash : bank'.flash[i] = bank.flash[i]
         /\ bank'.flash[Len(bank.flash) + 1] = o
  <1> DEFINE f == bank.flash
  <1>1. o \in Operation /\ o \notin Buffer
    BY DfuAssumption DEF Operation
  <1>2. InFlash' = InFlash
    <2>1. InFlash' = Stores(Append(f, o)) /\ InFlash = Stores(f)
      BY DEF InFlash, Stores
    <2> QED BY <1>1, <2>1, FlashFacts, StoresAppend
  <1>3. Accepted' = Accepted
    BY <1>2 DEF Accepted
  <1>4. Append(f, o) \in Seq(Operation) /\ Len(Append(f, o)) = Len(f) + 1
    BY <1>1, FlashFacts, AppendProperties
  <1>5. DOMAIN Append(f, o) = 1 .. Len(f) + 1
    BY <1>4, LenProperties
  <1>6. /\ \A i \in DOMAIN f : Append(f, o)[i] = f[i]
        /\ Append(f, o)[Len(f) + 1] = o
    BY <1>1, FlashFacts, AppendProperties
  <1>7. Queued' = Queued
    BY <1>2, <1>6, FlashFacts DEF Queued
  <1> QED BY <1>2, <1>3, <1>5, <1>6, <1>7

\* A start packet has the flash erased.
LEMMA TransferStart ==
  ASSUME DfuTypeOK, TransferInv, NEW size \in ImageSizes, StartPacket(size)
  PROVE  TransferInv'
  <1> USE DEF TransferInv
  <1> DEFINE n == Len(bank.flash) + 1
  <1>1. /\ bank.state = "idle" /\ bank'.state = "erasing"
        /\ bank'.flash = Append(bank.flash, "erase")
        /\ bank'.used = bank.used /\ bank'.lost = bank.lost
        /\ bank'.stored = bank.stored /\ bank'.failed = bank.failed
        /\ UNCHANGED <<transport, told>>
    BY DEF StartPacket, DfuTypeOK, Bank
  <1>2. /\ InFlash' = InFlash /\ Accepted' = Accepted /\ Queued' = Queued
        /\ DOMAIN bank'.flash = 1 .. n
        /\ \A i \in DOMAIN bank.flash : bank'.flash[i] = bank.flash[i]
        /\ bank'.flash[n] = "erase"
    BY <1>1, QueueAppend
  <1>3. /\ DOMAIN bank.flash = 1 .. Len(bank.flash) /\ Len(bank.flash) \in Nat
        /\ InFlash \subseteq DOMAIN bank.flash
    BY FlashFacts
  <1>4. \A i \in DOMAIN bank.flash : bank.flash[i] # "erase"
    BY <1>1 DEF FlashInv
  <1>5. FlashInv'
    <2>1. /\ bank'.used = Queued' \union bank'.lost
          /\ \A i \in InFlash' : bank'.flash[i] \notin bank'.lost
      BY <1>1, <1>2, <1>3 DEF FlashInv
    <2>2. \A i, j \in DOMAIN bank'.flash :
             bank'.flash[i] = bank'.flash[j] /\ bank'.flash[i] # "settings" => i = j
      BY SMTT(30), <1>2, <1>3, <1>4 DEF FlashInv
    <2> QED BY <1>1, <1>2, <2>1, <2>2 DEF FlashInv
  <1>6. ReportIsRight'
    BY <1>1, <1>2 DEF ReportIsRight
  <1>7. FinalInv'
    BY <1>1, <1>2 DEF FinalInv
  <1> QED BY <1>5, <1>6, <1>7

\* An activation has the settings written.
LEMMA TransferActivate ==
  ASSUME DfuTypeOK, TransferInv, ActivateAndReset
  PROVE  TransferInv'
  <1> USE DEF TransferInv
  <1> DEFINE n == Len(bank.flash) + 1
  <1>0. /\ bank.state = "valid" /\ UNCHANGED told
        /\ transport'.received = transport.received
        /\ transport'.finalPacket = transport.finalPacket
    BY DEF ActivateAndReset, Close, Set, DfuTypeOK, Transport
  <1>1. CASE ~radio.linkUp
    <2>1. UNCHANGED bank
      BY <1>1 DEF ActivateAndReset
    <2> QED BY <1>0, <2>1, TransferKept
  <1>2. CASE radio.linkUp
    <2>1. /\ bank'.state = bank.state /\ bank'.image = bank.image
          /\ bank'.flash = Append(bank.flash, "settings")
          /\ bank'.used = bank.used /\ bank'.lost = bank.lost
          /\ bank'.stored = bank.stored /\ bank'.failed = bank.failed
      BY <1>2 DEF ActivateAndReset, DfuTypeOK, Bank
    <2>2. /\ InFlash' = InFlash /\ Accepted' = Accepted /\ Queued' = Queued
          /\ DOMAIN bank'.flash = 1 .. n
          /\ \A i \in DOMAIN bank.flash : bank'.flash[i] = bank.flash[i]
          /\ bank'.flash[n] = "settings"
      BY <2>1, QueueAppend
    <2>3. /\ DOMAIN bank.flash = 1 .. Len(bank.flash) /\ Len(bank.flash) \in Nat
          /\ InFlash \subseteq DOMAIN bank.flash
      BY FlashFacts
    <2>4. /\ bank'.used = Queued' \union bank'.lost
          /\ \A i \in InFlash' :
                 bank'.flash[i] \notin bank'.lost /\ bank'.flash[i] = bank.flash[i]
      BY <2>1, <2>2, <2>3 DEF FlashInv
    <2>5. \A i, j \in DOMAIN bank'.flash :
             bank'.flash[i] = bank'.flash[j] /\ bank'.flash[i] # "settings" => i = j
      BY <2>2, <2>3 DEF FlashInv
    <2>6. \A i \in DOMAIN bank'.flash : bank'.flash[i] # "erase"
      BY <1>0, <2>2, <2>3 DEF FlashInv
    <2>7. FlashInv'
      BY <2>1, <2>2, <2>4, <2>5, <2>6 DEF FlashInv
    <2>8. ReportIsRight'
      BY <1>0, <2>2 DEF ReportIsRight
    <2>9. FinalInv'
      BY <1>0, <2>1, <2>2, <2>4 DEF FinalInv
    <2> QED BY <2>7, <2>8, <2>9
  <1> QED BY <1>1, <1>2

\* A step of the bank that only moves its state on.
LEMMA TransferMoves ==
  ASSUME DfuTypeOK, TransferInv,
         bank'.flash = bank.flash, bank'.used = bank.used, bank'.lost = bank.lost,
         bank'.image = bank.image,
         bank'.stored = bank.stored, bank'.failed = bank.failed,
         bank.state # "erasing",
         bank.state \in {"data", "valid"} => bank'.state \in {"data", "valid"},
         transport'.received = transport.received,
         transport'.finalPacket = transport.finalPacket,
         told'.complete = told.complete
  PROVE  TransferInv'
  <1> USE DEF TransferInv
  <1>1. InFlash' = InFlash /\ Accepted' = Accepted /\ Queued' = Queued
    BY DEF InFlash, Stores, Accepted, Queued
  <1>2. \A i \in DOMAIN bank.flash : bank.flash[i] # "erase"
    BY DEF FlashInv
  <1>3. FlashInv'
    BY <1>1, <1>2 DEF FlashInv
  <1>4. FinalInv'
    BY <1>1 DEF FinalInv
  <1> QED BY <1>1, <1>3, <1>4 DEF ReportIsRight

\* The oldest operation leaves the queue.
LEMMA QueueTail ==
  ASSUME DfuTypeOK, FlashInv, bank.flash # <<>>, bank'.flash = Tail(bank.flash)
  PROVE  /\ \A i \in DOMAIN bank'.flash :
               i \in Nat /\ i > 0 /\ i + 1 \in DOMAIN bank.flash
               /\ bank'.flash[i] = bank.flash[i + 1]
         /\ \A i \in InFlash' : i \in DOMAIN bank'.flash /\ i + 1 \in InFlash
         /\ \A i, j \in DOMAIN bank'.flash :
               bank'.flash[i] = bank'.flash[j] /\ bank'.flash[i] # "settings" => i = j
         /\ \A i \in DOMAIN bank'.flash :
               bank'.flash[i] = Head(bank.flash) => Head(bank.flash) = "settings"
         /\ 1 \in DOMAIN bank.flash /\ bank.flash[1] = Head(bank.flash)
         /\ Cardinality(InFlash') \in Nat
         /\ Head(bank.flash) \in Buffer =>
                1 \in InFlash /\ Cardinality(InFlash) = Cardinality(InFlash') + 1
         /\ Head(bank.flash) \notin Buffer => Cardinality(InFlash) = Cardinality(InFlash')
         /\ Queued = Queued' \union ({Head(bank.flash)} \intersect Buffer)
  <1> DEFINE f == bank.flash
             g == Tail(bank.flash)
  <1>1. f \in Seq(Operation) /\ g \in Seq(Operation)
    BY FlashFacts, FlashTypes DEF DfuTypeOK
  <1>2. InFlash = Stores(f) /\ InFlash' = Stores(g)
    BY DEF InFlash, Stores
  <1>3. DOMAIN g = 1 .. Len(g) /\ Len(g) \in Nat
    BY <1>1, LenProperties
  <1>4. \A i \in DOMAIN g : i \in Nat /\ i > 0 /\ i + 1 \in DOMAIN f /\ g[i] = f[i + 1]
    BY <1>1, <1>3, StoresTail
  <1>5. \A i \in Stores(g) : i \in DOMAIN g /\ i + 1 \in Stores(f)
    BY <1>1, StoresTail DEF Stores
  <1>6. 1 \in DOMAIN f /\ f[1] = Head(f)
    BY <1>1, StoresTail
  <1>7. Cardinality(Stores(g)) \in Nat
    BY <1>1, StoresFinite
  <1>8. /\ Head(f) \in Buffer =>
               1 \in Stores(f) /\ Cardinality(Stores(f)) = Cardinality(Stores(g)) + 1
        /\ Head(f) \notin Buffer => Cardinality(Stores(f)) = Cardinality(Stores(g))
    BY <1>1, <1>6, StoresTail DEF Stores
  <1>9. \A i, j \in DOMAIN g : g[i] = g[j] /\ g[i] # "settings" => i = j
    <2> TAKE i, j \in DOMAIN g
    <2>1. f[i + 1] = f[j + 1] /\ f[i + 1] # "settings" => i + 1 = j + 1
      BY <1>4 DEF FlashInv
    <2> QED BY <1>4, <2>1
  <1>10. \A i \in DOMAIN g : g[i] = Head(f) => Head(f) = "settings"
    <2> TAKE i \in DOMAIN g
    <2>1. f[i + 1] = f[1] /\ f[1] # "settings" => i + 1 = 1
      BY <1>4, <1>6 DEF FlashInv
    <2> QED BY <1>4, <1>6, <2>1
  <1>12. {f[i] : i \in Stores(f)} = {g[i] : i \in Stores(g)} \union ({Head(f)} \intersect Buffer)
    <2>1. /\ \A i \in Stores(f) \ {1} : i - 1 \in Stores(g) /\ g[i - 1] = f[i]
          /\ \A i \in Stores(g) : i + 1 \in Stores(f) /\ f[i + 1] = g[i]
      BY <1>1, <1>4, <1>5, StoresTail
    <2>2. 1 \in Stores(f) <=> Head(f) \in Buffer
      BY <1>6 DEF Stores
    <2> HIDE DEF f, g
    <2> QED BY <1>6, <2>1, <2>2
  <1>13. Queued = {f[i] : i \in Stores(f)} /\ Queued' = {g[i] : i \in Stores(g)}
    BY DEF Queued, InFlash, Stores
  <1> HIDE DEF f, g
  <1>11. f = bank.flash /\ g = bank'.flash
    BY DEF f, g
  <1> QED BY <1>2, <1>4, <1>5, <1>6, <1>7, <1>8, <1>9, <1>10, <1>11, <1>12, <1>13

\* The end of an erase or of the writing of the settings.
LEMMA TransferOther ==
  ASSUME DfuTypeOK, TransferInv, Erased \/ Activated
  PROVE  TransferInv'
  <1> USE DEF TransferInv
  <1>1. /\ bank.flash # <<>> /\ bank'.flash = Tail(bank.flash)
        /\ Head(bank.flash) \in {"erase", "settings"}
        /\ bank'.used = bank.used /\ bank'.lost = bank.lost
        /\ bank'.stored = bank.stored /\ bank'.failed = bank.failed
        /\ bank'.image = bank.image /\ UNCHANGED <<transport, told>>
        /\ Head(bank.flash) = "erase" => bank'.state = "ready"
        /\ Head(bank.flash) = "settings" => bank'.state = bank.state
    BY DEF Erased, Activated, Done, DfuTypeOK, Bank
  <1>2. Head(bank.flash) \notin Buffer
    BY <1>1, DfuAssumption
  <1>3. Accepted' = Accepted
    BY <1>1, <1>2, QueueTail DEF Accepted
  <1>4. \A i \in InFlash' : i \in DOMAIN bank'.flash /\ i \in Nat
                           /\ i + 1 \in InFlash /\ bank'.flash[i] = bank.flash[i + 1]
    BY <1>1, QueueTail
  <1>5. Head(bank.flash) = "erase" => bank.state = "erasing"
    BY <1>1, QueueTail DEF FlashInv
  <1>6. \A i \in DOMAIN bank'.flash : bank'.flash[i] = "erase" => bank'.state = "erasing"
    BY <1>1, QueueTail DEF FlashInv
  <1>7. FlashInv'
    <2>1. bank'.used = Queued' \union bank'.lost
      BY <1>1, <1>2, QueueTail DEF FlashInv
    <2>2. \A i \in InFlash' : bank'.flash[i] \notin bank'.lost
      BY <1>1, <1>4 DEF FlashInv
    <2> QED BY <1>1, <1>6, <2>1, <2>2, QueueTail DEF FlashInv
  <1>8. FinalInv'
    <2>1. transport.finalPacket # Nothing =>
            \A i, j \in InFlash' : bank'.flash[i] = transport.finalPacket => j <= i
      <3> SUFFICES ASSUME transport.finalPacket # Nothing,
                          NEW i \in InFlash', NEW j \in InFlash',
                          bank'.flash[i] = transport.finalPacket
                   PROVE  j <= i
        OBVIOUS
      <3>1. i + 1 \in InFlash /\ j + 1 \in InFlash /\ bank.flash[i + 1] = transport.finalPacket
            /\ i \in Nat /\ j \in Nat
        BY <1>4
      <3>2. j + 1 <= i + 1
        BY <3>1 DEF FinalInv
      <3> QED BY <3>1, <3>2
    <2>2. told.complete => InFlash' = {}
      BY <1>4 DEF FinalInv
    <2>3. bank'.state \notin {"data", "valid"} => bank.state \notin {"data", "valid"}
      BY <1>1, <1>5
    <2> QED BY <1>1, <1>3, <2>1, <2>2, <2>3 DEF FinalInv
  <1> QED BY <1>1, <1>3, <1>7, <1>8 DEF ReportIsRight

\* The end of a store, in the image or lost: the final packet is the last to end.
LEMMA TransferStored ==
  ASSUME DfuTypeOK, TransferInv, NEW b \in Buffer, Stored(b) \/ StoreFailed(b)
  PROVE  TransferInv'
  <1> USE DEF TransferInv
  <1>1. /\ bank.flash # <<>> /\ bank'.flash = Tail(bank.flash) /\ Head(bank.flash) = b
        /\ bank'.image = bank.image /\ bank'.state = bank.state
        /\ UNCHANGED transport
    BY DEF Stored, StoreFailed, Done, DfuTypeOK, Bank
  <1>2. /\ 1 \in InFlash /\ bank.flash[1] = b
        /\ Cardinality(InFlash) = Cardinality(InFlash') + 1 /\ Cardinality(InFlash') \in Nat
    BY <1>1, QueueTail
  <1>3. b \in bank.used /\ b \notin {"erase", "settings"} /\ b # Nothing
    BY <1>2, DfuAssumption DEF FlashInv, Queued
  <1>4. \A i \in InFlash' : i \in DOMAIN bank'.flash /\ i \in Nat /\ i > 0
                           /\ i + 1 \in InFlash /\ bank'.flash[i] = bank.flash[i + 1]
    BY <1>1, QueueTail
  <1>5. \A i \in DOMAIN bank'.flash : bank'.flash[i] # b
    BY <1>1, <1>3, QueueTail
  <1>6. \/ bank'.used = bank.used \ {b} /\ bank'.lost = bank.lost
           /\ bank'.stored = bank.stored + 1 /\ bank'.failed = bank.failed
        \/ bank'.used = bank.used /\ bank'.lost = bank.lost \union {b}
           /\ bank'.stored = bank.stored /\ bank'.failed = bank.failed + 1
    BY DEF Stored, StoreFailed, DfuTypeOK, Bank
  <1>0. /\ bank.stored \in Nat /\ bank.failed \in Nat /\ Cardinality(InFlash) \in Nat
        /\ Cardinality(InFlash') \in Nat /\ Cardinality(InFlash) = Cardinality(InFlash') + 1
    BY <1>2, FlashFacts
  <1>7. Accepted' = Accepted /\ Accepted > 0
    <2>1. /\ Accepted = bank.stored + bank.failed + Cardinality(InFlash)
          /\ Accepted' = bank'.stored + bank'.failed + Cardinality(InFlash')
      BY DEF Accepted
    <2>2. CASE bank'.stored = bank.stored + 1 /\ bank'.failed = bank.failed
      BY <1>0, <2>1, <2>2
    <2>3. CASE bank'.stored = bank.stored /\ bank'.failed = bank.failed + 1
      BY <1>0, <2>1, <2>3
    <2> QED BY <1>6, <2>2, <2>3
  <1>8. bank.state \in {"data", "valid"}
    BY <1>7, FlashFacts DEF FinalInv
  <1>9. FlashInv'
    <2>1. Queued = Queued' \union {b}
      BY <1>1, QueueTail
    <2>2. b \notin Queued' /\ b \notin bank.lost
      BY <1>2, <1>4, <1>5 DEF FlashInv, Queued
    <2>3. /\ bank'.used = Queued' \union bank'.lost
          /\ \A i \in InFlash' : bank'.flash[i] \notin bank'.lost
      <3>1. bank'.used = Queued' \union bank'.lost
        BY <1>6, <2>1, <2>2 DEF FlashInv
      <3>2. \A i \in InFlash' : bank'.flash[i] \notin bank.lost /\ bank'.flash[i] # b
        BY <1>4, <1>5 DEF FlashInv
      <3> QED BY <1>6, <3>1, <3>2
    <2>4. \A i \in DOMAIN bank'.flash : bank'.flash[i] # "erase"
      BY <1>1, <1>8, QueueTail DEF FlashInv
    <2> QED BY <1>1, <2>3, <2>4, QueueTail DEF FlashInv
  <1>10. ~told.complete
    BY <1>2 DEF FinalInv
  <1>11. told'.complete => transport.finalPacket = b
    BY <1>10 DEF Stored, StoreFailed
  <1>12. transport.finalPacket # Nothing =>
            \A i, j \in InFlash' : bank'.flash[i] = transport.finalPacket => j <= i
    <2> SUFFICES ASSUME transport.finalPacket # Nothing,
                        NEW i \in InFlash', NEW j \in InFlash',
                        bank'.flash[i] = transport.finalPacket
                 PROVE  j <= i
      OBVIOUS
    <2>1. i + 1 \in InFlash /\ j + 1 \in InFlash /\ bank.flash[i + 1] = transport.finalPacket
          /\ i \in Nat /\ j \in Nat
      BY <1>4
    <2>2. j + 1 <= i + 1
      BY <2>1 DEF FinalInv
    <2> QED BY <2>1, <2>2
  <1>13. transport.finalPacket = b => InFlash' = {}
    <2> SUFFICES ASSUME transport.finalPacket = b, NEW i \in InFlash' PROVE FALSE
      OBVIOUS
    <2>1. i + 1 <= 1
      BY <1>2, <1>3, <1>4 DEF FinalInv
    <2> QED BY <1>4, <2>1
  <1>14. FinalInv'
    BY <1>1, <1>3, <1>7, <1>8, <1>11, <1>12, <1>13 DEF FinalInv
  <1> QED BY <1>1, <1>7, <1>9, <1>14 DEF ReportIsRight

\* Every step keeps the numbers, the buffers and the final packet in line with the
\* flash's queue.
LEMMA TransferStep ==
  ASSUME DfuTypeOK, OffInv, TransferInv, [Next]_vars
  PROVE  TransferInv'
  <1> USE DEF DfuTypeOK, Transport
  <1>1. CASE Boot
    <2>1. bank' = BankIdle /\ told' = NothingTold
      BY <1>1 DEF Boot, OffInv
    <2>2. CASE resetFlag \/ ~appValid
      <3>1. transport'.received = 0 /\ transport'.finalPacket = Nothing
        BY <1>1, <2>2 DEF Boot, UpdateStart, Idle
      <3> QED BY <2>1, <3>1, TransferGone
    <2>3. CASE ~(resetFlag \/ ~appValid)
      BY <1>1, <2>3, TransferKept DEF Boot
    <2> QED BY <2>2, <2>3
  <1>2. CASE Leave \/ ErrorReset \/ AppEntersDfu \/ PowerCycle
    <2>1. bank' = BankIdle /\ told' = NothingTold /\ transport' = Idle("none")
      BY <1>2 DEF Leave, ErrorReset, AppEntersDfu, PowerCycle, Cleared
    <2>2. transport'.received = 0 /\ transport'.finalPacket = Nothing
      BY <2>1 DEF Idle
    <2> QED BY <2>1, <2>2, TransferGone
  <1>3. CASE StartCommand \/ AppCommand \/ InitCommand
    BY <1>3, TransferKept DEF StartCommand, AppCommand, InitCommand, Set
  <1>4. CASE InitComplete
    <2>1. transport'.received = transport.received
          /\ transport'.finalPacket = transport.finalPacket /\ UNCHANGED told
      BY <1>4 DEF InitComplete, Set
    <2>2. CASE UNCHANGED bank
      BY <2>1, <2>2, TransferKept
    <2>3. CASE bank.state = "init" /\ bank' = [bank EXCEPT !.state = "data"]
      BY <2>1, <2>3, TransferMoves DEF Bank
    <2> QED BY <1>4, <2>2, <2>3 DEF InitComplete
  <1>5. CASE Validate
    <2>1. CASE UNCHANGED bank
      BY <1>5, <2>1, TransferKept DEF Validate
    <2>2. CASE bank.state = "data" /\ bank' = [bank EXCEPT !.state = "valid"]
      BY <1>5, <2>2, TransferMoves DEF Validate, Bank
    <2> QED BY <1>5, <2>1, <2>2 DEF Validate
  <1>6. CASE BytesReport \/ StackRequest
    BY <1>6, TransferKept DEF BytesReport, StackRequest
  <1>7. ASSUME NEW n \in NoticeTargets, EnableNotices(n) PROVE TransferInv'
    BY <1>7, TransferKept DEF EnableNotices
  <1>8. CASE DisableNotices
    BY <1>8, TransferKept DEF DisableNotices
  <1>9. CASE SysReset
    BY <1>9, TransferKept DEF SysReset, Close, Set
  <1>10. CASE ActivateAndReset
    BY <1>10, TransferActivate
  <1>11. CASE StartPacketRefused \/ InitPacketRefused \/ DataPacketRefused
    BY <1>11, TransferKept DEF StartPacketRefused, InitPacketRefused, DataPacketRefused
  <1>23. ASSUME NEW b \in Buffer, DataPacketLost(b) PROVE TransferInv'
    BY <1>23, TransferLost
  <1>12. CASE InitPacket
    BY <1>12, TransferMoves DEF InitPacket, Bank
  <1>13. ASSUME NEW size \in ImageSizes, StartPacket(size) PROVE TransferInv'
    BY <1>13, TransferStart
  <1>14. ASSUME NEW b \in Buffer, FinalPacket(b) \/ MorePackets(b) PROVE TransferInv'
    BY <1>14, TransferStore
  <1>15. CASE Erased \/ Activated
    BY <1>15, TransferOther
  <1>16. ASSUME NEW b \in Buffer, Stored(b) \/ StoreFailed(b) PROVE TransferInv'
    BY <1>16, TransferStored
  <1>17. CASE Connected
    BY <1>17, TransferKept DEF Connected
  <1>18. CASE Disconnected
    BY <1>18, TransferKept DEF Disconnected, Advertise
  <1>19. CASE AdvTimeout
    BY <1>19, TransferKept DEF AdvTimeout, Advertise
  <1>20. CASE PeerConnects \/ LinkLoss \/ NobodyConnects
    BY <1>20, TransferKept DEF PeerConnects, LinkLoss, NobodyConnects, Air
  <1>21. CASE GattsTimeout
    BY <1>21, TransferKept DEF GattsTimeout
  <1>22. CASE UNCHANGED vars
    BY <1>22, TransferKept DEF vars
  <1> QED BY <1>1, <1>2, <1>3, <1>4, <1>5, <1>6, <1>7, <1>8, <1>9, <1>10, <1>11, <1>12, <1>13, <1>14, <1>15, <1>16, <1>17, <1>18, <1>19, <1>20, <1>21, <1>22, <1>23
    DEF Next, Commands, Packets, FlashCallback, GapEvent, Environment, ActivateNothing

-----------------------------------------------------------------------------
(***************************************************************************)
(* What stops the bootloader.                                              *)
(***************************************************************************)
\* A step into the error handler leaves the link as it was; it handles a command, or a
\* failed store, of a link that has gone, or the end of an erase or of the last store.
OffLink ==
    /\ UNCHANGED radio
    /\ IF transport.conn THEN ~radio.linkUp ELSE Done("erase") \/ Done(transport.finalPacket)

\* The other checks succeed: FlashInv has the buffer that is to be consumed in use, and
\* RadioInv has the handle, and the radio silent, when a GAP event is handled.
LEMMA StopStep ==
  ASSUME DfuTypeOK, RadioInv, FlashInv, [Next]_vars, phase # "fault", phase' = "fault"
  PROVE  OffLink
  <1> USE DEF OffLink, Command, OnLink, Respond, HangUp, bootVars
  <1>1. CASE Boot \/ Leave \/ ErrorReset \/ AppEntersDfu \/ PowerCycle
    BY <1>1 DEF Boot, UpdateStart, Leave, ErrorReset, AppEntersDfu, PowerCycle
  <1>2. CASE StartCommand \/ AppCommand \/ InitCommand \/ DisableNotices
    BY <1>2 DEF StartCommand, AppCommand, InitCommand, DisableNotices
  <1>3. ASSUME NEW n \in NoticeTargets, EnableNotices(n) PROVE OffLink
    BY <1>3 DEF EnableNotices
  <1>4. CASE InitComplete \/ BytesReport \/ StackRequest \/ Validate
    BY <1>4 DEF InitComplete, BytesReport, StackRequest, Validate
  <1>5. CASE SysReset \/ ActivateAndReset \/ GattsTimeout
    BY <1>5 DEF SysReset, ActivateAndReset, GattsTimeout, Close
  <1>6. CASE StartPacketRefused \/ InitPacketRefused \/ DataPacketRefused
    BY <1>6 DEF StartPacketRefused, InitPacketRefused, DataPacketRefused, Packet
  <1>7. CASE InitPacket \/ \E size \in ImageSizes : StartPacket(size)
    BY <1>7 DEF InitPacket, StartPacket
  <1>8. ASSUME NEW b \in Buffer, DataPacketLost(b) PROVE OffLink
    BY <1>8 DEF DataPacketLost, Packet
  <1>9. ASSUME NEW b \in Buffer, FinalPacket(b) PROVE OffLink
    BY <1>9 DEF FinalPacket
  <1>10. ASSUME NEW b \in Buffer, MorePackets(b) PROVE OffLink
    BY <1>10 DEF MorePackets, Store, Packet
  <1>11. CASE Erased
    BY <1>11 DEF Erased
  <1>12. CASE Activated
    BY <1>12 DEF Activated
  <1>13. ASSUME NEW b \in Buffer, Stored(b) PROVE OffLink
    <2>1. Done(b) /\ UNCHANGED radio
      BY <1>13 DEF Stored
    <2>2. b \in bank.used
      <3>1. bank.flash # <<>> /\ Head(bank.flash) = b
        BY <2>1 DEF Done
      <3>2. bank.flash[1] = b /\ 1 \in DOMAIN bank.flash
        BY <3>1, FlashFacts, StoresTail
      <3> QED BY <3>2 DEF FlashInv, Queued, InFlash, Stores
    <2>3. transport.finalPacket = b /\ ~OnLink
      BY <1>13, <2>2 DEF Stored
    <2> QED BY <2>1, <2>3
  <1>14. ASSUME NEW b \in Buffer, StoreFailed(b) PROVE OffLink
    BY <1>14 DEF StoreFailed
  <1>15. CASE Connected
    BY <1>15 DEF Connected
  <1>16. CASE Disconnected
    <2>1. transport.conn /\ ~radio.linkUp /\ ~radio.onAir
      BY <1>16, QueueFacts DEF Disconnected, Event, RadioInv
    <2> QED BY <1>16, <2>1 DEF Disconnected, Advertise
  <1>17. CASE AdvTimeout
    <2>1. ~radio.linkUp /\ ~radio.onAir
      BY <1>17, QueueFacts DEF AdvTimeout, Event, RadioInv
    <2> QED BY <1>17, <2>1 DEF AdvTimeout, Advertise
  <1>18. CASE PeerConnects \/ LinkLoss \/ NobodyConnects
    BY <1>18 DEF PeerConnects, LinkLoss, NobodyConnects, Air
  <1>19. CASE UNCHANGED vars
    BY <1>19 DEF vars
  <1> QED BY <1>1, <1>2, <1>3, <1>4, <1>5, <1>6, <1>7, <1>8, <1>9, <1>10, <1>11, <1>12, <1>13, <1>14, <1>15, <1>16, <1>17, <1>18, <1>19
    DEF Next, Commands, Packets, FlashCallback, GapEvent, Environment, ActivateNothing

-----------------------------------------------------------------------------
(***************************************************************************)
(* The invariant, and what follows from it.                                *)
(***************************************************************************)
\* The invariant holds after power-up,
LEMMA InitInv == Init => IInv
  <1> SUFFICES ASSUME Init PROVE IInv
    OBVIOUS
  <1> USE DEF Init
  <1>1. DfuTypeOK
    BY RestTypes DEF DfuTypeOK
  <1>2. OffInv
    BY DEF OffInv
  <1>3. RadioInv
    BY OffFacts DEF RadioInv
  <1>4. DirectInv /\ NoticeInv
    BY DfuAssumption DEF DirectInv, NoticeInv, Idle
  <1>5. ReportIsRight /\ FlashInv /\ FinalInv
    <2>1. Stores(<<>>) = {} /\ DOMAIN <<>> = {}
      BY DEF Stores
    <2>2. /\ bank.flash = <<>> /\ bank.used = {} /\ bank.lost = {}
          /\ bank.stored = 0 /\ bank.failed = 0
          /\ transport.received = 0 /\ transport.finalPacket = Nothing /\ ~told.complete
      <3>1. bank = BankIdle /\ transport = Idle("none") /\ told = NothingTold
        OBVIOUS
      <3> QED BY <3>1 DEF BankIdle, Idle, NothingTold
    <2>3. InFlash = {} /\ Accepted = 0
      <3>1. InFlash = {}
        BY <2>2 DEF InFlash, Stores
      <3> QED BY <2>2, <3>1, FS_EmptySet DEF Accepted
    <2>4. Queued = {}
      BY <2>3 DEF Queued
    <2> QED BY <2>1, <2>2, <2>3, <2>4 DEF ReportIsRight, FlashInv, FinalInv
  <1> QED BY <1>1, <1>2, <1>3, <1>4, <1>5 DEF IInv

\* every step keeps it,
LEMMA StepInv == IInv /\ [Next]_vars => IInv'
  <1> SUFFICES ASSUME IInv, [Next]_vars PROVE IInv'
    OBVIOUS
  <1>1. DfuTypeOK'
    BY TypeStep DEF IInv
  <1>2. RadioInv'
    BY RadioStep DEF IInv
  <1>3. DirectInv' /\ NoticeInv' /\ OffInv'
    BY DirectStep, NoticeStep, OffStep DEF IInv
  <1>4. TransferInv'
    BY TransferStep DEF IInv, TransferInv
  <1> QED BY <1>1, <1>2, <1>3, <1>4 DEF IInv, TransferInv

\* and so it holds in every state.
LEMMA Inductive == Spec => []IInv
  BY InitInv, StepInv, PTL DEF Spec

\* The static variables, the locals of main and the model of what is external keep
\* their types in every run: the count of directed advertisements does not fall
\* below zero, nor that of the packets until a notification.
THEOREM DfuTypeCorrect == Spec => []DfuTypeOK
  <1>1. IInv => DfuTypeOK
    BY DEF IInv
  <1> QED BY <1>1, Inductive, PTL

\* For every pool, every image and every order of commands, packets, flash callbacks
\* and GAP events, the error handler runs only for a call made after the link has gone:
\* no buffer is consumed twice, no GAP event finds its handle gone or the radio busy.
THEOREM OnlyLossesStopIt == Spec => OnlyLossesStop
  <1>1. IInv /\ [Next]_vars => (phase # "fault" /\ phase' = "fault" => OffLink)
    BY StopStep DEF IInv
  <1>2. IInv /\ [Next]_vars =>
          [phase # "fault" /\ phase' = "fault" =>
               /\ UNCHANGED radio
               /\ IF transport.conn THEN ~radio.linkUp
                  ELSE Done("erase") \/ Done(transport.finalPacket)]_vars
    BY <1>1 DEF OffLink
  <1> QED BY <1>2, Inductive, PTL DEF Spec, OnlyLossesStop

\* Losses of the link, time-outs of the directed advertising and their reconnections
\* never leave a running bootloader without link and unreachable, nor on the air
\* once its transport is closed.
THEOREM AlwaysReachable == Spec => []OnAirWhenAlone
  <1>1. IInv => OnAirWhenAlone
    BY DEF IInv, DfuTypeOK, Radio, Transport, RadioInv, OnAirWhenAlone
  <1> QED BY <1>1, Inductive, PTL

\* For a pool of any size, a buffer that is not free is one the flash works on, once, or
\* one given up where the transport ends without consuming it.
THEOREM NoBufferLost == Spec => []BuffersComeBack
  <1>1. ASSUME IInv PROVE BuffersComeBack
    <2>1. \A i \in InFlash : i \in DOMAIN bank.flash /\ bank.flash[i] # "settings"
      BY DfuAssumption DEF InFlash, Stores
    <2> QED BY <1>1, <2>1 DEF IInv, FlashInv, Queued, BuffersComeBack
  <1>2. IInv => BuffersComeBack
    BY <1>1
  <1> QED BY <1>2, Inductive, PTL

\* The number of bytes that a receipt notification or a report carries is that of
\* the bytes the bank took, for images of any size.
THEOREM ReportsAreRight == Spec => []ReportIsRight
  <1>1. IInv => ReportIsRight
    BY DEF IInv
  <1> QED BY <1>1, Inductive, PTL

\* For every number of packets that a controller may ask a notification for, at most
\* that many go without one.
THEOREM NoticesAreOnTime == Spec => []NoticeOnTime
  <1>1. ASSUME IInv PROVE NoticeOnTime
    <2> SUFFICES ASSUME transport.notices PROVE told.sinceNotice < transport.target
      BY DEF NoticeOnTime
    <2>1. /\ transport.count \in Nat /\ transport.count > 0 /\ told.sinceNotice \in Nat
          /\ told.sinceNotice + transport.count = transport.target
      BY <1>1 DEF IInv, DfuTypeOK, Transport, NoticeInv
    <2> QED BY <2>1
  <1>2. IInv => NoticeOnTime
    BY <1>1
  <1> QED BY <1>2, Inductive, PTL

\* The controller is told of success after the last of the stores, not after the
\* last of the packets, in images of any size and with any pool: the flash ends its
\* operations in order, so that the final packet's is the last.
THEOREM SuccessIsReal == Spec => []SuccessMeansStored
  <1>1. ASSUME IInv PROVE SuccessMeansStored
    <2> SUFFICES ASSUME told.complete, bank.failed = 0
                 PROVE  bank.stored = bank.image /\ InFlash = {}
      BY DEF SuccessMeansStored
    <2>1. InFlash = {} /\ Accepted = bank.image
      BY <1>1 DEF IInv, FinalInv
    <2>2. bank.stored \in Nat /\ Cardinality(InFlash) = 0
      BY <1>1, <2>1, FlashFacts, FS_EmptySet DEF IInv
    <2> QED BY <2>1, <2>2 DEF Accepted
  <1>2. IInv => SuccessMeansStored
    BY <1>1
  <1> QED BY <1>2, Inductive, PTL
=============================================================================
