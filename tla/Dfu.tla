-------------------------------- MODULE Dfu ---------------------------------
(***************************************************************************)
(* The bootloader: its main (src/Bootloader/main.c), its BLE transport      *)
(* (dfu_transport_ble_custom.c) and the peer data an application leaves it  *)
(* (dfu_ble_svc.c), against a controller that may send any command at any   *)
(* time, a link that may be lost and a flash that answers later.            *)
(*                                                                          *)
(* Everything runs from the scheduler (main.c:128), one handler after the   *)
(* other; what races is the order of commands, flash callbacks and GAP      *)
(* events.  A command may be handled after the link it came by has gone,    *)
(* until DISCONNECTED is.  External: the SoftDevice, and the SDK's service, *)
(* bank, flash queue, buffer pool and settings, by what the code here asks  *)
(* of them.  Bytes are counted in packets; images are applications.         *)
(***************************************************************************)
EXTENDS Naturals, Sequences, FiniteSets

CONSTANTS
    Buffer,         \* the buffers of the pool
    Nothing,        \* no buffer
    ImageSizes,     \* the sizes an image may have
    NoticeTargets,  \* the packets per receipt notification that may be asked for
    DirectLimit     \* APP_DIRECTED_ADV_TIMEOUT

\* The service that decodes the commands turns a target of zero into a DISABLED.
ASSUME DfuAssumption ==
    /\ Nothing \notin Buffer /\ {"erase", "settings"} \intersect Buffer = {}
    /\ ImageSizes \subseteq Nat \ {0}
    /\ NoticeTargets \subseteq Nat \ {0}
    /\ DirectLimit \in Nat \ {0}

VARIABLES
    transport,  \* the static variables of dfu_transport_ble_custom.c
    phase,      \* where main is; a failed APP_ERROR_CHECK makes it "fault"
    dfuStart,   \* the local dfu_start of main
    resetFlag,  \* GPREGRET holds BOOTLOADER_DFU_START
    peerRam,    \* m_peer_data in the RAM a reset leaves alone; "none" if its CRC is wrong
    appValid,   \* external: the settings say that bank 0 holds an application
    radio,      \* external: the link, the advertising, the GAP events that wait
    bank,       \* external: the SDK's DFU module, the flash and the pool
    told        \* history: what the controller was told

vars == <<transport, phase, dfuStart, resetFlag, peerRam, appValid, radio, bank, told>>
bootVars == <<dfuStart, resetFlag, peerRam, appValid>>

PeerData == {"none", "address", "key"}      \* none, without a key, with a key
Idle(p) ==
    [pktType |-> "INVALID", received |-> 0, notices |-> FALSE, target |-> 0, count |-> 0,
     finalPacket |-> Nothing, tearDown |-> FALSE, conn |-> FALSE, advertising |-> FALSE,
     directCount |-> DirectLimit, peer |-> p]
RadioOff == [linkUp |-> FALSE, onAir |-> FALSE, events |-> <<>>]
\* `flash' is the queue of operations, `used' the buffers not free, `stored' and
\* `failed' count the packets whose store has ended; the history `lost' has the buffers
\* that the transport has given up without consuming them.
BankIdle == [state |-> "idle", image |-> 0, flash |-> <<>>, used |-> {}, lost |-> {},
             stored |-> 0, failed |-> 0]
\* Success of the transfer was reported; packets since the last receipt notification.
NothingTold == [complete |-> FALSE, sinceNotice |-> 0]

Stores(flash) == {i \in DOMAIN flash : flash[i] \in Buffer}
InFlash == Stores(bank.flash)
Accepted == bank.stored + bank.failed + Cardinality(InFlash)

Transport ==
    [pktType : {"INVALID", "START", "INIT", "FIRMWARE_DATA"}, received : Nat,
     notices : BOOLEAN, target : NoticeTargets \union {0}, count : Nat,
     finalPacket : Buffer \union {Nothing}, tearDown : BOOLEAN, conn : BOOLEAN,
     advertising : BOOLEAN, directCount : 0 .. DirectLimit, peer : PeerData]
Radio == [linkUp : BOOLEAN, onAir : BOOLEAN,
          events : Seq({"connected", "disconnected", "timeout"})]
Bank ==
    [state : {"idle", "erasing", "ready", "init", "data", "valid"},
     image : ImageSizes \union {0}, flash : Seq(Buffer \union {"erase", "settings"}),
     used : SUBSET Buffer, lost : SUBSET Buffer, stored : Nat, failed : Nat]

\* Types and ranges: counters and queues of the transport stay in bounds, whatever the
\* order of commands, flash answers and GAP events.
DfuTypeOK ==
    /\ transport \in Transport /\ radio \in Radio /\ bank \in Bank
    /\ phase \in {"boot", "running", "over", "fault", "app"}
    /\ {dfuStart, resetFlag, appValid} \subseteq BOOLEAN /\ peerRam \in PeerData
    /\ told \in [complete : BOOLEAN, sinceNotice : Nat]

Init ==
    /\ phase = "boot"
    /\ dfuStart = FALSE /\ resetFlag \in BOOLEAN /\ appValid \in BOOLEAN
    /\ peerRam \in PeerData
    /\ transport = Idle("none") /\ radio = RadioOff /\ bank = BankIdle /\ told = NothingTold

-----------------------------------------------------------------------------
(***************************************************************************)
(* main, and what ends it.                                                 *)
(***************************************************************************)
\* A reset, by NVIC_SystemReset, by the error handler or by the power.
Cleared == transport' = Idle("none") /\ radio' = RadioOff /\ bank' = BankIdle /\ told' = NothingTold

\* dfu_ble_peer_data_get uses the data up: it spoils the CRC.
PeerDataGet(p) == peerRam = p /\ peerRam' = "none"

\* dfu_transport_update_start
UpdateStart ==
    /\ phase' = "running"
    /\ \E p \in PeerData :
           PeerDataGet(p) /\ transport' = [Idle(p) EXCEPT !.advertising = TRUE]
    /\ radio' = [RadioOff EXCEPT !.onAir = TRUE]

BootKeepsFlag == \* a mutant: GPREGRET is not cleared
    /\ phase = "boot"
    /\ dfuStart' = resetFlag /\ UNCHANGED <<resetFlag, appValid>>
    /\ IF resetFlag \/ ~appValid THEN UpdateStart
       ELSE phase' = "app" /\ UNCHANGED <<peerRam, transport, radio>>
    /\ UNCHANGED <<bank, told>>

\* What main decides after each reset.
Boot ==
    /\ phase = "boot"
    /\ dfuStart' = resetFlag /\ resetFlag' = FALSE
    /\ IF resetFlag \/ ~appValid THEN UpdateStart
       ELSE phase' = "app" /\ UNCHANGED <<peerRam, transport, radio>>
    /\ UNCHANGED <<appValid, bank, told>>

\* bootloader_dfu_start has returned.
Leave ==
    /\ phase = "over"
    /\ phase' = IF ~dfuStart /\ appValid THEN "app" ELSE "boot"
    /\ Cleared /\ UNCHANGED bootVars

\* External: an application asks for an update, leaving its peer's data.
AppEntersDfu ==
    /\ phase = "app"
    /\ phase' = "boot" /\ resetFlag' = TRUE
    /\ peerRam' \in PeerData
    /\ Cleared /\ UNCHANGED <<dfuStart, appValid>>

ErrorReset == phase = "fault" /\ phase' = "boot" /\ Cleared /\ UNCHANGED bootVars

\* External: the power goes and returns.
PowerCycle ==
    /\ phase # "boot"
    /\ phase' = "boot" /\ resetFlag' = FALSE /\ peerRam' = "none"
    /\ Cleared /\ UNCHANGED <<dfuStart, appValid>>

-----------------------------------------------------------------------------
(***************************************************************************)
(* Calls of the stack.  Each is followed by an APP_ERROR_CHECK.             *)
(***************************************************************************)
Awake == phase \in {"running", "over"}

\* ble_dfu_response_send, ble_dfu_pkts_rcpt_notify and the replies need the link.
OnLink == radio.linkUp /\ transport.conn
Respond == phase' = IF OnLink THEN phase ELSE "fault"

\* sd_ble_gap_disconnect
HungUp == [radio EXCEPT !.linkUp = FALSE, !.events = Append(@, "disconnected")]
HangUp(next) ==
    IF radio.linkUp THEN radio' = HungUp /\ phase' = next
    ELSE phase' = "fault" /\ UNCHANGED radio

\* An event of the service reaches on_dfu_evt.
Command == Awake /\ transport.conn
Set(field, value) == transport' = [transport EXCEPT ![field] = value]

-----------------------------------------------------------------------------
(***************************************************************************)
(* on_dfu_evt: the commands written to the control point.                  *)
(***************************************************************************)
StartCommand ==
    /\ Command /\ Set("pktType", "START")
    /\ UNCHANGED <<phase, bootVars, radio, bank, told>>

AppCommand ==
    /\ Command /\ Set("pktType", "FIRMWARE_DATA")
    /\ UNCHANGED <<phase, bootVars, radio, bank, told>>

InitCommand ==
    /\ Command /\ Set("pktType", "INIT")
    /\ UNCHANGED <<phase, bootVars, radio, bank, told>>

\* The same command with DFU_INIT_COMPLETE.  The bank may refuse the init packet.
InitComplete ==
    /\ Command /\ Set("pktType", "INIT")
    /\ \/ bank.state = "init" /\ bank' = [bank EXCEPT !.state = "data"]
       \/ UNCHANGED bank
    /\ Respond
    /\ UNCHANGED <<bootVars, radio, told>>

EnableNotices(n) ==
    /\ Command
    /\ transport' = [transport EXCEPT !.notices = TRUE, !.target = n, !.count = n]
    /\ told' = [told EXCEPT !.sinceNotice = 0]
    /\ UNCHANGED <<phase, bootVars, radio, bank>>

DisableNotices ==
    /\ Command
    /\ transport' = [transport EXCEPT !.notices = FALSE, !.target = 0]
    /\ UNCHANGED <<phase, bootVars, radio, bank, told>>

\* BLE_DFU_BYTES_RECEIVED_SEND
BytesReport == Command /\ Respond /\ UNCHANGED <<transport, bootVars, radio, bank, told>>

\* The bank compares what the flash holds with the checksum of the image.
Validate ==
    /\ Command
    /\ \/ /\ bank.state = "data" /\ bank.stored = bank.image
          /\ bank' = [bank EXCEPT !.state = "valid"]
       \/ UNCHANGED bank
    /\ Respond
    /\ UNCHANGED <<transport, bootVars, radio, told>>

\* dfu_transport_close.  Its callers handle commands, so that IS_CONNECTED holds and the
\* branch that stops the advertising is not taken; ble_conn_params_stop stops a timer.
Close(next) == Set("tearDown", TRUE) /\ HangUp(next)

SysReset == Command /\ Close("over") /\ UNCHANGED <<bootVars, bank, told>>

\* The activation of an image that is valid ends when the settings are written.
ActivateAndReset ==
    /\ Command /\ bank.state = "valid"
    /\ Close(phase)
    /\ bank' = IF radio.linkUp THEN [bank EXCEPT !.flash = Append(@, "settings")] ELSE bank
    /\ UNCHANGED <<bootVars, told>>

\* BLE_DFU_ACTIVATE_N_RESET without a valid image is a SYS_RESET.
ActivateNothing == bank.state # "valid" /\ SysReset

-----------------------------------------------------------------------------
(***************************************************************************)
(* on_dfu_pkt_write: the packets.                                          *)
(***************************************************************************)
Packet(type) == Command /\ transport.pktType = type

\* A packet of a wrong length, or the bank refuses it.
StartPacketRefused ==
    /\ Packet("START") /\ Respond
    /\ UNCHANGED <<transport, bootVars, radio, bank, told>>

\* The answer comes when the flash is erased.
StartPacket(size) ==
    /\ Packet("START") /\ bank.state = "idle"
    /\ bank' = [bank EXCEPT !.state = "erasing", !.image = size,
                            !.flash = Append(@, "erase")]
    /\ UNCHANGED <<transport, phase, bootVars, radio, told>>

InitPacketRefused ==
    /\ Packet("INIT") /\ Respond
    /\ UNCHANGED <<transport, bootVars, radio, bank, told>>

InitPacket ==
    /\ Packet("INIT") /\ bank.state \in {"ready", "init"}
    /\ bank' = [bank EXCEPT !.state = "init"]
    /\ UNCHANGED <<transport, phase, bootVars, radio, told>>

DataPacketLeaks == \* a mutant: the buffer of a refused packet is not consumed
    /\ Packet("FIRMWARE_DATA") /\ Respond
    /\ \E b \in Buffer \ bank.used : bank' = [bank EXCEPT !.used = @ \union {b}]
    /\ UNCHANGED <<transport, bootVars, radio, told>>

\* Not a multiple of four, no buffer, or the bank refuses it and the buffer is consumed,
\* which the pool does: it has just produced it.
DataPacketRefused ==
    /\ Packet("FIRMWARE_DATA") /\ Respond
    /\ UNCHANGED <<transport, bootVars, radio, bank, told>>

\* The pool has produced a buffer but refuses its size or does not hand it over: the
\* error is reported and the buffer is not consumed.
DataPacketLost(b) ==
    /\ Packet("FIRMWARE_DATA") /\ Respond
    /\ b \notin bank.used
    /\ bank' = [bank EXCEPT !.used = @ \union {b}, !.lost = @ \union {b}]
    /\ UNCHANGED <<transport, bootVars, radio, told>>

StoreConsumed(b) == \* a mutant: the buffer is consumed when its packet is queued
    /\ Packet("FIRMWARE_DATA") /\ bank.state = "data"
    /\ b \notin bank.used /\ Accepted < bank.image
    /\ bank' = [bank EXCEPT !.flash = Append(@, b)]
    /\ UNCHANGED <<bootVars, radio>>

Store(b) ==
    /\ Packet("FIRMWARE_DATA") /\ bank.state = "data"
    /\ b \notin bank.used /\ Accepted < bank.image
    /\ bank' = [bank EXCEPT !.used = @ \union {b}, !.flash = Append(@, b)]
    /\ UNCHANGED <<bootVars, radio>>

FinalPacketUncounted(b) == \* a mutant: the last packet is not counted
    /\ Store(b) /\ Accepted + 1 = bank.image
    /\ Set("finalPacket", b)
    /\ UNCHANGED <<phase, told>>

\* dfu_data_pkt_handle returns NRF_SUCCESS: the answer comes from dfu_cb_handler.
FinalPacket(b) ==
    /\ Store(b) /\ Accepted + 1 = bank.image
    /\ transport' = [transport EXCEPT !.received = @ + 1, !.finalPacket = b]
    /\ UNCHANGED <<phase, told>>

MorePacketsUnreset(b) == \* a mutant: the count is not reset after a notification
    /\ Store(b) /\ Accepted + 1 < bank.image
    /\ IF transport.notices /\ transport.count = 1
       THEN /\ transport' = [transport EXCEPT !.received = @ + 1, !.count = 65535]
            /\ told' = [told EXCEPT !.sinceNotice = 0]
            /\ Respond
       ELSE /\ transport' = [transport EXCEPT !.received = @ + 1,
                             !.count = IF transport.notices THEN @ - 1 ELSE @]
            /\ told' = [told EXCEPT !.sinceNotice = @ + 1]
            /\ UNCHANGED phase

MorePacketsFinal(b) == \* a mutant: every packet is taken for the final one
    /\ Store(b) /\ Accepted + 1 < bank.image
    /\ transport' = [transport EXCEPT !.received = @ + 1, !.finalPacket = b]
    /\ UNCHANGED <<phase, told>>

\* It returns NRF_ERROR_INVALID_LENGTH: more are expected.
MorePackets(b) ==
    /\ Store(b) /\ Accepted + 1 < bank.image
    /\ IF transport.notices /\ transport.count = 1
       THEN /\ transport' = [transport EXCEPT !.received = @ + 1, !.count = transport.target]
            /\ told' = [told EXCEPT !.sinceNotice = 0]
            /\ Respond
       ELSE /\ transport' = [transport EXCEPT !.received = @ + 1,
                             !.count = IF transport.notices THEN @ - 1 ELSE @]
            /\ told' = [told EXCEPT !.sinceNotice = @ + 1]
            /\ UNCHANGED phase

-----------------------------------------------------------------------------
(***************************************************************************)
(* dfu_cb_handler: the flash has done its oldest operation.                *)
(***************************************************************************)
Done(operation) == Awake /\ bank.flash # <<>> /\ Head(bank.flash) = operation

\* The result only goes into the response.
Erased ==
    /\ Done("erase") /\ Respond
    /\ bank' = [bank EXCEPT !.state = "ready", !.flash = Tail(@)]
    /\ UNCHANGED <<transport, bootVars, radio, told>>

StoredUnanswered(b) == \* a mutant: the final packet is not looked for
    /\ Done(b)
    /\ bank' = [bank EXCEPT !.flash = Tail(@), !.used = @ \ {b}, !.stored = @ + 1]
    /\ UNCHANGED <<phase, transport, bootVars, radio, told>>

\* The pool refuses to consume a buffer that it has not given out.
Stored(b) ==
    /\ Done(b)
    /\ bank' = [bank EXCEPT !.flash = Tail(@), !.used = @ \ {b}, !.stored = @ + 1]
    /\ phase' = IF b \in bank.used /\ (transport.finalPacket = b => OnLink) THEN phase
                ELSE "fault"
    /\ told' = IF transport.finalPacket = b
               THEN [told EXCEPT !.complete = b \in bank.used /\ OnLink] ELSE told
    /\ UNCHANGED <<transport, bootVars, radio>>

\* The buffer is not consumed.
StoreFailed(b) ==
    /\ Done(b)
    /\ bank' = [bank EXCEPT !.flash = Tail(@), !.lost = @ \union {b}, !.failed = @ + 1]
    /\ IF transport.conn THEN HangUp(phase) ELSE UNCHANGED <<phase, radio>>
    /\ UNCHANGED <<transport, bootVars, told>>

\* External: bootloader_dfu_update_process ends bootloader_dfu_start.
Activated ==
    /\ Done("settings")
    /\ bank' = [bank EXCEPT !.flash = Tail(@)]
    /\ appValid' = TRUE /\ phase' = "over"
    /\ UNCHANGED <<transport, dfuStart, resetFlag, peerRam, radio, told>>

-----------------------------------------------------------------------------
(***************************************************************************)
(* on_ble_evt.                                                             *)
(***************************************************************************)
Event(type) == Awake /\ radio.events # <<>> /\ Head(radio.events) = type
Handled == [radio EXCEPT !.events = Tail(@)]

ConnectedStillAdvertising == \* a mutant: m_is_advertising is not cleared
    /\ Event("connected") /\ radio' = Handled
    /\ Set("conn", TRUE)
    /\ UNCHANGED <<phase, bootVars, bank, told>>

Connected ==
    /\ Event("connected") /\ radio' = Handled
    /\ transport' = [transport EXCEPT !.conn = TRUE, !.advertising = FALSE]
    /\ UNCHANGED <<phase, bootVars, bank, told>>

\* advertising_start, after an event that leaves m_is_advertising as `was'.  The stack
\* does not advertise twice at a time, nor beside its only link.
Advertise(was, t) ==
    /\ transport' = [t EXCEPT !.advertising = TRUE]
    /\ radio' = IF was THEN Handled ELSE [Handled EXCEPT !.onAir = TRUE]
    /\ phase' = IF ~was /\ (radio.onAir \/ radio.linkUp) THEN "fault" ELSE phase

\* sd_ble_gatts_sys_attr_get needs the handle of the connection that has ended.
Disconnected ==
    /\ Event("disconnected")
    /\ LET t == [transport EXCEPT !.directCount = DirectLimit, !.conn = FALSE]
       IN  IF ~transport.conn THEN transport' = t /\ radio' = Handled /\ phase' = "fault"
           ELSE IF transport.tearDown
           THEN transport' = t /\ radio' = Handled /\ UNCHANGED phase
           ELSE Advertise(transport.advertising, t)
    /\ UNCHANGED <<bootVars, bank, told>>

AdvTimeoutEndless == \* a mutant: the count is not tested
    /\ Event("timeout")
    /\ Advertise(FALSE, [transport EXCEPT !.directCount = @ - 1])
    /\ UNCHANGED <<bootVars, bank, told>>

\* Directed advertising ends by itself after 1.28 s.
AdvTimeout ==
    /\ Event("timeout")
    /\ LET t == [transport EXCEPT !.directCount = @ - 1, !.advertising = FALSE]
       IN  IF t.directCount = 0
           THEN transport' = t /\ radio' = Handled /\ phase' = "over"
           ELSE Advertise(FALSE, t)
    /\ UNCHANGED <<bootVars, bank, told>>

\* Requests for parameters, keys, attributes or memory, answered on the link.
StackRequest == Command /\ Respond /\ UNCHANGED <<transport, bootVars, radio, bank, told>>

\* BLE_GATTS_EVT_TIMEOUT
GattsTimeout == Command /\ HangUp(phase) /\ UNCHANGED <<transport, bootVars, bank, told>>

-----------------------------------------------------------------------------
(***************************************************************************)
(* External: the radio.                                                    *)
(***************************************************************************)
Air(event, r) ==
    /\ Awake
    /\ radio' = [r EXCEPT !.events = Append(@, event)]
    /\ UNCHANGED <<transport, phase, bootVars, bank, told>>

PeerConnects ==
    radio.onAir /\ Air("connected", [radio EXCEPT !.onAir = FALSE, !.linkUp = TRUE])
LinkLoss == radio.linkUp /\ Air("disconnected", [radio EXCEPT !.linkUp = FALSE])
NobodyConnects ==
    radio.onAir /\ transport.peer = "address" /\ Air("timeout", [radio EXCEPT !.onAir = FALSE])

-----------------------------------------------------------------------------
Commands ==
    \/ StartCommand \/ AppCommand \/ InitCommand \/ InitComplete
    \/ \E n \in NoticeTargets : EnableNotices(n)
    \/ DisableNotices \/ BytesReport \/ Validate
    \/ SysReset \/ ActivateAndReset \/ ActivateNothing

Packets ==
    \/ StartPacketRefused \/ InitPacketRefused \/ InitPacket \/ DataPacketRefused
    \/ \E size \in ImageSizes : StartPacket(size)
    \/ \E b \in Buffer : DataPacketLost(b) \/ FinalPacket(b) \/ MorePackets(b)

FlashCallback ==
    Erased \/ Activated \/ \E b \in Buffer : Stored(b) \/ StoreFailed(b)

GapEvent == Connected \/ Disconnected \/ AdvTimeout
Environment ==
    \/ AppEntersDfu \/ PowerCycle \/ PeerConnects \/ LinkLoss \/ NobodyConnects
    \/ StackRequest \/ GattsTimeout

Next ==
    \/ Boot \/ Leave \/ ErrorReset
    \/ Commands \/ Packets \/ FlashCallback \/ GapEvent \/ Environment

Spec == Init /\ [][Next]_vars

\* The scheduler hands over every event, the flash answers, main goes on; nothing
\* is assumed of the controller or of the link.
FairSpec ==
    /\ Spec
    /\ WF_vars(Boot) /\ WF_vars(Leave) /\ WF_vars(ErrorReset)
    /\ WF_vars(FlashCallback) /\ WF_vars(GapEvent)
-----------------------------------------------------------------------------
(***************************************************************************)
(* Properties.                                                             *)
(***************************************************************************)
\* Only a loss of the link stops the bootloader: a call is refused while DISCONNECTED
\* waits, or after it when the flash answers for the erase or the final packet.  None of
\* the calls that could be refused on a link is: the pool has every buffer it is asked to
\* consume, no GAP event finds its handle gone or the radio busy, and on a connection
\* every command and packet, of whatever order, can be answered.
OnlyLossesStop ==
    [][phase # "fault" /\ phase' = "fault" =>
           /\ UNCHANGED radio
           /\ IF transport.conn THEN ~radio.linkUp
              ELSE Done("erase") \/ Done(transport.finalPacket)]_vars

\* When every event is handled, the bootloader is on the air if and only if it has
\* no link and is not closing, and m_is_advertising says so: neither a loss nor a
\* time-out strands it, and a transport that was closed does not come back.
OnAirWhenAlone ==
    phase = "running" /\ radio.events = <<>> =>
        /\ radio.onAir = (~transport.conn /\ ~transport.tearDown)
        /\ transport.advertising = radio.onAir

\* The buffers that are not free are those the flash works on, each once, and those given
\* up on the two paths that end without hci_mem_pool_rx_consume: a store that failed, and
\* a packet for which the pool refused one of the two calls after it produced the buffer.
BuffersComeBack ==
    /\ bank.used = {bank.flash[i] : i \in InFlash} \union bank.lost
    /\ \A i \in InFlash : bank.flash[i] \notin bank.lost
    /\ \A i, j \in InFlash : bank.flash[i] = bank.flash[j] => i = j

\* The bytes reported to the controller are those the bank accepted, across every
\* refused packet and every new connection: from there the controller goes on.
ReportIsRight == transport.received = Accepted

\* With notifications enabled the controller never waits for one longer than it
\* asked for, however often it enables and disables them in mid-transfer.
NoticeOnTime == transport.notices => told.sinceNotice < transport.target

\* Success of the transfer is reported when the whole image is in the flash, not when
\* its last packet has been received; a store that failed ended the link before.
SuccessMeansStored ==
    told.complete /\ bank.failed = 0 => bank.stored = bank.image /\ InFlash = {}

\* Once the last packet is accepted, success is reported or the transport has
\* stopped or lost a packet: the comparison with mp_final_packet does not miss it.
FinalIsAnswered ==
    transport.finalPacket # Nothing ~>
        told.complete \/ bank.failed > 0 \/ phase # "running"

\* After an activation main reaches the application, through another reset where
\* main says that one is needed: the request that started the update is used up.
NewAppStarts == phase = "over" /\ appValid ~> phase = "app"
=============================================================================
