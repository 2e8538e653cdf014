---------------------------- MODULE ServiceLink -----------------------------
(***************************************************************************)
(* The GATT session between the two devices: service_client.c on the        *)
(* central, service_server.c on the peripheral, and under them the          *)
(* SoftDevice, whose source is not in the repository and which is modelled  *)
(* by the return codes the code tests for and the events it handles.        *)
(*                                                                          *)
(* A BLE event waits in its device's queue until the event interrupt can    *)
(* run.  The stack itself runs above every interrupt of the application: it *)
(* receives, answers discovery, and clears its busy flags while a handler   *)
(* spins.  A call of the game spins on NRF_ERROR_BUSY in whatever context   *)
(* made it (service_client.c:282, service_server.c:202).                    *)
(***************************************************************************)
EXTENDS ServiceCalls, Sequences

CONSTANTS Server, Client    \* the peripheral and the central

ASSUME RolesAssumption == Server # Client /\ Device = {Server, Client}

\* The attributes the client reads once connected, in its order.
Chain == <<"info", "game_time", "vibration", "hole", "target_score">>
Attribute == {Chain[i] : i \in 1 .. Len(Chain)}

\* The characteristics that are indicated, and enabled by a CCCD write.  The
\* client also writes a CCCD for the game time, a handle that is no CCCD: the
\* characteristic has no indicate property (service_server.c:39).
Indicated == {"score", "state"}

VARIABLES
    handle,         \* m_conn_handle is valid (both statics of a device agree)
    serverState,    \* m_service_server_state, on the server
    clientState,    \* m_service_client_state, on the client
    serverScore,    \* m_server_score on the server
    clientScore,    \* m_client_score on the server
    serverScoreView,\* m_server_score on the client
    params,         \* the attributes the client has read since it booted
    sending,        \* per device, the contexts past the checks before a send
    fault,          \* a failed APP_ERROR_CHECK has stopped the device
    events,         \* per device, the BLE events the application has not handled
    linkUp,         \* the SoftDevices are connected
    sysAttrSet,     \* the server's system attributes are set for this link
    cccd,           \* the indications the client has enabled on this link
    hvxBusy,        \* an indication is unconfirmed
    requestBusy,    \* a request of the client is unanswered
    toServer, toClient  \* PDUs on the air, in order

appVars == <<handle, serverState, clientState, serverScore, clientScore,
             serverScoreView, params, sending, fault>>
stackVars == <<linkUp, sysAttrSet, cccd, hvxBusy, requestBusy, toServer, toClient>>
linkVars == <<appVars, stackVars, events>>

ClientPdu == [type : {"discover"}, pass : {1, 2}] \union [type : {"read"}, attr : Attribute]
             \union [type : {"write"}, score : Score] \union [type : {"cccd"}, char : Indicated]
             \union {[type |-> "confirm"]}
Indication == [type : {"hvx"}, char : {"score"}, value : Score]
              \union [type : {"hvx"}, char : {"state"}, value : IndicatedState]
ServerPdu == [type : {"discovered"}, pass : {1, 2}] \union [type : {"read_rsp"}, attr : Attribute]
             \union {[type |-> "write_rsp"]} \union Indication
Gap == {[type |-> "connected"], [type |-> "disconnected"]}
Event == Gap \union ClientPdu \union ServerPdu \union {[type |-> "sys_attr_missing"]}

\* Types of both service layers, their stacks and the PDUs between them.
LinkTypeOK ==
    /\ call \in [Device -> [Context -> Call]]
    /\ handle \in [Device -> BOOLEAN]
    /\ serverState \in {"READY", "CONNECTED"}
    /\ clientState \in {"READY", "CONNECTING", "CONNECTED"}
    /\ {serverScore, clientScore, serverScoreView} \subseteq Score
    /\ params \subseteq Attribute
    /\ sending \in [Device -> SUBSET Context]
    /\ fault \in [Device -> BOOLEAN]
    /\ \A d \in Device : \A i \in 1 .. Len(events[d]) : events[d][i] \in Event
    /\ {linkUp, sysAttrSet, hvxBusy, requestBusy} \subseteq BOOLEAN
    /\ cccd \subseteq Indicated
    /\ \A i \in 1 .. Len(toServer) : toServer[i] \in ClientPdu
    /\ \A i \in 1 .. Len(toClient) : toClient[i] \in ServerPdu

LinkInit ==
    /\ handle = [d \in Device |-> FALSE]
    /\ serverState = "READY" /\ clientState = "READY"
    /\ serverScore = 0 /\ clientScore = 0 /\ serverScoreView = 0
    /\ params = {}
    /\ sending = [d \in Device |-> {}]
    /\ fault = [d \in Device |-> FALSE]
    /\ events = [d \in Device |-> <<>>]
    /\ linkUp = FALSE /\ sysAttrSet = FALSE /\ cccd = {}
    /\ hvxBusy = FALSE /\ requestBusy = FALSE
    /\ toServer = <<>> /\ toClient = <<>>

-----------------------------------------------------------------------------
(***************************************************************************)
(* The stack (external).                                                   *)
(***************************************************************************)
Notify(d, e) == events' = [events EXCEPT ![d] = Append(@, e)]

\* Advertising and scanning are started by the main loops, once both devices have
\* handled the end of the last connection (the module Gap models that part): no
\* call that was being sent over the old link is left in a main loop then.
Connect ==
    /\ ~linkUp
    /\ \A d \in Device : ~handle[d] /\ events[d] = <<>> /\ ~fault[d] /\ sending[d] = {}
    /\ linkUp' = TRUE /\ sysAttrSet' = FALSE /\ cccd' = {}
    /\ hvxBusy' = FALSE /\ requestBusy' = FALSE
    /\ events' = [d \in Device |-> <<[type |-> "connected"]>>]
    /\ UNCHANGED <<appVars, toServer, toClient, call>>

\* The link is lost with all that is on the air; `gone' do not live to see it.
LinkEnds(gone) ==
    /\ linkUp' = FALSE
    /\ toServer' = <<>> /\ toClient' = <<>>
    /\ hvxBusy' = FALSE /\ requestBusy' = FALSE
    /\ events' = [d \in Device |->
                    IF d \in gone THEN <<>>
                    ELSE IF linkUp THEN Append(events[d], [type |-> "disconnected"])
                    ELSE events[d]]
    /\ UNCHANGED <<sysAttrSet, cccd>>

LinkLoss == linkUp /\ LinkEnds({}) /\ UNCHANGED <<appVars, call>>

\* A PDU reaches the server's stack.  A CCCD write waits for the system
\* attributes, for which the stack asks once.
ServerReceives ==
    /\ toServer # <<>>
    /\ LET pdu == Head(toServer) IN
        \/ /\ pdu.type = "discover"
           /\ toClient' = Append(toClient, [type |-> "discovered", pass |-> pdu.pass])
           /\ UNCHANGED <<events, cccd, hvxBusy>>
        \/ /\ pdu.type \in {"read", "write"}
           /\ Notify(Server, pdu)
           /\ UNCHANGED <<toClient, cccd, hvxBusy>>
        \/ /\ pdu.type = "cccd" /\ sysAttrSet
           /\ cccd' = cccd \union {pdu.char}
           /\ UNCHANGED <<events, toClient, hvxBusy>>
        \/ /\ pdu.type = "confirm"
           /\ hvxBusy' = FALSE
           /\ UNCHANGED <<events, toClient, cccd>>
    /\ toServer' = Tail(toServer)
    /\ UNCHANGED <<appVars, linkUp, sysAttrSet, requestBusy, call>>

AsksForSysAttr ==
    /\ toServer # <<>> /\ Head(toServer).type = "cccd" /\ ~sysAttrSet
    /\ \A i \in 1 .. Len(events[Server]) : events[Server][i].type # "sys_attr_missing"
    /\ Notify(Server, [type |-> "sys_attr_missing"])
    /\ UNCHANGED <<appVars, stackVars, call>>

\* A PDU reaches the client's stack; every answer frees the client to ask.
ClientReceives ==
    /\ toClient # <<>>
    /\ LET pdu == Head(toClient) IN
        /\ requestBusy' = (requestBusy /\ pdu.type = "hvx")
        /\ IF pdu.type = "write_rsp" THEN UNCHANGED events ELSE Notify(Client, pdu)
    /\ toClient' = Tail(toClient)
    /\ UNCHANGED <<appVars, linkUp, sysAttrSet, cccd, hvxBusy, toServer, call>>

Stack == ServerReceives \/ AsksForSysAttr \/ ClientReceives

\* Calls into the stack.
Usable(d) == linkUp /\ handle[d]
Request(pdu) == toServer' = Append(toServer, pdu) /\ requestBusy' = TRUE
RequestUnlessBusy(pdu) ==
    IF linkUp /\ ~requestBusy THEN Request(pdu) ELSE UNCHANGED <<toServer, requestBusy>>
Fault(d) == fault' = [fault EXCEPT ![d] = TRUE]

-----------------------------------------------------------------------------
(***************************************************************************)
(* The event interrupts.  The client's and the server's handlers run in one *)
(* dispatch; on each device one of them has nothing to do.                  *)
(***************************************************************************)
Handles(d, type) ==
    /\ ~fault[d] /\ InterruptIdle(d)
    /\ events[d] # <<>> /\ Head(events[d]).type = type
    /\ events' = [events EXCEPT ![d] = Tail(@)]
    /\ UNCHANGED call

ServerConnected ==
    /\ Handles(Server, "connected")
    /\ handle' = [handle EXCEPT ![Server] = TRUE]
    /\ UNCHANGED <<serverState, clientState, serverScore, clientScore, serverScoreView,
                   params, sending, fault, stackVars>>

\* The central starts the service discovery at once (connect.c:57).
ClientConnected ==
    /\ Handles(Client, "connected")
    /\ handle' = [handle EXCEPT ![Client] = TRUE]
    /\ IF linkUp
       THEN /\ Request([type |-> "discover", pass |-> 1])
            /\ clientState' = "CONNECTING"
            /\ UNCHANGED fault
       ELSE Fault(Client) /\ UNCHANGED <<toServer, requestBusy, clientState>>
    /\ UNCHANGED <<serverState, serverScore, clientScore, serverScoreView, params, sending,
                   linkUp, sysAttrSet, cccd, hvxBusy, toClient>>

Disconnected(d) ==
    /\ Handles(d, "disconnected")
    /\ handle' = [handle EXCEPT ![d] = FALSE]
    /\ serverState' = IF d = Server THEN "READY" ELSE serverState
    /\ clientState' = IF d = Client THEN "READY" ELSE clientState
    /\ UNCHANGED <<serverScore, clientScore, serverScoreView, params, sending, fault, stackVars>>

\* service_server_{read,write}_request_response: the reply must not fail.
Reply(pdu) ==
    IF linkUp
    THEN toClient' = Append(toClient, pdu) /\ UNCHANGED fault
    ELSE Fault(Server) /\ UNCHANGED toClient

\* A read of the info makes this device the server, if the reply did not fail.
ServerRead ==
    LET attr == Head(events[Server]).attr
    IN  /\ Handles(Server, "read")
        /\ Reply([type |-> "read_rsp", attr |-> attr])
        /\ serverState' = IF attr = "info" /\ linkUp THEN "CONNECTED" ELSE serverState
        /\ UNCHANGED <<handle, clientState, serverScore, clientScore, serverScoreView, params,
                       sending, linkUp, sysAttrSet, cccd, hvxBusy, requestBusy, toServer>>

\* A mutant: no reply, as for a characteristic without a write callback.
ServerWriteUnanswered ==
    /\ Handles(Server, "write")
    /\ clientScore' = Head(events[Server]).score
    /\ UNCHANGED <<handle, serverState, clientState, serverScore, serverScoreView, params,
                   sending, fault, stackVars>>

ServerWrite ==
    /\ Handles(Server, "write")
    /\ clientScore' = Head(events[Server]).score
    /\ Reply([type |-> "write_rsp"])
    /\ UNCHANGED <<handle, serverState, clientState, serverScore, serverScoreView, params,
                   sending, linkUp, sysAttrSet, cccd, hvxBusy, requestBusy, toServer>>

\* A mutant: the event falls through to the default case.
SysAttrMissingIgnored ==
    /\ Handles(Server, "sys_attr_missing")
    /\ UNCHANGED <<appVars, stackVars>>

ServerSysAttrMissing ==
    /\ Handles(Server, "sys_attr_missing")
    /\ IF linkUp THEN sysAttrSet' = TRUE /\ UNCHANGED fault
                 ELSE Fault(Server) /\ UNCHANGED sysAttrSet
    /\ UNCHANGED <<handle, serverState, clientState, serverScore, clientScore,
                   serverScoreView, params, sending, linkUp, cccd, hvxBusy, requestBusy,
                   toServer, toClient>>

\* The first answer holds the service: search again.  The second says that there
\* is none after it: read the info.  Neither call's return code is looked at.
ClientDiscovered ==
    LET pass == Head(events[Client]).pass
    IN  /\ Handles(Client, "discovered")
        /\ RequestUnlessBusy(IF pass = 1 THEN [type |-> "discover", pass |-> 2]
                                         ELSE [type |-> "read", attr |-> "info"])
        /\ UNCHANGED <<appVars, linkUp, sysAttrSet, cccd, hvxBusy, toClient>>

\* A mutant: the indications are enabled by requests, and so the stack is busy
\* when the first read of the chain is tried.
ClientReadInfoByRequests ==
    /\ Handles(Client, "read_rsp") /\ Head(events[Client]).attr = "info"
    /\ params' = params \union {"info"}
    /\ toServer' = toServer \o
           <<[type |-> "cccd", char |-> "score"], [type |-> "cccd", char |-> "state"]>>
    /\ clientState' = "CONNECTED"
    /\ UNCHANGED <<handle, serverState, serverScore, clientScore, serverScoreView, sending,
                   fault, linkUp, sysAttrSet, cccd, hvxBusy, requestBusy, toClient>>

\* A mutant: the game time, which cannot be indicated, is enabled as well.
ClientReadInfoEnablesTime ==
    /\ Handles(Client, "read_rsp") /\ Head(events[Client]).attr = "info"
    /\ params' = params \union {"info"}
    /\ toServer' = toServer \o
           <<[type |-> "cccd", char |-> "game_time"], [type |-> "cccd", char |-> "score"],
             [type |-> "cccd", char |-> "state"], [type |-> "read", attr |-> "game_time"]>>
    /\ requestBusy' = TRUE
    /\ clientState' = "CONNECTED"
    /\ UNCHANGED <<handle, serverState, serverScore, clientScore, serverScoreView, sending,
                   fault, linkUp, sysAttrSet, cccd, hvxBusy, toClient>>

\* The info enables the indications, by commands the stack queues (they need no
\* answer, but they must not fail), and starts the chain of reads.
ClientReadInfo ==
    /\ Handles(Client, "read_rsp") /\ Head(events[Client]).attr = "info"
    /\ params' = params \union {"info"}
    /\ IF linkUp
       THEN /\ toServer' = toServer \o
                   <<[type |-> "cccd", char |-> "score"], [type |-> "cccd", char |-> "state"]>>
                   \o (IF requestBusy THEN <<>> ELSE <<[type |-> "read", attr |-> "game_time"]>>)
            /\ requestBusy' = TRUE
            /\ clientState' = "CONNECTED"
            /\ UNCHANGED fault
       ELSE Fault(Client) /\ UNCHANGED <<toServer, requestBusy, clientState>>
    /\ UNCHANGED <<handle, serverState, serverScore, clientScore, serverScoreView, sending,
                   linkUp, sysAttrSet, cccd, hvxBusy, toClient>>

Position(attr) == CHOOSE i \in 1 .. Len(Chain) : Chain[i] = attr

\* Every other answer asks for the next attribute, if the stack is not busy.
ClientRead ==
    LET attr == Head(events[Client]).attr
    IN  /\ Handles(Client, "read_rsp") /\ attr # "info"
        /\ params' = params \union {attr}
        /\ IF Position(attr) < Len(Chain)
           THEN RequestUnlessBusy([type |-> "read", attr |-> Chain[Position(attr) + 1]])
           ELSE UNCHANGED <<toServer, requestBusy>>
        /\ clientState' = "CONNECTED"
        /\ UNCHANGED <<handle, serverState, serverScore, clientScore, serverScoreView, sending,
                       fault, linkUp, sysAttrSet, cccd, hvxBusy, toClient>>

\* sd_ble_gattc_hv_confirm, its return code ignored.
Confirm == toServer' = IF linkUp THEN Append(toServer, [type |-> "confirm"]) ELSE toServer

ClientScore ==
    /\ Handles(Client, "hvx") /\ Head(events[Client]).char = "score"
    /\ serverScoreView' = Head(events[Client]).value
    /\ Confirm
    /\ UNCHANGED <<handle, serverState, clientState, serverScore, clientScore, params, sending,
                   fault, linkUp, sysAttrSet, cccd, hvxBusy, requestBusy, toClient>>

\* The state goes to game_set_state.
ClientGameState(s) ==
    /\ Handles(Client, "hvx")
    /\ Head(events[Client]).char = "state" /\ s = Head(events[Client]).value
    /\ Confirm
    /\ UNCHANGED <<appVars, linkUp, sysAttrSet, cccd, hvxBusy, requestBusy, toClient>>

ServerInterrupt ==
    ServerConnected \/ Disconnected(Server) \/ ServerRead \/ ServerWrite \/ ServerSysAttrMissing
ClientInterrupt ==
    \/ ClientConnected \/ Disconnected(Client) \/ ClientDiscovered
    \/ ClientReadInfo \/ ClientRead \/ ClientScore

-----------------------------------------------------------------------------
(***************************************************************************)
(* The calls of the game.                                                  *)
(***************************************************************************)
Calling(d, c, op) == ~fault[d] /\ ContextRuns(d, c) /\ call[d][c].op = op
IsServer(d) == d = Server /\ serverState = "CONNECTED"
IsClient(d) == d = Client /\ clientState = "CONNECTED"

\* The tests before a send.  A server keeps the score it is given even if its
\* handle turns out invalid; a client that is not connected drops the call, and
\* so does anybody who is asked for a state and is not the server.
CallChecks(d, c) ==
    /\ ~fault[d] /\ ContextRuns(d, c)
    /\ call[d][c] # NoCall /\ c \notin sending[d]
    /\ serverScore' = IF call[d][c].op = "set_score" /\ IsServer(d)
                      THEN call[d][c].score ELSE serverScore
    /\ IF (IsServer(d) /\ handle[d]) \/ (IsClient(d) /\ call[d][c].op = "set_score")
       THEN sending' = [sending EXCEPT ![d] = @ \union {c}] /\ UNCHANGED call
       ELSE UNCHANGED sending /\ Return(d, c)
    /\ UNCHANGED <<handle, serverState, clientState, clientScore, serverScoreView, params,
                   fault, stackVars, events>>

SendEnds(d, c) ==
    /\ Return(d, c)
    /\ sending' = [sending EXCEPT ![d] = @ \ {c}]
    /\ UNCHANGED <<handle, serverState, clientState, serverScore, clientScore,
                   serverScoreView, params, fault, events, linkUp, sysAttrSet, cccd>>

Sends(d, c) == ~fault[d] /\ ContextRuns(d, c) /\ c \in sending[d]

\* sd_ble_gatts_hvx in its loop: the value is read when the stack takes it.
CallIndication(c) ==
    LET op == call[Server][c]
    IN  IF op.op = "set_score"
        THEN [type |-> "hvx", char |-> "score", value |-> serverScore]
        ELSE [type |-> "hvx", char |-> "state", value |-> op.state]

HvxGoes(c) == Usable(Server) /\ sysAttrSet /\ CallIndication(c).char \in cccd

SendIndication(c) ==
    /\ Sends(Server, c) /\ HvxGoes(c) /\ ~hvxBusy
    /\ hvxBusy' = TRUE
    /\ toClient' = Append(toClient, CallIndication(c))
    /\ SendEnds(Server, c) /\ UNCHANGED <<requestBusy, toServer>>

\* NRF_ERROR_INVALID_STATE, the one code that is excused: not enabled.
DropIndication(c) ==
    /\ Sends(Server, c) /\ Usable(Server) /\ sysAttrSet /\ ~HvxGoes(c)
    /\ SendEnds(Server, c) /\ UNCHANGED <<hvxBusy, requestBusy, toServer, toClient>>

SendWriteOnce(c) == \* a mutant: the loop is left on NRF_ERROR_BUSY as on success
    /\ Sends(Client, c) /\ Usable(Client)
    /\ requestBusy' = TRUE
    /\ toServer' = IF requestBusy THEN toServer
                   ELSE Append(toServer, [type |-> "write", score |-> call[Client][c].score])
    /\ SendEnds(Client, c) /\ UNCHANGED <<hvxBusy, toClient>>

SendWrite(c) ==
    /\ Sends(Client, c) /\ Usable(Client) /\ ~requestBusy
    /\ Request([type |-> "write", score |-> call[Client][c].score])
    /\ SendEnds(Client, c) /\ UNCHANGED <<hvxBusy, toClient>>

\* Any other return code stops the device: the link has gone, or the system
\* attributes are missing because the client has not enabled anything yet.
SendFaults(d, c) ==
    /\ Sends(d, c)
    /\ ~Usable(d) \/ (d = Server /\ ~sysAttrSet)
    /\ Fault(d)
    /\ UNCHANGED <<handle, serverState, clientState, serverScore, clientScore,
                   serverScoreView, params, sending, events, stackVars, call>>

Send(d, c) ==
    \/ d = Server /\ (SendIndication(c) \/ DropIndication(c))
    \/ d = Client /\ SendWrite(c)
    \/ SendFaults(d, c)

\* The watchdog or the fault handler resets the device.
LinkReset(d) ==
    /\ LinkEnds({d})
    /\ call' = [call EXCEPT ![d] = NoCalls]
    /\ sending' = [sending EXCEPT ![d] = {}]
    /\ fault' = [fault EXCEPT ![d] = FALSE]
    /\ handle' = [handle EXCEPT ![d] = FALSE]
    /\ IF d = Server
       THEN /\ serverState' = "READY" /\ serverScore' = 0 /\ clientScore' = 0
            /\ UNCHANGED <<clientState, serverScoreView, params>>
       ELSE /\ clientState' = "READY" /\ serverScoreView' = 0 /\ params' = {}
            /\ UNCHANGED <<serverState, serverScore, clientScore>>

=============================================================================
