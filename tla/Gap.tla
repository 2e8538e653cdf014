-------------------------------- MODULE Gap ---------------------------------
(***************************************************************************)
(* How one device finds the other: advertise.c, discovery.c, connect.c and  *)
(* the status word of status.c they share, against the state of the radio.  *)
(*                                                                          *)
(* The main loop starts the radio and then sets a status flag, by a read-   *)
(* modify-write that an event interrupt may preempt at either end.  The     *)
(* SoftDevice (external) is modelled by what its calls refuse and by the    *)
(* events it raises, which queue while an interrupt cannot run.  No timeout *)
(* event exists: every procedure is started without a limit                 *)
(* (advertise.c:104, discovery.c:103, connect.c:106).                       *)
(***************************************************************************)
EXTENDS Naturals, Sequences, FiniteSets

CONSTANT MaxEvents      \* the bound on the events that wait

ASSUME MaxEventsAssumption == MaxEvents \in Nat \ {0}

Status == {"CONNECTED", "ADVERTISING", "DISCOVERING", "CONNECTING"}
Role == {"peripheral", "central"}

\* Where the main loop is.  A start and the flag it sets are four steps: the
\* tests, the call, and the load and the store of the status word.
MainPc == {"advertise", "adv_checks", "adv_start", "adv_load", "adv_store",
           "discovery", "scan_checks", "scan_start", "scan_load", "scan_store"}
StartWindow == {"adv_load", "adv_store", "scan_load", "scan_store"}

VARIABLES
    status,     \* m_status, the set of its bits
    role,       \* m_role
    advertiser, \* m_advertise_state
    scanner,    \* m_discovery_state
    pc,         \* where the main loop is
    loaded,     \* the status word it has loaded into a register
    fault,      \* the call whose APP_ERROR_CHECK has stopped the device
    events,     \* BLE events the application has not handled
    radio,      \* external: what the SoftDevice is doing
    link,       \* external: the role of this device in its connection
    raced       \* history: an event was handled between a start and its flag

appVars == <<status, role, advertiser, scanner, pc, loaded, fault>>
vars == <<appVars, events, radio, link, raced>>

Procedure == {"ADVERTISING", "DISCOVERING", "CONNECTING"}
Event == [type : {"adv_report", "disconnected"}] \union [type : {"connected"}, role : Role]
Call == {"adv_start", "gap_connect", "connect_cancel", "discover"}

\* Types of the flags, the radio and the place in the main loop.
GapTypeOK ==
    /\ status \subseteq Status /\ loaded \subseteq Status
    /\ role \in Role \union {"invalid"}
    /\ advertiser \in {"INIT", "READY", "ADVERTISING"}
    /\ scanner \in {"INIT", "READY", "DISCOVERING"}
    /\ pc \in MainPc
    /\ fault \in Call \union {"none"}
    /\ Len(events) <= MaxEvents /\ \A i \in 1 .. Len(events) : events[i] \in Event
    /\ radio \subseteq Procedure
    /\ link \in Role \union {"none"}
    /\ raced \in BOOLEAN

Init ==
    /\ status = {} /\ loaded = {} /\ role = "invalid"
    /\ advertiser = "INIT" /\ scanner = "INIT"
    /\ pc = "advertise" /\ fault = "none"
    /\ events = <<>> /\ radio = {} /\ link = "none"
    /\ raced = FALSE

-----------------------------------------------------------------------------
(***************************************************************************)
(* The main loop.                                                          *)
(***************************************************************************)
IsIdle == status = {}

\* An event that waits is handled before the main loop takes another step.
At(at) == fault = "none" /\ events = <<>> /\ pc = at
Goto(next) == pc' = next

\* BUTTON_1 is sampled by the first turn of each task, and may have moved between.
AdvertiseInit ==
    /\ At("advertise") /\ advertiser = "INIT"
    /\ advertiser' \in {"READY", "ADVERTISING"}
    /\ Goto("discovery")
    /\ UNCHANGED <<status, role, scanner, loaded, fault, events, radio, link, raced>>

AdvertiseTasksAlways == \* a mutant: not only when idle
    /\ At("advertise") /\ advertiser # "INIT"
    /\ Goto(IF advertiser = "ADVERTISING" THEN "adv_checks" ELSE "discovery")
    /\ UNCHANGED <<status, role, advertiser, scanner, loaded, fault, events, radio, link, raced>>

AdvertiseTasks ==
    /\ At("advertise") /\ advertiser # "INIT"
    /\ Goto(IF advertiser = "ADVERTISING" /\ IsIdle THEN "adv_checks" ELSE "discovery")
    /\ UNCHANGED <<status, role, advertiser, scanner, loaded, fault, events, radio, link, raced>>

\* advertise_advertise
AdvertiseChecks ==
    /\ At("adv_checks")
    /\ Goto(IF "CONNECTING" \in status THEN "discovery" ELSE "adv_start")
    /\ radio' = IF {"CONNECTING", "ADVERTISING"} \intersect status = {"ADVERTISING"}
                THEN radio \ {"ADVERTISING"} ELSE radio
    /\ UNCHANGED <<status, role, advertiser, scanner, loaded, fault, events, link, raced>>

AdvertiseStart ==
    /\ At("adv_start")
    /\ IF "ADVERTISING" \in radio \/ link = "peripheral"
       THEN fault' = "adv_start" /\ UNCHANGED <<pc, radio>>
       ELSE radio' = radio \union {"ADVERTISING"} /\ Goto("adv_load") /\ UNCHANGED fault
    /\ UNCHANGED <<status, role, advertiser, scanner, loaded, events, link, raced>>

DiscoveryInitCopied == \* a mutant: the state of the module it resembles
    /\ At("discovery") /\ scanner = "INIT"
    /\ scanner' \in {"READY", "ADVERTISING"}
    /\ Goto("advertise")
    /\ UNCHANGED <<status, role, advertiser, loaded, fault, events, radio, link, raced>>

DiscoveryInit ==
    /\ At("discovery") /\ scanner = "INIT"
    /\ scanner' \in {"READY", "DISCOVERING"}
    /\ Goto("advertise")
    /\ UNCHANGED <<status, role, advertiser, loaded, fault, events, radio, link, raced>>

DiscoveryTasksAlways == \* a mutant: not only when idle
    /\ At("discovery") /\ scanner # "INIT"
    /\ Goto(IF scanner = "DISCOVERING" THEN "scan_checks" ELSE "advertise")
    /\ UNCHANGED <<status, role, advertiser, scanner, loaded, fault, events, radio, link, raced>>

DiscoveryTasks ==
    /\ At("discovery") /\ scanner # "INIT"
    /\ Goto(IF scanner = "DISCOVERING" /\ IsIdle THEN "scan_checks" ELSE "advertise")
    /\ UNCHANGED <<status, role, advertiser, scanner, loaded, fault, events, radio, link, raced>>

\* discovery_discovery
DiscoveryChecks ==
    /\ At("scan_checks")
    /\ Goto(IF {"DISCOVERING", "CONNECTING"} \intersect status = {}
            THEN "scan_start" ELSE "advertise")
    /\ UNCHANGED <<status, role, advertiser, scanner, loaded, fault, events, radio, link, raced>>

\* The return code is not looked at.
DiscoveryStart ==
    /\ At("scan_start")
    /\ radio' = IF "CONNECTING" \in radio THEN radio ELSE radio \union {"DISCOVERING"}
    /\ Goto("scan_load")
    /\ UNCHANGED <<status, role, advertiser, scanner, loaded, fault, events, link, raced>>

\* status_set in the main loop: m_status |= status.
StatusLoad(load, store) ==
    /\ At(load)
    /\ loaded' = status
    /\ Goto(store)
    /\ UNCHANGED <<status, role, advertiser, scanner, fault, events, radio, link, raced>>

StatusStore(store, flag, next) ==
    /\ At(store)
    /\ status' = loaded \union {flag}
    /\ loaded' = {}
    /\ Goto(next)
    /\ UNCHANGED <<role, advertiser, scanner, fault, events, radio, link, raced>>

MainStep ==
    \/ AdvertiseInit \/ AdvertiseTasks \/ AdvertiseChecks \/ AdvertiseStart
    \/ DiscoveryInit \/ DiscoveryTasks \/ DiscoveryChecks \/ DiscoveryStart
    \/ StatusLoad("adv_load", "adv_store") \/ StatusStore("adv_store", "ADVERTISING", "discovery")
    \/ StatusLoad("scan_load", "scan_store") \/ StatusStore("scan_store", "DISCOVERING", "advertise")

-----------------------------------------------------------------------------
(***************************************************************************)
(* The event interrupt.                                                    *)
(***************************************************************************)
Handles(type) ==
    /\ fault = "none"
    /\ events # <<>> /\ Head(events).type = type
    /\ events' = Tail(events)
    /\ raced' = (raced \/ pc \in StartWindow)
    /\ UNCHANGED <<advertiser, scanner, pc, loaded, link>>

\* Mutants: the connection is not recorded, or the advertising not called off.
ConnectedUnmarked ==
    /\ Handles("connected")
    /\ role' = Head(events).role
    /\ status' = status \ {"CONNECTING", "ADVERTISING"}
    /\ UNCHANGED <<fault, radio>>
ConnectedStillAdvertising ==
    /\ Handles("connected")
    /\ role' = Head(events).role
    /\ status' = (status \ {"CONNECTING"}) \union {"CONNECTED"}
    /\ UNCHANGED <<fault, radio>>

\* connect_on_ble_evt, which on a central starts the service discovery (a call
\* that fails if the link has gone), then advertise_on_ble_evt.
Connected ==
    LET newRole == Head(events).role
        gone == newRole = "central" /\ link = "none"
        flags == (status \ {"CONNECTING"}) \union {"CONNECTED"}
    IN  /\ Handles("connected")
        /\ role' = newRole
        /\ fault' = IF gone THEN "discover" ELSE fault
        /\ status' = IF gone THEN flags ELSE flags \ {"ADVERTISING"}
        /\ radio' = IF ~gone /\ "ADVERTISING" \in flags
                    THEN radio \ {"ADVERTISING"} ELSE radio

\* A mutant: the connection's end is not recorded.
DisconnectedUnmarked ==
    /\ Handles("disconnected")
    /\ role' = "invalid"
    /\ UNCHANGED <<status, fault, radio>>

Disconnected ==
    /\ Handles("disconnected")
    /\ status' = status \ {"CONNECTED"} /\ role' = "invalid"
    /\ UNCHANGED <<fault, radio>>

\* advertise_cancel and discovery_cancel: nothing is stopped whose flag is clear.
Stopped(flags) == radio \ (flags \intersect {"ADVERTISING", "DISCOVERING"})

\* connect_connect.  A cancelled connection attempt that has just succeeded, and a
\* connection while one is attempted or established, are refused by the stack; a
\* scan that is still running is ended by it.
ConnectConnect ==
    LET cancels == "CONNECTING" \in status
        cancelFails == cancels /\ "CONNECTING" \notin radio
        refused == link = "central" \/ ("CONNECTING" \in radio /\ ~cancels)
    IN  /\ fault' = IF cancelFails THEN "connect_cancel"
                    ELSE IF refused THEN "gap_connect" ELSE fault
        /\ status' = (status \ Procedure)
                         \union (IF cancelFails \/ refused THEN {} ELSE {"CONNECTING"})
        /\ radio' = IF cancelFails \/ refused THEN Stopped(status)
                    ELSE (Stopped(status) \ {"DISCOVERING"}) \union {"CONNECTING"}

\* discovery_on_ble_evt: a report that names the service.
AdvReport ==
    /\ Handles("adv_report")
    /\ IF "CONNECTED" \in status THEN UNCHANGED <<fault, status, radio>> ELSE ConnectConnect
    /\ UNCHANGED role

Interrupt == Connected \/ Disconnected \/ AdvReport

-----------------------------------------------------------------------------
(***************************************************************************)
(* The radio (external).                                                   *)
(***************************************************************************)
Raise(e) == Len(events) < MaxEvents /\ events' = Append(events, e)

HearsReport ==
    /\ "DISCOVERING" \in radio
    /\ Raise([type |-> "adv_report"])
    /\ UNCHANGED <<appVars, radio, link, raced>>

IsConnectedTo ==
    /\ "ADVERTISING" \in radio /\ link = "none"
    /\ Raise([type |-> "connected", role |-> "peripheral"])
    /\ radio' = radio \ {"ADVERTISING"} /\ link' = "peripheral"
    /\ UNCHANGED <<appVars, raced>>

Connects ==
    /\ "CONNECTING" \in radio /\ link = "none"
    /\ Raise([type |-> "connected", role |-> "central"])
    /\ radio' = radio \ {"CONNECTING"} /\ link' = "central"
    /\ UNCHANGED <<appVars, raced>>

LinkLoss ==
    /\ link # "none"
    /\ Raise([type |-> "disconnected"])
    /\ link' = "none"
    /\ UNCHANGED <<appVars, radio, raced>>

\* The fault handler, the watchdog or the player resets the device.
Reset ==
    /\ status' = {} /\ loaded' = {} /\ role' = "invalid"
    /\ advertiser' = "INIT" /\ scanner' = "INIT"
    /\ pc' = "advertise" /\ fault' = "none"
    /\ events' = <<>> /\ radio' = {} /\ link' = "none"
    /\ raced' = FALSE

Radio == HearsReport \/ IsConnectedTo \/ Connects \/ LinkLoss
Next == MainStep \/ Interrupt \/ Radio \/ Reset

Spec == Init /\ [][Next]_vars

\* The main loop turns and a waiting event is handled.  Nothing is assumed of the
\* radio: nobody may be there.
FairSpec == Spec /\ WF_vars(MainStep) /\ WF_vars(Interrupt)

-----------------------------------------------------------------------------
(***************************************************************************)
(* Properties.                                                             *)
(***************************************************************************)
Settled == events = <<>> /\ pc \notin StartWindow /\ fault = "none"

\* A device never does two things at once, although BUTTON_1 is sampled twice and
\* may have made it both an advertiser and a scanner (advertise.c:32,
\* discovery.c:31), and although interrupts may spoil its flags.
OneThingAtATime ==
    /\ Cardinality(radio) <= 1
    /\ link # "none" => radio = {}

\* A device that believes to be idle is: what it starts next is not refused, even
\* after a status word was overwritten (status.c:71).
IdleIsIdle == Settled /\ IsIdle => radio = {} /\ link = "none"

\* A device stops itself only while it scans, and only on old news: it cancels a
\* connection attempt, or uses a connection, whose end is an event it has not handled
\* yet (connect.c:153, connect.c:60); the start of the advertising and that of a
\* connection are never refused (advertise.c:106, connect.c:118).
Waits(type) == \E i \in 1 .. Len(events) : events[i].type = type
FaultsAreLate ==
    fault # "none" =>
        /\ scanner = "DISCOVERING"
        /\ fault = "connect_cancel" => Waits("connected")
        /\ fault = "discover" => Waits("disconnected")
        /\ fault \notin {"adv_start", "gap_connect"}

\* When no event waits the status word tells what the radio does - unless an event
\* was once handled between a start and its flag.
Truth == radio \union (IF link = "none" THEN {} ELSE {"CONNECTED"})
FlagsAgree == Settled /\ ~raced => status = Truth

\* A device that looks for the other goes on looking whenever a link is lost - with
\* the same exception, which leaves a flag set that nothing clears any more: the
\* device is then never idle and does nothing until it is reset.
ComesBack ==
    (advertiser = "ADVERTISING" \/ scanner = "DISCOVERING")
        ~> \/ radio # {} \/ link # "none"
           \/ fault # "none" \/ raced \/ advertiser = "INIT" \/ scanner = "INIT"

=============================================================================
