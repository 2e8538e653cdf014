# WaterBall: TLA+ specifications and proofs

WaterBall is a two-player game on a pair of Nordic nRF51 boards. Each board counts
its player's score, the boards exchange scores over Bluetooth Low Energy, and when a
game ends the loser is squirted with water. This directory specifies the firmware's
concurrent core in TLA+, model-checks it with TLC and proves its safety properties with TLAPS.
Paths such as `game.c:123` are relative to `src/WaterBall/`; the bootloader's files are
in `src/Bootloader/`.

Contents: 1 the system, 2 the modules, 3 the runs, 4 what the checks found,
5 assumptions, bounds and fairness, 6 the proofs, 7 what is not covered and the plan.

## 1. The system

Both boards run the same program. Holding BUTTON_1 at boot makes a board the
*peripheral* (it advertises and becomes the GATT server), otherwise it is the *central*
(it scans and becomes the GATT client). There is no scheduler and no lock. Three levels
of execution share plain static variables:

- **the main loop** (`main.c:56-75`) calls one `*_tasks()` function of each component
  per turn, for ever;
- **application interrupts**, all of one priority: BLE events (`ble_stack.c:34-40` hands
  each to service, connect, advertise and discovery in turn), buttons, the UART. They
  preempt the main loop between any two of its instructions and do not preempt each
  other;
- **the SoftDevice** (Nordic's closed BLE stack), above both.

A failed `APP_ERROR_CHECK` stops a board until the watchdog resets it. The watchdog is
started by the first turn of the main loop and fed once per turn (`watchdog.c:37-57`);
it needs 2 s. The bootloader is a program of its own, with one level of execution that
matters: everything its transport does runs from a scheduler, one handler after another.

| component | state | operations | interacts with | hard part | correct when |
|---|---|---|---|---|---|
| game (`game.c`) | `m_game_state`, own and cached opponent score, three tick stamps, the water output | `game_tasks`, `game_event_handler`, `game_set_state`, `game_set_my_score` | written by main loop, buttons and BLE handler; calls the service layer and the clock | the main loop acts on a state that an interrupt may have replaced | games start from zero, verdicts use the final score, only the loser is squirted, a stop stops |
| clock, watchdog | the 24-bit RTC counter; the watchdog's own | differences of readings; feed | read by game | wrap-around; a main loop that hangs | no phase is cut short or runs on |
| service server | connection handle, state, scores, parameters | reads, writes and system attributes as events; indications as calls | called by game in both contexts; the stack | sends spin on `NRF_ERROR_BUSY` in any context | each request answered, last score arrives |
| service client | handle, state, the server's parameters and score | chain of discovery and reads; score writes; confirmations | as above; sets the game's state | one answer triggers the next request, whose code is ignored | the session forms and stays live |
| connect, advertise, discovery, status | the status flags, role, the two role choices | start and cancel radio procedures; CONNECTED, DISCONNECTED, ADV_REPORT | main loop starts, interrupt handlers clear | flag set after the call; read-modify-write in two contexts | flags tell what the radio does, a lost link is found again |
| buttons | the table of pins and handlers | debounced events (SDK) | game, advertise, discovery | BUTTON_1 sampled twice | one role per board |
| serial | receive ring, state, error code | `serial_tasks`, read line, read existing, open, close, write | the UART's interrupt; only `serial_tasks` and game's write are called | a FIFO filled by an interrupt, a ring that rolls over and drops its oldest byte, a reader that is interrupted | bytes are returned in order and once |
| storage | two RAM copies of one flash page, its checksum, the owner's variable | init, update, clear; swap page | pstorage (SDK), whose commands it waits for; pauses connecting and scanning | a reset or a failure between any two flash operations; a wait that needs system events | old or new value survives, a store that ended well is kept |
| device manager | SDK handles | init, which clears its flash page | pstorage, ahead of storage | - | - |
| dfu entry | SDK handles | reset into the bootloader | storage, SDK | - | - |
| seven segment, i2c, ir led | what is displayed | set digits; PWM | i2c driver | cache of the colon | display follows score |
| bootloader (`src/Bootloader`) | DFU packet type, counters, final packet, connection and advertising flags, peer data; GPREGRET | `main`, control point and packet writes, flash callbacks, GAP events | SDK's DFU state machine, flash queue, buffer pool; RAM shared with the application | commands, flash callbacks and GAP events in any order | reachable after a loss; buffers return; success reported when it is one; the new application starts |

The components without a module so far, and why, are in section 7.

## 2. The modules

| module | models | role |
|---|---|---|
| `ServiceCalls` | the interface between game and service layer: a call per device and context that may spin | shared by the next ones |
| `Game` | `game.c` on each device; time and radio left open | core component |
| `GameProofs` | - | theorems about `Game` |
| `GameClock` | `clock.c`, the tick stamps of `game.c`, `watchdog.c`, `main.c` | refines `Game` with time |
| `GameClockProofs` | - | theorems about `GameClock` |
| `ServiceLink` | `service_server.c`, `service_client.c`, the SoftDevice between them | component |
| `Session` | `ServiceLink` driven by any game | the link alone |
| `SessionProofs` | - | theorems about `Session` |
| `Gap` | `advertise.c`, `discovery.c`, `connect.c`, `status.c` and the radio of one device | component |
| `GapProofs` | - | theorems about `Gap` |
| `Match` | two `Game`s over one `ServiceLink` | composition, implements `Game` and `Session` |
| `MatchProofs` | - | theorems about `Match` |
| `Dfu` | the bootloader: `main.c`, `dfu_transport_ble_custom.c`, `dfu_ble_svc.c` | component |
| `DfuProofs` | - | theorems about `Dfu` |
| `ByteQueue` | what `serial.h` promises of received bytes: one queue | abstract specification |
| `SerialPort` | `serial.c`: FIFO, ring, readers, opening and errors | component, implements `ByteQueue` |
| `SerialProofs` | - | theorems about `SerialPort` |
| `PersistentValue` | what `storage.c` provides of a value across resets, which is less than its comments say | abstract specification |
| `Storage` | `storage.c`, the flash and pstorage's queue | component, implements `PersistentValue` |
| `StorageProofs` | - | theorems about `Storage` |
| `MCGame`, `MCGameClock`, `MCSession`, `MCMatch` | - | bounds for TLC |

### Game

`gameState`, `myScore` and `theirScore` are the statics `m_game_state`, `m_my_score` and
`m_their_score`. `main[d]` is the main loop: a program counter and the two locals of
`game_tasks`, the copies of the scores it reads before its `switch`. Each access of
`game_tasks` to a variable that an interrupt also writes is a step of its own, so a case
of the `switch` that calls the service layer and then assigns `m_game_state` is two or
three steps, with interrupts between (but the state stored at the end of a case and the switch of the output
beside it, as in `game.c:176-180`, are one). Interrupt handlers (`Button2`, `Button3`,
`Button4`, `PeerIndication`) are single steps that wait for `InterruptIdle`, up to the
call they may make to the service layer, which occupies their context until it returns.
`LinkEvent` is everything the service layer may do to what the game reads from it:
role and opponent's score. `Reset` is a watchdog or fault reset. `display` keeps only what
kind of thing is displayed: PASS and FAIL must agree with the water.

### GameClock

Adds the wrapping counter, the stamps and the watchdog. `Expired` replaces `Game`'s free
`expired`, so that every behaviour here is one of `Game`, with the identity as the mapping; the theorem
`ClockImplementsGame` proves it.

### ServiceLink, Session

A device's `events` are BLE events that wait for its event interrupt; `toServer` and
`toClient` are PDUs on the air. Busy flags are cleared by the stacks, above the
interrupts, so a handler that spins on `NRF_ERROR_BUSY` can be released by the other
device - if that one's interrupts are not spinning as well. `CallChecks` is a send's tests
of state and handle, `SendIndication`, `SendWrite`, `DropIndication` and `SendFaults` the
outcomes of its loop; between the two the link may go. `Session` adds arbitrary calls, in
the orders in which the contexts of `game.c` can make them, and history variables.

### Gap

`MainStep` splits each start of a radio procedure into its tests, the call, and the load
and the store of the status word; a waiting event is handled before the next of these
steps, and may arrive before any of them. `raced` records that an event was handled
between a call and the store of its flag.

### Match

`Match` instantiates `Game` over `ServiceLink`'s state: `Role` and `PeerScore` are
computed from it, and the call variable is shared. A turn of the main loop or a press is
`Game`'s action, the progress of a call is `ServiceLink`'s, and an indicated state is
both (`Indicates`). It implements both parts: `ImplementsGame` and
`ImplementsSession` are action properties under that mapping, and `MatchProofs` proves them.

### Dfu

`transport` is the record of the static variables of `dfu_transport_ble_custom.c` (bytes
are counted in packets; the connection handle is whether there is one), `phase` is where
`main` is, `dfuStart`, `resetFlag` and `peerRam` are its local, GPREGRET and the RAM that
a reset leaves alone. `radio` and `bank` are external: the link with the GAP events that
wait for the scheduler, and the SDK's image state, queue of flash operations and buffers.
Each case of `on_dfu_evt`, `on_ble_evt` and `dfu_cb_handler` is an action, those with an
outcome the SDK decides have one per outcome (`StartPacket` and `StartPacketRefused`). A
failed `APP_ERROR_CHECK` leads to `phase = "fault"`, from which the error handler resets the
device. The checks are those of the calls that need the link (`Respond`, `HangUp`), of
`hci_mem_pool_rx_consume` in the flash's callback (`Stored`), of `sd_ble_gatts_sys_attr_get` on
DISCONNECTED and of the start of the advertising (`Advertise`). A buffer is in use from
`hci_mem_pool_rx_produce` until it is consumed; `DataPacketLost` is the path of `app_data_process` that
returns in between without consuming it (`:434-446`), and the history field `lost` has the buffers
given up there and by failed stores. `Close` leaves out the branch of
`dfu_transport_close` for a device without a connection (`:1098-1102`): its callers have one. A command can be handled after its link is gone, as long as
the DISCONNECTED event waits behind it. `told` is history: what the controller has been
told, for the properties.

### SerialPort

`state`, `ring`, `readI` and `writeI` are the statics of `serial.c`, `uart` is the SDK's
FIFO with its interrupt. `main` says where the main loop is: in `serial_tasks`, in its loop
over the FIFO, in `serial_try_open` between `app_uart_init` and the assignment of the
state, or inside `serial_try_read_line`. The interrupt may add a byte or report an error
before any of these steps. The refinement mapping takes `ByteQueue`'s queue to the bytes
of the ring from the read index on, followed by those of the FIFO; so moving a byte from
one to the other must not be noticed, and every value returned must be a prefix.

### Storage

`page` and `swap` are flash, `flashed`, `volatile` and `local` the two copies in RAM and
the variable of the value's owner; a reset clears these and keeps those. A page is the
value's word and its checksum: `storage_address_t` has one word before the checksum, so the
sum is that word, and a page that is erased passes the check. The extra word
`USED_FOR_SWAPPING` only makes an update partial, which decides between `SwapUpdate` and
`FullUpdate`. `cmds` is pstorage's queue: the operation that each command comes to next, with
the device manager's clear of every boot in front. `FlashOp` does one, reading the words to
write from `flashed` at that time, as pstorage does; `FlashFails` ends a command half-way.
The loop in `storage_store_data` is the place `store` (or `recover`, in `storage_init`) of
the main loop, which leaves it when the queue is empty. `wired` says whether the
application passes system events to pstorage, which its header asks for and this version
does not do; both are modelled, because the rest of the file is written for the former.
Updates and clears have no caller in this version and are modelled for any in the main
loop. `write` is history: what a boot would have found when the last store began, whether
the page was intact then, whether the store failed, and, in `saved`, the value that the owner is
known to have stored. The refinement maps
`PersistentValue`'s `stored` to what a boot would find in `page` and `swap`, and its `held` to the
copy in RAM that `storage_update_value` compares with; so skipping the store of an equal
value, falling back to the swap page and the operations of the flash must not be noticed.
`PersistentValue` is what the code does, not what its comments promise: an unfinished write may
leave nothing (`NoValue`, the erased word), and the owner's default stands in for nothing and for a
stored `NoValue` alike (`UsesDefault`). What the comments promise is `StoredComesBack`,
and the run `storage_stored` refutes it.

## 3. The runs

| run | question | shows | bounds |
|---|---|---|---|
| `game` | do interrupts between the statements of `game_tasks` spoil a game? | `FreshGame`, `VerdictIsFinal`, `WaterOnlyForLoser`, `StopCompletes` hold | one device, MAX_SCORE 2 |
| `game_stop` | "Otherwise stop the game." | violated | same |
| `game_clock` | do phases last as long as they should when the counter wraps and calls hang? | `PhasesAreBounded`, `PhasesRunTheirTime`, `GamesEnd` hold | counter modulo 5, phases of 1 tick, watchdog of 2 |
| `session` | is a busy flag ever stuck, a score lost, a session not formed? | `BusyIsBacked`, `QuietMeansAgreed`, `ChainIsRead`, `SessionForms` hold | 3 calls, one loss or reset at any point |
| `session_busy` | "Keep trying to send the message if it is busy." | violated | 3 calls, no loss |
| `session_fault` | does the check after a send hold? | violated | 1 call, no loss |
| `gap` | do flags and radio agree; does a board come back after a loss? | `OneThingAtATime`, `IdleIsIdle`, `FaultsAreLate` hold; `FlagsAgree`, `ComesBack` hold unless raced | 4 waiting events |
| `match` | does the composition do what its parts were assumed to do? | `ImplementsGame`, `ImplementsSession`, `ScoresReachOpponent` hold | 2 presses, one loss or reset, one link |
| `dfu` | can an order of commands, flash answers and GAP events strand the bootloader, lose a buffer or a count, or report what is not so? | five invariants about it, `OnlyLossesStop`, `FinalIsAnswered` and `NewAppStarts` hold | 2 buffers, images of 1 or 3 packets, targets 1 and 2, 2 directed advertisements |
| `serial` | are bytes kept in order through FIFO, ring and readers, and is none left behind? | `ImplementsQueue`, `NothingIsStuck` hold | ring of 4, FIFO of 2, three kinds of byte |
| `storage` | does a value survive resets and failures at any point; does a store end? | `ImplementsValue`, `OnlyErasureLoses`, `StoredIsRead`, `StoresEnd` hold | words of 2 bits, any first contents |
| `storage_stored` | "it is possible that our flash page is empty (or corrupt), so see if the checksum is correct" | violated | same |

Why the bounds are enough to be of interest. *Game*: devices in `Game` share no
variable, so one device has all behaviours of a device; with MAX_SCORE 2 the scores 0, in
between, and at the limit differ. *GameClock*: a counter modulo 5 wraps inside every
phase plus the two turns of slack, which is the least wrap `ClockAssumption` allows; the
real ratios (24 bits of a 32768 Hz counter without prescaler: 512 s against 60 s) are
more generous. *Session*: three calls are what it takes for a call to be preempted by
another while the opponent sends; a loss may fall anywhere, in particular between the
checks of a send and the send. *Match* starts from power on; presses and losses begin
once the session is formed and both games wait, because `session` covers losses while it
forms. Two presses start a game and then score, win or stop, on either device. *Gap*: four
waiting events are two more than any of its scenarios needs. *Dfu* needs no bound on the
number of events, losses or resets: its state is finite. An image of three packets is
longer than the pool of two buffers, so that a buffer is used again for the final packet,
and an image of one is all final packet; a target of 1 notifies each packet and 2 not.
*SerialPort*: a ring of four slots holds three bytes, so that it fills, rolls over at every
index and holds lines across the rollover; the FIFO then holds bytes behind a full ring.
The bytes are a newline, the NUL that ends the search for one, and any other.
*Storage* is finite but for the width of a word: with four words the old value, the new one,
the default and an erased word differ, and both pages start with any contents, right or wrong.

Deadlock is checked in `game`, `game_clock`, `gap`, `dfu`, `serial`
and `storage`. In the session and match runs the
bound on calls, presses and losses makes an end state the normal end of a run (a faulted
device waits for a reset that the bound no longer allows), so it is off there.

Each property is violated by at least one *mutant*, a plausible bug written next to the
definition it would replace and marked as such in the module.

## 4. What the checks found

1. **A stop can be overwritten** (`game_stop`). A button's interrupt that stores INIT
   while `game_tasks` is inside a case is overwritten by the assignment with which the
   case ends (`game.c:146` and similar), and the game goes on, against the comment
   at `game.c:48`. `StopCompletes` shows that this is the only way: a stop that finds the
   main loop elsewhere is carried through.
2. **Two spinning interrupts wait for each other** (`session_busy`). If both players'
   buttons publish while the stacks are busy, each interrupt spins for an answer that
   the other device gives in an interrupt that cannot run. The watchdog ends it.
3. **An early indication stops the server** (`session_fault`). The server considers itself
   connected from the read of its info, but its system attributes are set only at the
   client's first CCCD write. An indication in between fails with a code that is not
   excused.
4. **An empty page is not noticed** (`storage_stored`). Because `storage.c:278` sums one word, an erased
   page passes the check of `storage.c:83`, which the comment above it says is there for that
   page. A reset between the erase and the first write loses the value although the swap page
   holds it, and the owner gets the initial value that `storage.h:148` has for a value never
   stored. `OnlyErasureLoses` shows that this is the only such point.

The fourth needs system events to reach pstorage, as its header asks; in this version they do not
(`ble_stack.c:43`), and no store ends at all: an update would hold the main loop until the
watchdog, and the recovery in `storage_init`, which runs before the watchdog is started, until the
power is cut (`StoresEnd`).

More observations, which the passing properties exclude or describe. In `Gap`, an event handled
between a start of the radio and the store of its flag is overwritten, or its flag is set when it is
over (`status.c:71`); nothing clears it, and the board is never idle again: `FlagsAgree` and
`ComesBack` except that race, `OneThingAtATime` and `IdleIsIdle` hold in spite of it. A second
advertising report that is queued while the first one's connection succeeds makes the
central cancel an attempt that is over, and the check of `connect.c:153` stops it; and the
handler of a connection that is lost again before it runs stops it in the service
discovery. `FaultsAreLate` shows that these are the only two ways, both on news that an
event still waiting would have brought. In `Game`, a client that is sent
INITIALIZING_GAME during WATER leaves its output active into the next game; that is why
`WaterOnlyForLoser` speaks of devices that cannot be clients. In `SerialPort`, an error that
the interrupt reports between `app_uart_init` and the assignment at `serial.c:135` is
overwritten, so `serial_tasks` never sees it. And `serial_try_read_line` searches beyond the
bytes it copied (`serial.c:198`): given a buffer that still holds an earlier newline, it would
move the read index past the write index. No caller exists in this version, and the model
gives each call a cleared buffer.

In `Storage`, a second store between a failed one and the next turn of `storage_tasks` copies
the spoilt page over the only good one. A stored word of all ones is taken for none
(`storage.c:146`), which is a second way to break `StoredComesBack`; `StoredIsRead` shows that every
other value comes back. And the end of `storage_init` overwrites the state in which its own store
has reported a failure (`storage.c:102`), so that nobody hears of it.

In `Dfu`, a loss of the link can stop the bootloader. When the link goes while the flash is erased
or the final packet is stored, advertising restarts, as the comment at
`dfu_transport_ble_custom.c:806-809` says, but the answer of the flash is still sent (`:267`, `:255`),
fails without a link, and its check resets the device instead of letting the controller
reconnect. A store that fails when the link has just gone, or after another one that failed,
disconnects by a handle that outlives the link, and the check at `:243` does the same.
`OnlyLossesStop` shows that every stop of the bootloader is such a call after the link has gone:
each of the other checked calls finds what it needs. Each packet for which the pool refuses one of its
two calls after it produced the buffer, and each failed store, makes the pool smaller until a
reset; `BuffersComeBack` shows that nothing else does.

## 5. Assumptions and fairness

The SoftDevice and the SDK are not in the repository. They are modelled by what the code
tests for and handles; those definitions are marked external:

- `sd_*` calls are atomic; at most one indication and one client request are outstanding,
  and a further one returns `NRF_ERROR_BUSY`; write commands are queued and do not make the
  client busy, and there is buffer space for the three the client issues at a time;
- a missing system attribute is reported before a CCCD that is not enabled; a dead link is
  reported as an invalid handle; events already queued survive the link they came from;
- a service discovery finds the service in its first pass and nothing in the second (the
  code reads the info on the latter, `service_client.c:67-79`);
- ATT's own timeout is 30 s, so a spinning call always meets the 2 s watchdog first: the
  GATT timeout handlers are not modelled. Every GAP procedure is started without limit, so
  neither are its timeouts;
- `sd_ble_gap_connect` ends a scan that still runs, and is refused while another attempt
  or connection exists in its role (one central and one peripheral link, `ble_stack.h:21-22`).
- for the bootloader: `ble_dfu_response_send` and its like, and `sd_ble_gap_disconnect`, fail
  without a link; the service turns a notification target of zero into a DISABLED; the
  bank takes packets up to the image's size and answers the erase, each store and the
  settings in the order they were queued; the image is an application (an update of the
  SoftDevice or of the bootloader itself is left out); the transmit queue is never full; the
  pool consumes a buffer that it has given out, refuses any other, may refuse a buffer's size
  or its extraction, and does not give out again a buffer that was not consumed; the stack
  refuses the system attributes without a connection's handle, and advertising while it advertises
  or has its link; `ble_conn_params_stop` stops a timer and does not fail;
- for the serial port: flow control holds the peer while the FIFO is full, `app_uart_init`
  empties the FIFO, and callers of the readers run in the main loop;
- for the storage: pstorage carries out its commands in order, an update of a part of the
  page by way of the swap page and of the whole page without (the comment at
  `storage.c:252`), and goes on when it is handed a system event; a word is written at once
  and a page erased at once; the device manager's clear leaves the page and the swap
  page alone.

Fairness is weak but for `NextTurn` in `SerialPort` and `Storage`. `GameClock`: the main loop steps while nothing holds it,
time passes, the watchdog fires - and nothing is assumed of calls returning, which is the
point of `GamesEnd`. `Session`: the stacks work; a pending interrupt is served when it
can run; a call that can proceed does. The spin loops re-try continuously, so a send
enabled from some time on does succeed, but nothing stronger is assumed: an adversary may
keep the stack busy. `Gap`: the main loop and the event interrupt run; nothing is assumed
of the radio. `Dfu`: `main` goes on, the error handler resets, the flash answers, and the
scheduler hands over GAP events; nothing is assumed of the controller or the link.
`FinalIsAnswered` needs the flash to answer, `NewAppStarts` that `main` goes on (and
GPREGRET is cleared, whatever happens in between). `SerialPort` and `Storage`: the main loop runs, and a turn of it ends (strong
fairness of `NextTurn`) because it makes a finite number of calls, which the model, with
calls of any number in a turn, would not imply; nothing is assumed of the interrupt.
Nowhere is a loss, a reset or a press assumed to happen.

## 6. The proofs

`GameProofs` proves for every set of devices and every MAX_SCORE > 0:

- `TypeCorrect`: `Spec => []TypeOK`; scores never leave 0..MAX_SCORE;
- `GamesStartFresh`: `Spec => []FreshGame`;
- `VerdictsAreFinal`: `Spec => []VerdictIsFinal`;
- `OnlyLosersGetWet`: `Spec => []WaterOnlyForLoser`;
- `StopsComplete`: `Spec => StopCompletes`, an action property.

The argument. None of the three invariants after `TypeCorrect` is inductive, because the main loop acts on the
state it dispatched on and not on the state there is. The invariant `IInv` adds, for each
place of `game_tasks`, what interrupts can have made of `m_game_state` meanwhile. The key
fact is that an interrupt can never *enter* PLAYING, the only state in which a button
scores: so a score that was reset while the main loop was inside INITIALIZING_GAME stays
zero (`ScoreIsReset`), and the copy of the score taken before a GAME_OVER case stays right
(`CopyIsGood`). `WaterIsWatched` states that while the output is active the main loop is
somewhere from which INIT or WATER will shut it; it also gives `StopsComplete` what it
needs, that such a device is never a client. `IInv` speaks of one device at a time;
`DeviceInvMain` and `DeviceInvOther` show that a device's steps keep its part, with one
case per action, and `OthersUntouched` that they leave other devices alone. The only
assumption is `MaxScoreAssumption`, that MAX_SCORE is a positive number.

`GameClockProofs` proves three of the four properties of the run `game_clock`, and the
refinement of `Game`, for a counter of
any width, phases of any length and any watchdog that `ClockAssumption` allows:
`ClockTypeCorrect`; `ClockImplementsGame`, after which `GameProofs`' theorems hold of the timed
device too; `PhasesEndInTime`; and `PhasesLast`. The bounds on a phase need more than a bound:
a stamp older than the counter's period gives a meaningless difference. `TimeInv` therefore
adds `GameProofs`' `IInv`, which says that no other stamp is taken while a phase lasts, and,
for the count down, the play and the water, that

- the difference from its stamp is exactly the time since the stamp (`InitExact`,
  `StartExact`, `WaterExact`), which a tick keeps (`DifferenceGrows`) as long as the age is less
  than the period of the counter;
- the age is less than the phase's time and what can have passed since the main loop last
  looked (`SinceLooked`): this turn and, before the phase's case in this turn, the one
  before. The watchdog bounds both, except before it is fed first, when nothing is played
  (`NotYetFed`).

Each of the two needs the other; `TimeMain` has one case per statement of `game_tasks`,
`TimeTick` the argument about the clock. `ClockAssumption` is used in full: a phase and two
periods of the watchdog fit into the counter, and below the bound of `age`.

`DfuProofs` proves the six invariants and the action property of the run `dfu` for every pool of buffers, every set
of image sizes and notification targets and every limit of directed advertising:
`DfuTypeCorrect`, `OnlyLossesStopIt`, `AlwaysReachable`, `NoBufferLost`, `ReportsAreRight`,
`NoticesAreOnTime`, `SuccessIsReal`. The one inductive invariant `IInv` has these parts:

- `RadioInv`: there are five queues of GAP events that can wait (none, CONNECTED, CONNECTED
  then DISCONNECTED, DISCONNECTED, an advertising time-out), and each determines how the
  link and the advertising relate to `m_conn_handle`, `m_is_advertising` and
  `m_tear_down_in_progress`. Reachability is its case of no event.
- `DirectInv`: when the count of directed advertisements is zero nothing is left that could
  decrement it again; `NoticeInv`: the count until a notification and the packets since the
  last one add up to the target. Types need both.
- `FlashInv`: an operation other than the settings is in the queue once, the buffers in use are
  those in the queue and those given up, and an erase is queued only in the state that waits for it. `FinalInv`: the final
  packet completes the image and no store is behind it in the queue. Together they give
  `SuccessIsReal`: the callback that matches `mp_final_packet` is the last store's. The
  lemmas `StoresAppend` and `StoresTail` count stores as the queue grows and shrinks.

`StopStep` draws `OnlyLossesStop` from two of them, action by action: `FlashInv` has the buffer that
a callback consumes in use, whatever was refused or lost before; `RadioInv` has the handle set, and
the radio silent, whenever DISCONNECTED or a time-out is handled.

The only assumption is `DfuAssumption`: buffers are neither each other's nor other
operations' names, and sizes, targets and the limit are positive.

`StorageProofs` proves four of the five properties of the run `storage` for words of any
width, any default and anything in flash at first: `StorageTypeCorrect`,
`ErasureAloneLoses`, `StoredValueIsRead` and `StorageImplementsValue`, the refinement of `PersistentValue`. What
a boot would find says nothing of the swap page as long as the page is readable, so
`IInv` follows a store through flash:

- `QueueInv`: the device manager's command and one store are all that can be queued, and
  from where in the main loop; `CopiesInv`: the copy to be written has the right checksum, and
  what the program holds is what it writes.
- `StageInv`: what the page and the swap page hold before each operation: the page as it
  was while it is copied (`PageInv`), then a backup that is as good as the page was
  (`BackupInv`), with the page erased, half written, written. `OpStage` shows that each
  operation leaves what the next expects, `OpKept` what a boot finds after it.
- `KeptInv`: while a store goes on a boot finds the old value, the new one or the default, and
  the new one once the queue has emptied without a failure.

- `SavedInv`: a value known to be stored is what a boot finds, through every step that is not a
  store, and what the owner and its copies hold once they are initialised; all ones excepted.

`Simulation` then maps each action to a step of `PersistentValue` or to a stutter. The
only assumption is `StorageAssumption`: an erased word is not zero and not the default.

`SerialProofs` proves for a ring and a FIFO of any size `SerialTypeCorrect` and
`SerialImplementsQueue`, the refinement of `ByteQueue`. No invariant but the types is needed,
since the mapping already says which slots of the ring hold bytes; the work is in the
arithmetic that rolls over:

- `FillFacts` and `SlotFacts`: how a read and a write change the number of bytes, and that the
  slot written next is none of those that hold one and comes right after them.
- `MovedByte`, `TakenBytes`: a byte that goes from the FIFO to the ring leaves the queue as it
  was; a read index that advances by k takes its k oldest bytes.
- `CopiedFacts`: the two sections `serial_copy_rx_buffer` copies are the bytes in their order;
  `LineFacts`: a copy ends in a line exactly where `strpbrk` stops.

`QueueStep` puts them together, one case per action. The only assumption is
`SerialAssumption`: a ring of at least two slots, a FIFO of at least one.

`GapProofs` proves the five invariants of the run `gap` for any bound on the events that wait:
`GapTypeCorrect`, `DoesOneThing`, `IdleDoesNothing`, `OnlyLateFaults`, `FlagsTellTheTruth`. None
but the first is inductive, because they say nothing while an event waits. What can
wait is simple: some reports, then perhaps a connection, then perhaps its end (`QueueIs`,
whose three numbers the lemmas `QueueTail` and `QueueAppend` follow as events come and go).
For each of these queues the parts of `IInv` say

- `RadioInv`: what the radio can be doing, and the link;
- `ScannerInv`: that only a scanner can hear a report or become a central;
- `FlagInv`: what the status word should be (`Expected`), and how it may differ: inside a start no
  flag is set before the first event, and after one the flag that is set never goes away,
  so that the device is never idle and its radio starts nothing more;
- `FaultInv`: which calls can have failed, and the news that still waits.

The only assumption is `MaxEventsAssumption`, that the bound is positive.

`SessionProofs` proves the four invariants of the run `session` for every MAX_SCORE and any
number of calls, losses, links and resets: `SessionTypes`, `BusyBacked`, `QuietAgreement`,
`ChainRead`. The last three speak of moments when nothing is under way, so `IInv`
has to say at all others where things are. Messages are in four queues, `toServer`, the
server's events, `toClient` and the client's events, and each part says of each queue which
messages it may hold (`Only`) and how many (`Tokens`, which counts places; `TokensAppend` and
`TokensTail` follow it with the library's theorems about cardinality). `Added` and
`Taken` are the forms of both that the steps use.

- `RouteInv`: each queue holds what its other end sends. The invariant is not inductive
  without it: a read among the client's events, which no step puts there, would be handled
  by nobody and spoil the count of `ChainInv`.
- `QueueInv`: a device hears of a link first and of its end last; `StateInv`: the states of
  the services follow the handles, and what is being sent follows both.
- `AirInv`: the two sums of `BusyIsBacked`, and that nothing is asked before the client
  knows of its link - otherwise the request of `ClientConnected`, which ignores the busy
  flag, would make a second token.
- `EnabledInv`: no CCCD is written and no indication comes before the client's service is
  connected.
- `ToldInv`, `WrittenInv`: the score that was sent last is under way, ahead of nothing older
  that could overwrite it, or has arrived; unless a call that publishes the next one has not
  returned.
- `ChainInv`: before the first write there is one message of the chain under way, in one of the four
  queues, and it tells which attributes have been read (`InChain`).

There is one lemma per action of `ServiceLink` (`ClientReadInfoStep` is the longest, since that
handler queues three messages), and `InvStep` collects them. The only assumptions are
`MaxScoreAssumption` and `RolesAssumption`, that there are two devices.

`MatchProofs` proves the three properties of the run `match` for every MAX_SCORE:

- `MatchIsSession`: two real games drive the link only in the orders that `Session` allows, so
  `SessionProofs`' theorems hold of a match (`LinkOfMatch`);
- `MatchIsGame`: a real link tells a game only what `Game` allows, so what `GameProofs` says of
  `Game` holds of both devices (that last step is by instantiation, which tlapm does not do);
- `ScoresArrive`: `MatchSpec => []ScoresReachOpponent`.

Neither part can be shown without the other. An interrupt may not publish a score while the
main loop publishes its reset, and that is a fact about `game_tasks`: the call is made inside the
INITIALIZING_GAME case, whose state no interrupt turns into PLAYING (`ResetInv`). An
indication may set the state of a client only, and that is a fact about the link: the
server indicates nothing before the client has enabled it (`EnabledInv`). So `MatchInv`
joins `SessionProofs`' `IInv` with `ResetInv` and with the parts that follow a score from one
game to the other: a call carries the score of its game until it returns (`CallInv`), the server's
service layer has it once the call has passed its checks (`KeptInv`), and what the client wrote last
is its score unless a call is on its way (`WroteInv`). `MatchInvStep` is the induction, in which
`SessionAllows` first makes each step one of `Session`, so that `InvStep` can be cited for it.
TLC checked the parts that are not `IInv`'s on the run `match` before they were proved.

Only model-checked: the liveness properties (liveness under fairness is out of the proof
system's reach), that is `GamesEnd`, `SessionForms`, `ComesBack`, `FinalIsAnswered`,
`NewAppStarts`, `NothingIsStuck` and `StoresEnd`, and the four properties that the code
violates. Every safety property of the passing runs is a theorem.

## 7. Not covered, and the plan

Left out on purpose: the digits displayed and the text written to the serial port; LEDs;
writes of the game's parameters, which no device of this program makes; bonding; the IR
LED, whose PWM is set once; the display's colon, which alone is cached, before an i2c write
that may give up (`seven_segment.c`, `i2c.c`); `src/Config` (constants) and `src/Tools` (vendored binaries). The entry to the
bootloader is dead code in this version: `dfu_on_ble_evt` is not called by the dispatcher
(`Dfu` keeps it as the step `AppEntersDfu`, because the bootloader is written for it). Of the
bootloader, an update of the SoftDevice, the scheduler's capacity and a full transmit queue
are left out.

Of the storage, a value of several words and a permanent block, which this version does not
have, are left out; so is an update from an interrupt, which its loop would not allow.

Planned, the most important first: the overlapping copy of the peer data
(`dfu_ble_svc.c:56-68`), as a function on a small memory.
