------------------------------ MODULE Storage -------------------------------
(***************************************************************************)
(* The persistent storage, src/WaterBall/storage.c: one value in a page of  *)
(* flash with a checksum, its two copies in RAM, and the swap page, with a  *)
(* reset or a failure between any two operations of the flash.              *)
(*                                                                          *)
(* The program itself calls storage_init and storage_tasks; the value's     *)
(* owner, in the main loop, is modelled for any use of storage.h.  The      *)
(* library pstorage is external: it queues commands, takes them apart into  *)
(* operations on words and pages, and goes on from one to the next when the *)
(* application hands it the system events of the SoftDevice                 *)
(* (pstorage_platform.h).  This version does not: sys_evt_dispatch is empty *)
(* (ble_stack.c:43).  "wired" is whether it is done; both are modelled.     *)
(* m_is_locked is never set and m_auto_flash never cleared.                 *)
(***************************************************************************)
EXTENDS Naturals, Sequences

CONSTANTS
    Empty,      \* an erased word, the largest one: PSTORAGE_FLASH_EMPTY_MASK
    Default     \* what the value's owner initialises it with

Word == 0 .. Empty

ASSUME StorageAssumption == Empty \in Nat \ {0} /\ Default \in Word \ {Empty}

VARIABLES
    page,       \* flash: the page registered with pstorage
    swap,       \* flash: the swap page
    flashed,    \* m_flashed_copy
    volatile,   \* m_volatile_copy
    local,      \* the owner's variable
    state,      \* m_storage_state
    main,       \* where the main loop is
    radio,      \* the flags of status.c that storage.c looks at
    paused,     \* was_discovering
    cmds,       \* external: pstorage's queue: the next operation of each command
    wired,      \* external: system events reach pstorage; never changes
    write       \* history: of the last store, and of the value known to be stored

flash == <<page, swap>>
copies == <<flashed, volatile, local>>
vars == <<flash, copies, state, main, radio, paused, cmds, wired, write>>

\* "boot" is main's initialisation up to storage_init, "recover" and "store" are
\* the loop in storage_store_data, "values" the initialisation of the owner.
MainPc == {"boot", "recover", "values", "tasks", "others", "store", "fault"}
Page == [value : Word, checksum : Word]
Blank == [value |-> Empty, checksum |-> Empty]
Zeroed == [value |-> 0, checksum |-> 0]

-----------------------------------------------------------------------------
(***************************************************************************)
(* The commands (external).                                                *)
(***************************************************************************)
\* A command in the queue is the operation it comes to next.  pstorage_update of a
\* whole block leaves the swap page alone, any other copies the page there first (the
\* comment in storage_store_data).
Following == [erase_swap |-> "copy_value", copy_value |-> "copy_checksum",
              copy_checksum |-> "erase", erase |-> "write_value",
              write_value |-> "write_checksum"]
FullUpdate == "erase"
SwapUpdateSkipped == FullUpdate \* a mutant: storage_store_data(false)
SwapUpdate == "erase_swap"

\* dev_man_init clears the device manager's page on every boot.
ClearBonds == "erase_bonds"

StorageOp == DOMAIN Following \union {"write_checksum"}
Operation == StorageOp \union {ClearBonds}

\* Types, and the queue's bound: because storage_store_data waits, no more than one
\* store is queued behind the device manager's command, far from
\* PSTORAGE_CMD_QUEUE_SIZE, at which pstorage_update would fail.
StorageTypeOK ==
    /\ page \in Page /\ swap \in Page /\ flashed \in Page /\ volatile \in Page
    /\ local \in Word
    /\ state \in {"INIT", "READY", "ERROR"}
    /\ main \in MainPc
    /\ radio \subseteq {"CONNECTING", "DISCOVERING"} /\ paused \in BOOLEAN
    /\ cmds \in Seq(Operation) /\ Len(cmds) <= 2
    /\ wired \in BOOLEAN
    /\ write \in [before : Word, intact : BOOLEAN, failed : BOOLEAN, saved : SUBSET Word]

-----------------------------------------------------------------------------
(***************************************************************************)
(* storage_calculate_checksum and its users.  The sum runs from             *)
(* STORAGE_ADDRESS_MIN to the word before STORAGE_ADDRESS_CHECKSUM, and     *)
(* storage_address_t has one word there.  An erased page passes the check.  *)
(***************************************************************************)
Calculated(p) == (0 + p.value) % (Empty + 1)
WithoutChecksum(p) == p \* a mutant: storage_update_checksum left out
WithChecksum(p) == [p EXCEPT !.checksum = Calculated(p)]
Correct(p) == p.checksum = Calculated(p)

\* What storage_init finds: the page, else the swap page, else nothing.
Found == IF Correct(page) THEN page ELSE IF Correct(swap) THEN swap ELSE Blank
\* The word a boot would find; Empty is the word of a page without a value.
Kept == Found.value

\* The history when a store begins, or a boot: what flash held then, whether the page
\* was readable, and the value that the owner last stored, if it is known.
Begun(intact, saved) == [before |-> Kept, intact |-> intact, failed |-> FALSE, saved |-> saved]
\* ... and when the device starts again.
Restarted(saved) == [before |-> Default, intact |-> TRUE, failed |-> FALSE, saved |-> saved]

\* storage_store_data up to its loop: p is m_flashed_copy.
Store(p, update, saved) ==
    /\ flashed' = WithChecksum(p)
    /\ cmds' = Append(cmds, update)
    /\ write' = Begun(Correct(page), saved)

-----------------------------------------------------------------------------
(***************************************************************************)
(* Booting.                                                                *)
(***************************************************************************)
Init ==
    /\ page \in Page /\ swap \in Page
    /\ flashed = Zeroed /\ volatile = Zeroed /\ local = Default
    /\ state = "INIT" /\ main = "boot"
    /\ radio = {} /\ paused = FALSE
    /\ cmds = <<>> /\ wired \in BOOLEAN
    /\ write = Restarted({})

\* storage_init with a page to use, or with nothing left.
BootLoads ==
    /\ main = "boot" /\ (Correct(page) \/ ~Correct(swap))
    /\ main' = "values"
    /\ flashed' = Found /\ volatile' = Found
    /\ state' = "INIT"
    /\ cmds' = <<ClearBonds>>
    /\ write' = Begun(TRUE, write.saved)
    /\ UNCHANGED <<flash, local, radio, paused, wired>>

\* storage_init with the swap page, which it stores without another copy to the swap.
BootRecovers ==
    /\ main = "boot" /\ ~Correct(page) /\ Correct(swap)
    /\ main' = "recover"
    /\ flashed' = WithChecksum(swap)
    /\ cmds' = <<ClearBonds, FullUpdate>>
    /\ write' = Begun(TRUE, {})
    /\ UNCHANGED <<flash, volatile, local, state, radio, paused, wired>>

\* A mutant: ready as storage.h says, in the state STORAGE_STATE_READY.
IsReadyByState == state = "READY"
\* storage_is_ready
IsReady == cmds = <<>>

Recovered ==
    /\ main = "recover" /\ IsReady
    /\ main' = "values"
    /\ volatile' = flashed
    /\ state' = "INIT"
    /\ UNCHANGED <<flash, flashed, local, radio, paused, cmds, wired, write>>

\* A mutant: the copy goes the wrong way.
InitValueReversed ==
    /\ main = "values"
    /\ main' = "others"
    /\ IF volatile.value = Empty
       THEN local' = volatile.value /\ UNCHANGED volatile
       ELSE volatile' = [volatile EXCEPT !.value = local] /\ UNCHANGED local
    /\ UNCHANGED <<flash, flashed, state, radio, paused, cmds, wired, write>>

\* storage_init_value
InitValue ==
    /\ main = "values"
    /\ main' = "others"
    /\ IF volatile.value # Empty
       THEN local' = volatile.value /\ UNCHANGED volatile
       ELSE volatile' = [volatile EXCEPT !.value = local] /\ UNCHANGED local
    /\ UNCHANGED <<flash, flashed, state, radio, paused, cmds, wired, write>>

-----------------------------------------------------------------------------
(***************************************************************************)
(* The main loop.                                                          *)
(***************************************************************************)
NextTurn ==
    /\ main = "others" /\ main' = "tasks"
    /\ UNCHANGED <<flash, copies, state, radio, paused, cmds, wired, write>>

\* storage_tasks: the error handler waits for a reset.
Tasks ==
    /\ main = "tasks"
    /\ main' = IF state = "ERROR" THEN "fault" ELSE "others"
    /\ state' = IF state = "INIT" THEN "READY" ELSE state
    /\ UNCHANGED <<flash, copies, radio, paused, cmds, wired, write>>

\* storage_update_value with the value there is.
UpdateSame ==
    /\ main = "others"
    /\ local' = volatile.value
    /\ UNCHANGED <<flash, flashed, volatile, state, main, radio, paused, cmds, wired, write>>

\* The flag says CONNECTING but the attempt has ended (connect.c:153).
UpdateRefused(v) ==
    /\ main = "others" /\ v # volatile.value /\ "CONNECTING" \in radio
    /\ main' = "fault"
    /\ local' = v /\ volatile' = [volatile EXCEPT !.value = v]
    /\ radio' = radio \ {"CONNECTING"}
    /\ UNCHANGED <<flash, flashed, state, paused, cmds, wired, write>>

UpdateUnwaited(v) == \* a mutant: the loop in storage_store_data left out
    /\ main = "others" /\ v # volatile.value
    /\ local' = v /\ volatile' = [volatile EXCEPT !.value = v]
    /\ Store([flashed EXCEPT !.value = v], SwapUpdate, {v})
    /\ UNCHANGED <<flash, state, main, radio, paused, wired>>

Update(v) ==
    /\ main = "others" /\ v # volatile.value
    /\ main' = "store"
    /\ local' = v /\ volatile' = [volatile EXCEPT !.value = v]
    /\ radio' = {} /\ paused' = ("DISCOVERING" \in radio)
    /\ Store([flashed EXCEPT !.value = v], SwapUpdate, {v})
    /\ UNCHANGED <<flash, state, wired>>

\* storage_clear_all: PERMANENT_BLOCK_SIZE is 0, so that all of both copies is cleared.
ClearAll ==
    /\ main = "others"
    /\ main' = "store"
    /\ volatile' = Blank
    /\ paused' = FALSE
    /\ Store(Blank, SwapUpdate, {})
    /\ UNCHANGED <<flash, local, state, radio, wired>>

\* The loop ends; discovery_discovery starts nothing while it scans or connects.
StoreEnds ==
    /\ main = "store" /\ IsReady
    /\ main' = "others"
    /\ radio' = IF paused /\ radio = {} THEN {"DISCOVERING"} ELSE radio
    /\ paused' = FALSE
    /\ UNCHANGED <<flash, copies, state, cmds, wired, write>>

MainStep ==
    \/ BootLoads \/ BootRecovers \/ Recovered \/ InitValue
    \/ NextTurn \/ Tasks \/ UpdateSame \/ ClearAll \/ StoreEnds
    \/ \E v \in Word : UpdateRefused(v) \/ Update(v)

-----------------------------------------------------------------------------
(***************************************************************************)
(* The flash (external), the interrupts that change the flags, and resets. *)
(***************************************************************************)
Busy == wired /\ cmds # <<>>
Op == Head(cmds)

\* The queue when that operation has ended.
Done == IF Op \in DOMAIN Following THEN [cmds EXCEPT ![1] = Following[Op]] ELSE Tail(cmds)

ValueWritten(p, word) == [p EXCEPT !.value = word]
ChecksumWritten(p, word) == [p EXCEPT !.checksum = word]

\* A store's data is not copied: the words are written from m_flashed_copy.
FlashOp ==
    /\ Busy
    /\ cmds' = Done
    /\ \/ Op = ClearBonds /\ UNCHANGED flash
       \/ Op = "erase_swap" /\ swap' = Blank /\ UNCHANGED page
       \/ Op = "copy_value" /\ swap' = ValueWritten(swap, page.value) /\ UNCHANGED page
       \/ Op = "copy_checksum" /\ swap' = ChecksumWritten(swap, page.checksum) /\ UNCHANGED page
       \/ Op = "erase" /\ page' = Blank /\ UNCHANGED swap
       \/ Op = "write_value" /\ page' = ValueWritten(page, flashed.value) /\ UNCHANGED swap
       \/ Op = "write_checksum" /\ page' = ChecksumWritten(page, flashed.checksum)
          /\ UNCHANGED swap
    /\ UNCHANGED <<copies, state, main, radio, paused, wired, write>>

\* A command fails at any of its operations; storage_event_handler hears of its own.
FlashFails ==
    /\ Busy
    /\ cmds' = Tail(cmds)
    /\ IF Op \in StorageOp
       THEN state' = "ERROR" /\ write' = [write EXCEPT !.failed = TRUE, !.saved = {}]
       ELSE UNCHANGED <<state, write>>
    /\ UNCHANGED <<flash, copies, main, radio, paused, wired>>

RadioEvent ==
    /\ main \notin {"boot", "recover", "values", "fault"}
    /\ radio' \in SUBSET {"CONNECTING", "DISCOVERING"}
    /\ UNCHANGED <<flash, copies, state, main, paused, cmds, wired, write>>

\* The watchdog, the error handler or a power failure.
Reset ==
    /\ main' = "boot" /\ cmds' = <<>>
    /\ flashed' = Zeroed /\ volatile' = Zeroed /\ local' = Default
    /\ state' = "INIT" /\ radio' = {} /\ paused' = FALSE
    /\ write' = Restarted(IF main = "store" THEN {} ELSE write.saved)
    /\ UNCHANGED <<flash, wired>>

Next == MainStep \/ FlashOp \/ FlashFails \/ RadioEvent \/ Reset

Spec == Init /\ [][Next]_vars
FairSpec ==
    /\ Spec
    /\ WF_vars(MainStep) /\ SF_vars(NextTurn)
    /\ WF_vars(FlashOp \/ FlashFails)
-----------------------------------------------------------------------------
(***************************************************************************)
(* Properties.                                                             *)
(***************************************************************************)
Storing == main \in {"recover", "store"}

Persistent == INSTANCE PersistentValue WITH
    Value <- Word, NoValue <- Empty, stored <- Kept,
    held <- IF main = "recover" THEN flashed.value ELSE volatile.value,
    before <- write.before, failed <- write.failed,
    phase <- IF Storing THEN "writing" ELSE IF main \in {"boot", "fault"} THEN "off" ELSE "idle"

\* Whatever flash holds at first, whatever fails and whenever the device is reset, what
\* a boot finds changes only while a store goes on, and then to the new value, back to
\* the one before it or to nothing; a store that ends without an error has stored what
\* the program holds.  That an unfinished store may leave nothing, and that an all-ones
\* word is "nothing", are this code's limits; its comments promise StoredComesBack.
ImplementsValue == Persistent!Spec

\* Only the erased page costs the value (its checksum is right, so that the swap page
\* is not looked at): at any other point of a store, and of the recovery from an
\* unfinished one, a boot finds the old value or the new one.  A store that follows a
\* failed one copies a spoilt page over the only good one and is excepted.
Erased == page = Blank
OnlyErasureLoses ==
    Storing /\ write.intact /\ ~Erased => Kept \in {write.before, flashed.value}

\* End to end: when a store of a value other than all ones has ended, that value is in
\* its owner's variable, through every reset and initialisation, until it is replaced.
StoredIsRead ==
    \A v \in write.saved : main \in {"others", "tasks"} /\ v # Empty => local = v

\* Said of the program and not so.  "If the device is turned off in the middle of a pstorage
\* update it is possible that our flash page is empty (or corrupt), so see if the checksum
\* is correct", and load the swap page if not (storage.c:81); "If no value has previously
\* been stored the initialized value will be used" (storage.h:148).  So a store that is
\* cut short leaves the old value or the new one, and a value that has been stored is used.
StoredComesBack ==
    /\ Storing /\ write.intact => Kept \in {write.before, flashed.value}
    /\ \A v \in write.saved : main \in {"others", "tasks"} => local = v

\* Every store ends and a failed one stops the device (except in storage_init, which
\* overwrites the error, storage.c:102) - if system events reach pstorage.  If they do
\* not, as in this version, only a reset ends it.
StoresEnd ==
    /\ wired => (Storing ~> ~Storing)
    /\ wired => (state = "ERROR" /\ main # "recover" ~> main \in {"fault", "boot"})
    /\ [][~wired /\ Storing => main' \in {main, "boot"}]_main
=============================================================================
