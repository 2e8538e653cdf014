-------------------------- MODULE PersistentValue ---------------------------
(***************************************************************************)
(* What storage.c provides to the owner of one persistent value: the owner  *)
(* holds it in RAM, writes it now and then, and finds it again after a      *)
(* reset.  Nothing but a write changes what is stored, and a write that     *)
(* ends without an error has stored what is held.  A write that a reset or  *)
(* an error cuts short leaves the old value, the new one, or nothing.       *)
(*                                                                          *)
(* This is weaker than what the comments of storage.c and storage.h say in  *)
(* two places, because the code is: they have an unfinished write recovered *)
(* from the swap page, always, and the default used only where no value was *)
(* ever stored, whereas the owner cannot tell nothing from NoValue.         *)
(***************************************************************************)
CONSTANTS Value, NoValue, Default

VARIABLES
    stored,     \* what the next boot would find
    held,       \* what the program holds
    before,     \* what was stored when the last write began
    failed,     \* the last write was reported to have failed
    phase       \* "off" until a boot has read the value

vars == <<stored, held, before, failed, phase>>

Init ==
    /\ stored \in Value /\ held \in Value /\ before \in Value
    /\ failed \in BOOLEAN /\ phase = "off"

\* A boot finds what is stored; it may write it once more.
Boots ==
    /\ phase = "off" /\ phase' \in {"idle", "writing"}
    /\ held' = stored /\ before' = stored /\ failed' = FALSE
    /\ UNCHANGED stored

\* The owner's default stands in for a value that is not there; it is not written.
UsesDefault ==
    /\ phase = "idle" /\ held = NoValue
    /\ held' = Default
    /\ UNCHANGED <<stored, before, failed, phase>>

\* Writing NoValue clears the storage.
Writes(v) ==
    /\ phase = "idle" /\ phase' = "writing"
    /\ held' = v /\ before' = stored /\ failed' = FALSE
    /\ UNCHANGED stored

Progresses ==
    /\ phase = "writing"
    /\ stored' \in {before, held, NoValue}
    /\ failed' \in {failed, TRUE}
    /\ UNCHANGED <<held, before, phase>>

Ends ==
    /\ phase = "writing" /\ phase' = "idle"
    /\ failed \/ stored = held
    /\ UNCHANGED <<stored, held, before, failed>>

\* A reset, or a fault that waits for one.
Stops ==
    /\ phase' = "off" /\ held' \in Value /\ before' \in Value /\ failed' \in BOOLEAN
    /\ UNCHANGED stored

Next ==
    \/ Boots \/ UsesDefault \/ Progresses \/ Ends \/ Stops
    \/ \E v \in Value : Writes(v)

Spec == Init /\ [][Next]_vars
=============================================================================
