--------------------------- MODULE StorageProofs ----------------------------
(***************************************************************************)
(* Proofs about Storage for every width of a word and every default.        *)
(*                                                                          *)
(* The inductive invariant follows a store through its operations: what is  *)
(* in the page and in the swap page at each of them (StageInv), and what a  *)
(* boot would find there (KeptInv).  SavedInv follows the value last stored *)
(* from m_flashed_copy to the page and back to its owner.                   *)
(***************************************************************************)
EXTENDS Storage, SequenceTheorems, TLAPS

New == flashed.value

\* pstorage's queue at each place of the main loop.
QueueInv ==
    /\ main = "boot" => cmds = <<>>
    /\ main \in {"values", "tasks", "others", "fault"} => cmds \in {<<>>, <<ClearBonds>>}
    /\ Storing =>
           \/ cmds = <<>>
           \/ cmds \in {<<op>> : op \in StorageOp}
           \/ cmds \in {<<ClearBonds, op>> : op \in {FullUpdate, SwapUpdate}}

\* The copies in RAM agree where the code relies on it.
CopiesInv ==
    /\ Correct(flashed)
    /\ main \in {"boot", "recover", "values"} => local = Default
    /\ main = "store" => volatile.value = flashed.value

\* The swap page holds what the page held, if that was worth holding.
BackupInv ==
    IF write.intact THEN Correct(swap) /\ swap.value = write.before
    ELSE ~Correct(swap)

\* The page as it was when the store began.
PageInv ==
    /\ write.intact <=> Correct(page)
    /\ write.intact => page.value = write.before

\* What is in flash before the operation that a store in the queue comes to next.
Stage(op) ==
    /\ op = "erase_swap" => PageInv
    /\ op = "copy_value" => PageInv /\ swap = Blank
    /\ op = "copy_checksum" => PageInv /\ swap = [value |-> page.value, checksum |-> Empty]
    /\ op = "erase" => BackupInv
    /\ op = "write_value" => BackupInv /\ page = Blank
    /\ op = "write_checksum" => BackupInv /\ page = [value |-> flashed.value, checksum |-> Empty]
StageInv == \A op \in StorageOp : cmds \in {<<op>>, <<ClearBonds, op>>} => Stage(op)

\* What a boot would find while a store goes on.
KeptInv ==
    Storing =>
        /\ Kept \in {write.before, New, Empty}
        /\ write.intact /\ ~Erased => Kept \in {write.before, New}
        /\ cmds = <<>> /\ ~write.failed => Correct(page) /\ page.value = New

\* Where the value last stored is: on its way to the page, in the page, and, unless it is
\* all ones, with its owner.
SavedInv ==
    /\ write.failed => write.saved = {}
    /\ \A v \in write.saved :
        /\ main # "recover"
        /\ IF main = "store" THEN New = v /\ local = v ELSE Correct(page) /\ page.value = v
        /\ main = "values" => volatile.value = v
        /\ main \in {"others", "tasks"} /\ v # Empty => volatile.value = v /\ local = v

IInv == StorageTypeOK /\ QueueInv /\ CopiesInv /\ StageInv /\ KeptInv /\ SavedInv
-----------------------------------------------------------------------------
(***************************************************************************)
(* Pages and queues.                                                       *)
(***************************************************************************)
\* The sum of one word is that word.
LEMMA SumOfOne ==
  ASSUME NEW p \in Page
  PROVE  /\ Calculated(p) = p.value
         /\ Correct(p) <=> p.checksum = p.value
         /\ WithChecksum(p) = [value |-> p.value, checksum |-> p.value]
         /\ WithChecksum(p) \in Page /\ Correct(WithChecksum(p))
PROOF
  <1>1. p.value \in 0 .. Empty /\ p.checksum \in 0 .. Empty /\ Empty \in Nat
    BY StorageAssumption DEF Page, Word
  <1>2. (0 + p.value) % (Empty + 1) = p.value
    BY <1>1
  <1>3. Calculated(p) = p.value
    BY <1>2 DEF Calculated
  <1>4. WithChecksum(p) = [value |-> p.value, checksum |-> p.value]
    BY <1>3 DEF WithChecksum, Page
  <1>5. /\ [value |-> p.value, checksum |-> p.value] \in Page
        /\ [value |-> p.value, checksum |-> p.value].value = p.value
        /\ [value |-> p.value, checksum |-> p.value].checksum = p.value
    BY <1>1 DEF Page, Word
  <1>6. Calculated(WithChecksum(p)) = p.value
    BY <1>1, <1>2, <1>4, <1>5 DEF Calculated
  <1> QED
    BY <1>3, <1>4, <1>5, <1>6 DEF Correct

\* Pages that are stages of a store.
LEMMA PageFacts ==
  /\ Blank \in Page /\ Blank.value = Empty /\ Blank.checksum = Empty /\ Correct(Blank)
  /\ Zeroed \in Page /\ Correct(Zeroed)
  /\ Default \in Word /\ Empty \in Word
  /\ \A w \in Word :
        /\ [value |-> w, checksum |-> Empty] \in Page
        /\ Correct([value |-> w, checksum |-> Empty]) <=> w = Empty
PROOF
  <1>1. Blank \in Page /\ Zeroed \in Page /\ Default \in Word /\ Empty \in Word
    BY StorageAssumption DEF Blank, Zeroed, Page, Word
  <1>2. \A w \in Word : [value |-> w, checksum |-> Empty] \in Page
    BY <1>1 DEF Page
  <1> QED
    BY <1>1, <1>2, SumOfOne DEF Blank, Zeroed

History == [before : Word, intact : BOOLEAN, failed : BOOLEAN, saved : SUBSET Word]

\* What writing a word makes of a page, and the type of the history.
LEMMA WrittenFacts ==
  /\ \A p \in Page, w \in Word :
        /\ ValueWritten(p, w) = [value |-> w, checksum |-> p.checksum]
        /\ ChecksumWritten(p, w) = [value |-> p.value, checksum |-> w]
        /\ ValueWritten(p, w) \in Page /\ ChecksumWritten(p, w) \in Page
  /\ \A b \in Word, i, f \in BOOLEAN, o \in SUBSET Word :
        [before |-> b, intact |-> i, failed |-> f, saved |-> o] \in History
PROOF
  <1>1. ASSUME NEW p \in Page, NEW w \in Word
        PROVE  /\ ValueWritten(p, w) = [value |-> w, checksum |-> p.checksum]
               /\ ChecksumWritten(p, w) = [value |-> p.value, checksum |-> w]
               /\ ValueWritten(p, w) \in Page /\ ChecksumWritten(p, w) \in Page
    BY DEF ValueWritten, ChecksumWritten, Page
  <1>2. ASSUME NEW b \in Word, NEW i \in BOOLEAN, NEW f \in BOOLEAN, NEW o \in SUBSET Word
        PROVE  [before |-> b, intact |-> i, failed |-> f, saved |-> o] \in History
    BY DEF History
  <1> QED BY <1>1, <1>2

\* The queues there are.
LEMMA QueueFacts ==
  /\ DOMAIN Following = {"erase_swap", "copy_value", "copy_checksum", "erase", "write_value"}
  /\ StorageOp = {"erase_swap", "copy_value", "copy_checksum", "erase", "write_value",
                  "write_checksum"}
  /\ ClearBonds \notin StorageOp
  /\ \A op \in Operation :
        /\ Head(<<op>>) = op /\ Tail(<<op>>) = <<>> /\ <<op>> # <<>>
        /\ Append(<<>>, op) = <<op>>
        /\ <<op>> \in Seq(Operation) /\ Len(<<op>>) = 1
        /\ Head(<<ClearBonds, op>>) = ClearBonds /\ Tail(<<ClearBonds, op>>) = <<op>>
        /\ Append(<<ClearBonds>>, op) = <<ClearBonds, op>>
        /\ <<ClearBonds, op>> # <<>>
        /\ <<ClearBonds, op>> \in Seq(Operation) /\ Len(<<ClearBonds, op>>) = 2
        /\ \A next \in Operation :
               /\ [<<op>> EXCEPT ![1] = next] = <<next>>
               /\ <<op>> = <<next>> => op = next
               /\ <<op>> # <<ClearBonds, next>>
               /\ <<ClearBonds, op>> = <<ClearBonds, next>> => op = next
PROOF
  <1>1. /\ DOMAIN Following = {"erase_swap", "copy_value", "copy_checksum", "erase", "write_value"}
        /\ StorageOp = {"erase_swap", "copy_value", "copy_checksum", "erase", "write_value",
                        "write_checksum"}
        /\ ClearBonds \notin StorageOp
    BY DEF Following, StorageOp, ClearBonds
  <1>2. SUFFICES ASSUME NEW op \in Operation
                 PROVE  /\ Head(<<op>>) = op /\ Tail(<<op>>) = <<>> /\ <<op>> # <<>>
                        /\ Append(<<>>, op) = <<op>>
                        /\ <<op>> \in Seq(Operation) /\ Len(<<op>>) = 1
                        /\ Head(<<ClearBonds, op>>) = ClearBonds
                        /\ Tail(<<ClearBonds, op>>) = <<op>>
                        /\ Append(<<ClearBonds>>, op) = <<ClearBonds, op>>
                        /\ <<ClearBonds, op>> # <<>>
                        /\ <<ClearBonds, op>> \in Seq(Operation) /\ Len(<<ClearBonds, op>>) = 2
                        /\ \A next \in Operation :
                               /\ [<<op>> EXCEPT ![1] = next] = <<next>>
                               /\ <<op>> = <<next>> => op = next
                               /\ <<op>> # <<ClearBonds, next>>
                               /\ <<ClearBonds, op>> = <<ClearBonds, next>> => op = next
    BY <1>1
  <1>3. ClearBonds \in Operation
    BY DEF Operation
  <1>4. <<op>> \in Seq(Operation) /\ Len(<<op>>) = 1 /\ <<op>> # <<>>
    OBVIOUS
  <1>5. <<ClearBonds, op>> \in Seq(Operation) /\ Len(<<ClearBonds, op>>) = 2 /\ <<ClearBonds, op>> # <<>>
    BY <1>3
  <1>6. Head(<<op>>) = op /\ Tail(<<op>>) = <<>>
    OBVIOUS
  <1>7. Head(<<ClearBonds, op>>) = ClearBonds /\ Tail(<<ClearBonds, op>>) = <<op>>
    OBVIOUS
  <1>8. Append(<<>>, op) = <<op>> /\ Append(<<ClearBonds>>, op) = <<ClearBonds, op>>
    <2> DEFINE s == Append(<<>>, op)
               t == Append(<<ClearBonds>>, op)
    <2>1. <<>> \in Seq(Operation) /\ <<ClearBonds>> \in Seq(Operation)
      BY <1>3
    <2>2. s \in Seq(Operation) /\ Len(s) = 1 /\ s[1] = op
      BY <2>1, AppendProperties
    <2>3. t \in Seq(Operation) /\ Len(t) = 2 /\ t[1] = ClearBonds /\ t[2] = op
      BY <2>1, AppendProperties
    <2>4. \A i \in 1 .. Len(s) : s[i] = <<op>>[i]
      BY <2>2
    <2>5. \A i \in 1 .. Len(t) : t[i] = <<ClearBonds, op>>[i]
      BY <2>3
    <2> QED BY <1>4, <1>5, <2>2, <2>3, <2>4, <2>5, SeqEqual
  <1>9. \A next \in Operation :
            /\ [<<op>> EXCEPT ![1] = next] = <<next>>
            /\ <<op>> = <<next>> => op = next
            /\ <<op>> # <<ClearBonds, next>>
            /\ <<ClearBonds, op>> = <<ClearBonds, next>> => op = next
    OBVIOUS
  <1> QED
    BY <1>4, <1>5, <1>6, <1>7, <1>8, <1>9

LEMMA QueueTypes ==
  /\ <<>> \in Seq(Operation) /\ Len(<<>>) <= 2
  /\ \A op \in Operation :
        /\ <<op>> \in Seq(Operation) /\ Len(<<op>>) <= 2
        /\ <<ClearBonds, op>> \in Seq(Operation) /\ Len(<<ClearBonds, op>>) <= 2
PROOF
  <1>1. <<>> \in Seq(Operation) /\ Len(<<>>) <= 2
    OBVIOUS
  <1>2. ASSUME NEW op \in Operation
        PROVE  /\ <<op>> \in Seq(Operation) /\ Len(<<op>>) = 1
               /\ <<ClearBonds, op>> \in Seq(Operation) /\ Len(<<ClearBonds, op>>) = 2
    BY QueueFacts
  <1>3. 1 <= 2 /\ 2 <= 2
    OBVIOUS
  <1> QED BY <1>1, <1>2, <1>3

\* What a boot finds depends on flash alone.
LEMMA KeptFacts ==
  /\ Kept = IF Correct(page) THEN page.value ELSE IF Correct(swap) THEN swap.value ELSE Empty
  /\ UNCHANGED flash =>
        Kept' = Kept /\ (Correct(page)' <=> Correct(page)) /\ (Erased' <=> Erased)
PROOF
  <1>1. Kept = IF Correct(page) THEN page.value ELSE IF Correct(swap) THEN swap.value ELSE Empty
    BY PageFacts DEF Kept, Found
  <1>2. ASSUME UNCHANGED flash
        PROVE  Kept' = Kept /\ (Correct(page)' <=> Correct(page)) /\ (Erased' <=> Erased)
    BY <1>2 DEF flash, Kept, Found, Erased, Correct, Calculated
  <1> QED BY <1>1, <1>2

\* The operation the flash comes to next, and the queue after it.
LEMMA NextOp ==
  ASSUME StorageTypeOK, QueueInv, Busy
  PROVE  \/ /\ Op = ClearBonds /\ Done = Tail(cmds)
            /\ \/ cmds = <<ClearBonds>> /\ Tail(cmds) = <<>> /\ ~Storing /\ main # "boot"
               \/ /\ Storing
                  /\ \E op \in {FullUpdate, SwapUpdate} :
                         cmds = <<ClearBonds, op>> /\ Tail(cmds) = <<op>>
         \/ /\ Storing /\ Op \in StorageOp /\ cmds = <<Op>> /\ Tail(cmds) = <<>>
            /\ Done = IF Op = "write_checksum" THEN <<>> ELSE <<Following[Op]>>
PROOF
  <1>1. cmds # <<>> /\ main \in MainPc
    BY DEF Busy, StorageTypeOK
  <1>2. CASE cmds = <<ClearBonds>>
    <2>1. Op = ClearBonds /\ Tail(cmds) = <<>>
      BY <1>2, QueueFacts DEF Op, Operation
    <2>2. Done = Tail(cmds)
      BY <2>1, QueueFacts DEF Done, ClearBonds
    <2>3. ~Storing /\ main # "boot"
      BY <1>1, <1>2, QueueFacts DEF QueueInv, Operation, FullUpdate, SwapUpdate
    <2> QED BY <1>2, <2>1, <2>2, <2>3
  <1>3. ASSUME NEW op \in {FullUpdate, SwapUpdate}, Storing, cmds = <<ClearBonds, op>>
        PROVE  Op = ClearBonds /\ Done = Tail(cmds) /\ Tail(cmds) = <<op>>
    <2>1. op \in Operation
      BY QueueFacts DEF Operation, FullUpdate, SwapUpdate
    <2>2. Op = ClearBonds /\ Tail(cmds) = <<op>>
      BY <1>3, <2>1, QueueFacts DEF Op
    <2> QED BY <2>2, QueueFacts DEF Done, ClearBonds
  <1>4. ASSUME NEW op \in StorageOp, Storing, cmds = <<op>>
        PROVE  /\ Op = op /\ Tail(cmds) = <<>>
               /\ Done = IF Op = "write_checksum" THEN <<>> ELSE <<Following[Op]>>
    <2>1. op \in Operation
      BY DEF Operation
    <2>2. Op = op /\ Tail(cmds) = <<>>
      BY <1>4, <2>1, QueueFacts DEF Op
    <2>3. op # "write_checksum" => op \in DOMAIN Following /\ Following[op] \in Operation
      BY QueueFacts DEF Following, Operation
    <2>4. op = "write_checksum" => op \notin DOMAIN Following
      BY QueueFacts
    <2> QED BY <1>4, <2>1, <2>2, <2>3, <2>4, QueueFacts DEF Done
  <1>5. CASE ~Storing
    BY <1>1, <1>2, <1>5 DEF QueueInv, MainPc, Storing
  <1>6. CASE Storing
    BY <1>1, <1>3, <1>4, <1>6 DEF QueueInv
  <1> QED BY <1>5, <1>6
-----------------------------------------------------------------------------
(***************************************************************************)
(* Each part of the invariant, action by action.                           *)
(***************************************************************************)
\* What storage_store_data leaves, when it is called with a page's worth of words.
LEMMA StoreFacts ==
  ASSUME StorageTypeOK, QueueInv, main = "others", NEW p \in Page, NEW saved \in SUBSET Word,
         Store(p, SwapUpdate, saved)
  PROVE  /\ flashed' = [value |-> p.value, checksum |-> p.value] /\ flashed' \in Page
         /\ Correct(flashed)'
         /\ cmds' \in {<<SwapUpdate>>, <<ClearBonds, SwapUpdate>>}
         /\ cmds' \in Seq(Operation) /\ Len(cmds') <= 2
         /\ write' = [before |-> Kept, intact |-> Correct(page), failed |-> FALSE,
                      saved |-> saved]
         /\ write' \in History
PROOF
  <1>1. SwapUpdate \in Operation /\ ClearBonds \in Operation
    BY QueueFacts DEF Operation, SwapUpdate
  <1>2. cmds' \in {<<SwapUpdate>>, <<ClearBonds, SwapUpdate>>}
    BY <1>1, QueueFacts DEF QueueInv, Store
  <1>3. cmds' \in Seq(Operation) /\ Len(cmds') <= 2
    BY <1>1, <1>2, QueueTypes
  <1>4. Kept \in Word
    BY KeptFacts, PageFacts DEF StorageTypeOK, Page
  <1>5. Correct(page) \in BOOLEAN
    BY DEF Correct
  <1>6. flashed' = [value |-> p.value, checksum |-> p.value] /\ flashed' \in Page
    BY SumOfOne DEF Store
  <1>7. Correct(flashed)'
    BY <1>6, SumOfOne DEF Store, Correct, Calculated
  <1>8. write' = [before |-> Kept, intact |-> Correct(page), failed |-> FALSE, saved |-> saved]
    BY DEF Store, Begun
  <1>9. write' \in History
    BY <1>4, <1>5, <1>8, WrittenFacts
  <1> QED
    BY <1>2, <1>3, <1>6, <1>7, <1>8, <1>9

LEMMA TypeStep == StorageTypeOK /\ QueueInv /\ [Next]_vars => StorageTypeOK'
PROOF
  <1> SUFFICES ASSUME StorageTypeOK, QueueInv, [Next]_vars PROVE StorageTypeOK'
    OBVIOUS
  <1> USE DEF StorageTypeOK, MainPc
  <1>1. CASE BootLoads
    <2>1. Found \in Page
      BY PageFacts DEF Found
    <2>2. Kept \in Word
      BY <2>1, PageFacts DEF Kept, Page
    <2>3. <<ClearBonds>> \in Seq(Operation) /\ Len(<<ClearBonds>>) = 1
      BY QueueFacts DEF Operation
    <2>4. write' \in History
      BY <1>1, <2>2, WrittenFacts DEF BootLoads, Begun
    <2>5. /\ main' = "values" /\ flashed' \in Page /\ volatile' \in Page /\ state' = "INIT"
          /\ cmds' \in Seq(Operation) /\ Len(cmds') <= 2
          /\ UNCHANGED <<page, swap, local, radio, paused, wired>>
      BY <1>1, <2>1, <2>3 DEF BootLoads, flash
    <2> QED BY <2>4, <2>5 DEF History
  <1>2. CASE BootRecovers
    <2>1. Kept \in Word
      BY KeptFacts, PageFacts DEF Page
    <2>2. <<ClearBonds, FullUpdate>> \in Seq(Operation) /\ Len(<<ClearBonds, FullUpdate>>) = 2
      BY QueueFacts DEF Operation, FullUpdate
    <2>3. WithChecksum(swap) \in Page
      BY SumOfOne
    <2>4. write' \in History
      BY <1>2, <2>1, WrittenFacts DEF BootRecovers, Begun
    <2>5. /\ main' = "recover" /\ flashed' \in Page
          /\ cmds' \in Seq(Operation) /\ Len(cmds') <= 2
          /\ UNCHANGED <<page, swap, volatile, local, state, radio, paused, wired>>
      BY <1>2, <2>2, <2>3 DEF BootRecovers, flash
    <2> QED BY <2>4, <2>5 DEF History
  <1>3. CASE Recovered
    BY <1>3 DEF Recovered, flash
  <1>4. CASE InitValue
    BY <1>4 DEF InitValue, flash, Page
  <1>5. CASE NextTurn \/ Tasks
    BY <1>5 DEF NextTurn, Tasks, flash, copies
  <1>6. CASE UpdateSame
    BY <1>6 DEF UpdateSame, flash, Page
  <1>7. CASE ClearAll
    BY <1>7, PageFacts, StoreFacts DEF ClearAll, flash, History
  <1>8. CASE StoreEnds
    BY <1>8 DEF StoreEnds, flash, copies
  <1>9. ASSUME NEW v \in Word, UpdateRefused(v)
        PROVE  StorageTypeOK'
    BY <1>9 DEF UpdateRefused, flash, Page
  <1>10. ASSUME NEW v \in Word, Update(v)
         PROVE  StorageTypeOK'
    <2>1. [flashed EXCEPT !.value = v] \in Page /\ [volatile EXCEPT !.value = v] \in Page
      BY <1>10 DEF Page
    <2> QED BY <1>10, <2>1, StoreFacts DEF Update, flash, History
  <1>11. CASE FlashOp
    <2>1. Done \in Seq(Operation) /\ Len(Done) <= 2
      <3>1. \A op \in StorageOp : op # "write_checksum" => Following[op] \in Operation
        BY QueueFacts DEF Following, Operation
      <3>2. FullUpdate \in Operation /\ SwapUpdate \in Operation /\ ClearBonds \in Operation
        BY QueueFacts DEF Operation, FullUpdate, SwapUpdate
      <3>3. Busy
        BY <1>11 DEF FlashOp
      <3>4. \/ Done = <<>>
            \/ \E op \in Operation : Done = <<op>>
        BY <3>1, <3>2, <3>3, NextOp
      <3> QED BY <3>4, QueueTypes
    <2>2. \A p \in Page, w \in Word : ValueWritten(p, w) \in Page /\ ChecksumWritten(p, w) \in Page
      BY WrittenFacts
    <2>3. page' \in Page /\ swap' \in Page
      <3>1. \A p \in Page : p.value \in Word /\ p.checksum \in Word
        BY DEF Page
      <3>2. page' \in {Blank, page, ValueWritten(page, flashed.value),
                      ChecksumWritten(page, flashed.checksum)}
        BY <1>11 DEF FlashOp, flash
      <3>3. swap' \in {Blank, swap, ValueWritten(swap, page.value),
                      ChecksumWritten(swap, page.checksum)}
        BY <1>11 DEF FlashOp, flash
      <3> QED BY ZenonT(40), <2>2, <3>1, <3>2, <3>3, PageFacts
    <2> QED BY <1>11, <2>1, <2>3 DEF FlashOp, copies
  <1>12. CASE FlashFails
    <2>1. Tail(cmds) \in Seq(Operation) /\ Len(Tail(cmds)) <= 2
      BY <1>12, HeadTailProperties DEF FlashFails, Busy
    <2> QED BY <1>12, <2>1 DEF FlashFails, flash, copies
  <1>13. CASE RadioEvent
    BY <1>13 DEF RadioEvent, flash, copies
  <1>14. CASE Reset
    <2>1. <<>> \in Seq(Operation) /\ Len(<<>>) <= 2
      BY QueueTypes
    <2>2. write' \in History
      BY <1>14, PageFacts, WrittenFacts DEF Reset, Restarted
    <2> QED BY <1>14, <2>1, <2>2, PageFacts DEF Reset, flash, History
  <1>15. CASE UNCHANGED vars
    BY <1>15 DEF vars, flash, copies
  <1> QED
    BY <1>1, <1>2, <1>3, <1>4, <1>5, <1>6, <1>7, <1>8, <1>9, <1>10, <1>11, <1>12, <1>13, <1>14,
       <1>15 DEF Next, MainStep

LEMMA QueueStep == StorageTypeOK /\ QueueInv /\ [Next]_vars => QueueInv'
PROOF
  <1> SUFFICES ASSUME StorageTypeOK, QueueInv, [Next]_vars PROVE QueueInv'
    OBVIOUS
  <1> USE DEF QueueInv, Storing
  <1>1. CASE BootLoads
    BY <1>1 DEF BootLoads
  <1>2. CASE BootRecovers
    BY <1>2 DEF BootRecovers
  <1>3. CASE Recovered
    BY <1>3 DEF Recovered, IsReady
  <1>4. CASE InitValue \/ NextTurn \/ Tasks \/ UpdateSame
    BY <1>4 DEF InitValue, NextTurn, Tasks, UpdateSame
  <1>5. SwapUpdate \in StorageOp /\ FullUpdate \in StorageOp
    BY QueueFacts DEF SwapUpdate, FullUpdate
  <1>6. CASE ClearAll
    BY <1>5, <1>6, PageFacts, StoreFacts DEF ClearAll
  <1>7. CASE StoreEnds
    BY <1>7 DEF StoreEnds, IsReady
  <1>8. ASSUME NEW v \in Word, UpdateRefused(v)
        PROVE  QueueInv'
    BY <1>8 DEF UpdateRefused
  <1>9. ASSUME NEW v \in Word, Update(v)
        PROVE  QueueInv'
    <2>1. [flashed EXCEPT !.value = v] \in Page
      BY <1>9 DEF Page, StorageTypeOK
    <2> QED BY <1>5, <1>9, <2>1, StoreFacts DEF Update
  <1>10. CASE FlashOp
    <2>1. \A op \in StorageOp : op # "write_checksum" => Following[op] \in StorageOp
      BY QueueFacts DEF Following
    <2>2. main' = main /\ cmds' = Done /\ Busy
      BY <1>10 DEF FlashOp
    <2>3. main # "boot"
      BY <2>2 DEF Busy
    <2> QED BY <1>5, <2>1, <2>2, <2>3, NextOp
  <1>11. CASE FlashFails
    <2>1. main' = main /\ cmds' = Tail(cmds) /\ Busy
      BY <1>11 DEF FlashFails
    <2>2. main # "boot"
      BY <2>1 DEF Busy
    <2> QED BY <1>5, <2>1, <2>2, NextOp
  <1>12. CASE RadioEvent
    BY <1>12 DEF RadioEvent
  <1>13. CASE Reset
    BY <1>13 DEF Reset
  <1>14. CASE UNCHANGED vars
    BY <1>14 DEF vars
  <1> QED
    BY <1>1, <1>2, <1>3, <1>4, <1>6, <1>7, <1>8, <1>9, <1>10, <1>11, <1>12, <1>13, <1>14
    DEF Next, MainStep

\* The copies in RAM: every copy of the page has the right checksum.
LEMMA CopiesStep == StorageTypeOK /\ QueueInv /\ CopiesInv /\ [Next]_vars => CopiesInv'
PROOF
  <1> SUFFICES ASSUME StorageTypeOK, QueueInv, CopiesInv, [Next]_vars PROVE CopiesInv'
    OBVIOUS
  <1>1. UNCHANGED flashed => (Correct(flashed)' <=> Correct(flashed))
    BY DEF Correct, Calculated
  <1>2. CASE BootLoads
    <2>1. Correct(Found)
      BY <1>2, PageFacts DEF BootLoads, Found
    <2>2. Correct(flashed)'
      BY <1>2, <2>1 DEF BootLoads, Correct, Calculated
    <2> QED BY <1>2, <2>2 DEF BootLoads, CopiesInv
  <1>3. CASE BootRecovers
    <2>1. Correct(WithChecksum(swap))
      BY SumOfOne DEF StorageTypeOK
    <2>2. Correct(flashed)'
      BY <1>3, <2>1 DEF BootRecovers, Correct, Calculated
    <2> QED BY <1>3, <2>2 DEF BootRecovers, CopiesInv
  <1>4. CASE Recovered \/ InitValue \/ NextTurn \/ Tasks \/ UpdateSame \/ StoreEnds
    BY <1>1, <1>4
    DEF Recovered, InitValue, NextTurn, Tasks, UpdateSame, StoreEnds, copies, CopiesInv
  <1>5. CASE ClearAll
    <2>1. flashed' = [value |-> Blank.value, checksum |-> Blank.value] /\ Correct(flashed)'
      BY <1>5, PageFacts, StoreFacts DEF ClearAll
    <2> QED BY <1>5, <2>1 DEF ClearAll, CopiesInv
  <1>6. ASSUME NEW v \in Word, UpdateRefused(v)
        PROVE  CopiesInv'
    BY <1>1, <1>6 DEF UpdateRefused, CopiesInv
  <1>7. ASSUME NEW v \in Word, Update(v)
        PROVE  CopiesInv'
    <2> DEFINE p == [flashed EXCEPT !.value = v]
    <2>1. p \in Page /\ p.value = v
      BY <1>7 DEF StorageTypeOK, Page
    <2>2. main = "others" /\ Store(p, SwapUpdate, {v})
      BY <1>7 DEF Update
    <2> HIDE DEF p
    <2>4. flashed' = [value |-> p.value, checksum |-> p.value] /\ Correct(flashed)'
      BY <2>1, <2>2, StoreFacts
    <2>5. flashed'.value = v
      BY <2>1, <2>4
    <2>3. volatile'.value = v
      BY <1>7 DEF Update, StorageTypeOK, Page
    <2> QED BY <1>7, <2>3, <2>4, <2>5 DEF Update, CopiesInv
  <1>8. CASE FlashOp \/ FlashFails \/ RadioEvent
    BY <1>1, <1>8 DEF FlashOp, FlashFails, RadioEvent, copies, CopiesInv
  <1>9. CASE Reset
    <2>1. Correct(flashed)'
      BY <1>9, PageFacts DEF Reset, Correct, Calculated
    <2> QED BY <1>9, <2>1 DEF Reset, CopiesInv
  <1>10. CASE UNCHANGED vars
    BY <1>1, <1>10 DEF vars, copies, CopiesInv
  <1> QED
    BY <1>2, <1>3, <1>4, <1>5, <1>6, <1>7, <1>8, <1>9, <1>10 DEF Next, MainStep

\* A stage depends on flash, the copy that is written and the history alone.
LEMMA StageKept ==
  ASSUME UNCHANGED <<flash, flashed, write>>, NEW op, Stage(op)
  PROVE  Stage(op)'
PROOF
  <1>1. (Correct(page)' <=> Correct(page)) /\ (Correct(swap)' <=> Correct(swap))
    BY DEF flash, Correct, Calculated
  <1>2. (PageInv' <=> PageInv) /\ (BackupInv' <=> BackupInv)
    BY <1>1 DEF flash, PageInv, BackupInv
  <1> QED BY <1>2 DEF Stage, flash

\* Each operation of a store leaves what the next one expects.
LEMMA OpStage ==
  ASSUME StorageTypeOK, QueueInv, StageInv, FlashOp,
         NEW op \in StorageOp, Op = op, op # "write_checksum"
  PROVE  Stage(Following[op])'
PROOF
  <1>1. Stage(op)
    <2>1. Busy
      BY DEF FlashOp
    <2>2. cmds = <<op>>
      BY <2>1, NextOp, QueueFacts
    <2> QED BY <2>2 DEF StageInv
  <1>2. write' = write /\ flashed' = flashed
    BY DEF FlashOp, copies
  <1>3. \A p \in Page : p = [value |-> p.value, checksum |-> p.checksum]
                        /\ p.value \in Word /\ p.checksum \in Word
    BY DEF Page
  <1>4. UNCHANGED page => (Correct(page)' <=> Correct(page)) /\ (PageInv' <=> PageInv)
    BY <1>2 DEF Correct, Calculated, PageInv
  <1>5. UNCHANGED swap => (Correct(swap)' <=> Correct(swap)) /\ (BackupInv' <=> BackupInv)
    BY <1>2 DEF Correct, Calculated, BackupInv
  <1>11. /\ Following["erase_swap"] = "copy_value" /\ Following["copy_value"] = "copy_checksum"
         /\ Following["copy_checksum"] = "erase" /\ Following["erase"] = "write_value"
         /\ Following["write_value"] = "write_checksum"
    BY DEF Following
  <1>6. CASE op = "erase_swap"
    <2>1. swap' = Blank /\ UNCHANGED page
      BY <1>6, QueueFacts DEF FlashOp, ClearBonds
    <2>2. Stage("copy_value")'
      BY <1>1, <1>4, <1>6, <2>1 DEF Stage, Blank
    <2> QED BY <1>6, <1>11, <2>2
  <1>7. CASE op = "copy_value"
    <2>1. swap' = ValueWritten(swap, page.value) /\ UNCHANGED page
      BY <1>7, QueueFacts DEF FlashOp, ClearBonds
    <2>2. swap = Blank /\ PageInv
      BY <1>1, <1>7 DEF Stage
    <2>3. swap.checksum = Empty /\ swap \in Page /\ page \in Page
      BY <2>2, PageFacts DEF StorageTypeOK
    <2>4. swap' = [value |-> page.value, checksum |-> Empty]
      BY <1>3, <2>1, <2>3, WrittenFacts
    <2>5. Stage("copy_checksum")'
      BY <1>4, <2>1, <2>2, <2>4 DEF Stage
    <2> QED BY <1>7, <1>11, <2>5
  <1>8. CASE op = "copy_checksum"
    <2>1. swap' = ChecksumWritten(swap, page.checksum) /\ UNCHANGED page
      BY <1>8, QueueFacts DEF FlashOp, ClearBonds
    <2>2. swap = [value |-> page.value, checksum |-> Empty] /\ PageInv
      BY <1>1, <1>8 DEF Stage
    <2>3. swap.value = page.value
      BY <2>2
    <2>4. swap' = page
      BY SMTT(30), <1>3, <2>1, <2>3, WrittenFacts DEF StorageTypeOK
    <2>5. Correct(swap)' <=> Correct(page)
      BY <2>4 DEF Correct, Calculated
    <2>6. BackupInv'
      BY <1>2, <2>2, <2>4, <2>5 DEF PageInv, BackupInv
    <2>7. Stage("erase")'
      BY <2>6 DEF Stage
    <2> QED BY <1>8, <1>11, <2>7
  <1>9. CASE op = "erase"
    <2>1. page' = Blank /\ UNCHANGED swap
      BY <1>9, QueueFacts DEF FlashOp, ClearBonds
    <2>2. Stage("write_value")'
      BY <1>1, <1>5, <1>9, <2>1 DEF Stage, Blank
    <2> QED BY <1>9, <1>11, <2>2
  <1>10. CASE op = "write_value"
    <2>1. page' = ValueWritten(page, flashed.value) /\ UNCHANGED swap
      BY <1>10, QueueFacts DEF FlashOp, ClearBonds
    <2>2. page = Blank /\ BackupInv
      BY <1>1, <1>10 DEF Stage
    <2>3. page.checksum = Empty /\ page \in Page /\ flashed \in Page
      BY <2>2, PageFacts DEF StorageTypeOK
    <2>4. page' = [value |-> flashed.value, checksum |-> Empty]
      BY <1>3, <2>1, <2>3, WrittenFacts
    <2>5. Stage("write_checksum")'
      BY <1>2, <1>5, <2>1, <2>2, <2>4 DEF Stage
    <2> QED BY <1>10, <1>11, <2>5
  <1> QED
    BY <1>6, <1>7, <1>8, <1>9, <1>10, QueueFacts

\* The stages of a store, through every step.
LEMMA StageStep == StorageTypeOK /\ QueueInv /\ StageInv /\ [Next]_vars => StageInv'
PROOF
  <1> SUFFICES ASSUME StorageTypeOK, QueueInv, StageInv, [Next]_vars,
                      NEW op \in StorageOp, cmds' \in {<<op>>, <<ClearBonds, op>>}
               PROVE  Stage(op)'
    BY DEF StageInv
  <1>1. op \in Operation /\ ClearBonds \in Operation
    BY DEF Operation
  <1>2. cmds' # <<>> /\ cmds' # <<ClearBonds>>
    BY <1>1, QueueFacts
  <1>3. ASSUME UNCHANGED <<flash, flashed, cmds, write>>
        PROVE  Stage(op)'
    BY <1>3, StageKept DEF StageInv
  <1>4. ~BootLoads /\ ~Reset
    BY <1>2 DEF BootLoads, Reset
  <1>5. CASE BootRecovers
    <2>1. op = "erase"
      BY <1>1, <1>5, QueueFacts DEF BootRecovers, FullUpdate
    <2>2. Kept = swap.value
      BY <1>5, KeptFacts DEF BootRecovers
    <2>3. Correct(swap)' /\ swap' = swap
      BY <1>5 DEF BootRecovers, flash, Correct, Calculated
    <2>4. write'.intact = TRUE /\ write'.before = swap.value
      BY <1>5, <2>2 DEF BootRecovers, Begun
    <2>5. BackupInv'
      BY <2>3, <2>4 DEF BackupInv
    <2> QED BY <2>1, <2>5 DEF Stage
  <1>6. CASE Recovered \/ InitValue \/ NextTurn \/ Tasks \/ UpdateSame \/ StoreEnds \/ RadioEvent
    BY <1>3, <1>6
    DEF Recovered, InitValue, NextTurn, Tasks, UpdateSame, StoreEnds, RadioEvent, copies
  <1>7. ASSUME main = "others", NEW p \in Page, NEW saved \in SUBSET Word,
               Store(p, SwapUpdate, saved), UNCHANGED flash
        PROVE  Stage(op)'
    <2>1. op = "erase_swap"
      BY <1>1, <1>7, StoreFacts, QueueFacts DEF SwapUpdate, Operation
    <2>2. write'.intact = Correct(page) /\ write'.before = Kept
      BY <1>7, StoreFacts
    <2>3. Correct(page)' <=> Correct(page)
      BY <1>7, KeptFacts
    <2>4. Correct(page) => Kept = page.value
      BY KeptFacts
    <2>5. PageInv'
      BY <1>7, <2>2, <2>3, <2>4 DEF PageInv, flash
    <2> QED BY <2>1, <2>5 DEF Stage
  <1>8. CASE ClearAll
    BY <1>7, <1>8, PageFacts DEF ClearAll
  <1>9. ASSUME NEW v \in Word, UpdateRefused(v)
        PROVE  Stage(op)'
    BY <1>3, <1>9 DEF UpdateRefused
  <1>10. ASSUME NEW v \in Word, Update(v)
         PROVE  Stage(op)'
    <2> DEFINE p == [flashed EXCEPT !.value = v]
    <2>1. p \in Page
      BY <1>10 DEF StorageTypeOK, Page
    <2>2. main = "others" /\ Store(p, SwapUpdate, {v}) /\ UNCHANGED flash
      BY <1>10 DEF Update
    <2> HIDE DEF p
    <2> QED BY <1>7, <2>1, <2>2
  <1>11. CASE FlashOp
    <2>1. Busy /\ cmds' = Done
      BY <1>11 DEF FlashOp
    <2>2. CASE Op = ClearBonds
      <3>1. UNCHANGED <<flash, flashed, write>>
        BY <1>11, <2>2, QueueFacts DEF FlashOp, copies, ClearBonds
      <3>2. PICK next \in {FullUpdate, SwapUpdate} : cmds = <<ClearBonds, next>> /\ cmds' = <<next>>
        BY <1>2, <2>1, <2>2, NextOp, QueueFacts
      <3>3. next \in Operation
        BY QueueFacts DEF Operation, FullUpdate, SwapUpdate
      <3>4. op = next
        BY <1>1, <3>2, <3>3, QueueFacts
      <3> QED BY <3>1, <3>2, <3>4, StageKept DEF StageInv
    <2>3. CASE Op # ClearBonds
      <3>1. Op \in StorageOp /\ Done = IF Op = "write_checksum" THEN <<>> ELSE <<Following[Op]>>
        BY <2>1, <2>3, NextOp
      <3>2. PICK last \in StorageOp : last = Op
        BY <3>1
      <3>3. last # "write_checksum" /\ cmds' = <<Following[last]>>
        BY <1>2, <2>1, <3>1, <3>2
      <3>4. Following[last] \in Operation
        BY <3>3, QueueFacts DEF Following, Operation
      <3>5. op = Following[last]
        BY <1>1, <3>3, <3>4, QueueFacts
      <3>6. Stage(Following[last])'
        BY <1>11, <3>2, <3>3, OpStage
      <3> QED BY <3>5, <3>6
    <2> QED BY <2>2, <2>3
  <1>12. CASE FlashFails
    <2>1. Busy /\ cmds' = Tail(cmds)
      BY <1>12 DEF FlashFails
    <2>2. PICK next \in {FullUpdate, SwapUpdate} :
              Op = ClearBonds /\ cmds = <<ClearBonds, next>> /\ cmds' = <<next>>
      BY <1>2, <2>1, NextOp
    <2>3. UNCHANGED <<flash, flashed, write>>
      BY <1>12, <2>2, QueueFacts DEF FlashFails, copies
    <2>4. next \in Operation
      BY QueueFacts DEF Operation, FullUpdate, SwapUpdate
    <2>5. op = next
      BY <1>1, <2>2, <2>4, QueueFacts
    <2> QED BY <2>2, <2>3, <2>5, StageKept DEF StageInv
  <1>13. CASE UNCHANGED vars
    BY <1>3, <1>13 DEF vars, copies
  <1> QED
    BY <1>4, <1>5, <1>6, <1>8, <1>9, <1>10, <1>11, <1>12, <1>13 DEF Next, MainStep

\* What a boot finds after each operation of a store.
LEMMA OpKept ==
  ASSUME StorageTypeOK, QueueInv, CopiesInv, StageInv, FlashOp,
         NEW op \in StorageOp, Op = op
  PROVE  /\ Kept' \in {write.before, New, Empty}
         /\ write.intact /\ ~Erased' => Kept' \in {write.before, New}
         /\ op = "write_checksum" => Kept' = New /\ Correct(page)' /\ page'.value = New
PROOF
  <1>1. Stage(op)
    <2>1. Busy
      BY DEF FlashOp
    <2>2. cmds = <<op>>
      BY <2>1, NextOp, QueueFacts
    <2> QED BY <2>2 DEF StageInv
  <1>2. write' = write /\ flashed' = flashed
    BY DEF FlashOp, copies
  <1>3. page \in Page /\ swap \in Page /\ flashed \in Page
    BY DEF StorageTypeOK
  <1>4. \A p \in Page : p = [value |-> p.value, checksum |-> p.checksum]
                        /\ p.value \in Word /\ p.checksum \in Word
    BY DEF Page
  <1>5. UNCHANGED page => (Correct(page)' <=> Correct(page))
    BY DEF Correct, Calculated
  <1>6. UNCHANGED swap => (Correct(swap)' <=> Correct(swap))
    BY DEF Correct, Calculated
  <1>7. \A p \in Page : (page' = p => (Correct(page)' <=> Correct(p)))
                        /\ (swap' = p => (Correct(swap)' <=> Correct(p)))
    BY DEF Correct, Calculated
  <1>8. page' \in Page /\ swap' \in Page =>
            Kept' = IF Correct(page)' THEN page'.value
                    ELSE IF Correct(swap)' THEN swap'.value ELSE Empty
    BY PageFacts DEF Kept, Found, Correct, Calculated
  <1>9. ASSUME page' = page, PageInv, swap' \in Page, Correct(swap)' => swap'.value = Empty \/ Correct(page)
        PROVE  Kept' = IF write.intact THEN write.before ELSE Empty
    BY <1>3, <1>5, <1>8, <1>9 DEF PageInv
  <1>10. CASE op = "erase_swap"
    <2>1. swap' = Blank /\ page' = page
      BY <1>10, QueueFacts DEF FlashOp, ClearBonds
    <2>2. PageInv
      BY <1>1, <1>10 DEF Stage
    <2>3. swap' \in Page /\ swap'.value = Empty
      BY <2>1, PageFacts
    <2>4. Kept' = IF write.intact THEN write.before ELSE Empty
      BY <1>9, <2>1, <2>2, <2>3
    <2> QED BY <1>10, <2>4
  <1>11. CASE op = "copy_value"
    <2>1. swap' = ValueWritten(swap, page.value) /\ page' = page
      BY <1>11, QueueFacts DEF FlashOp, ClearBonds
    <2>2. swap = Blank /\ PageInv
      BY <1>1, <1>11 DEF Stage
    <2>3. swap' = [value |-> page.value, checksum |-> Empty] /\ page.value \in Word
      BY SMTT(30), <1>3, <1>4, <2>1, <2>2, PageFacts, WrittenFacts
    <2>4. swap' \in Page /\ (Correct(swap)' => swap'.value = Empty)
      BY <1>7, <2>3, PageFacts
    <2>5. Kept' = IF write.intact THEN write.before ELSE Empty
      BY <1>9, <2>1, <2>2, <2>4, PageFacts
    <2> QED BY <1>11, <2>5
  <1>12. CASE op = "copy_checksum"
    <2>1. swap' = ChecksumWritten(swap, page.checksum) /\ page' = page
      BY <1>12, QueueFacts DEF FlashOp, ClearBonds
    <2>2. swap = [value |-> page.value, checksum |-> Empty] /\ PageInv
      BY <1>1, <1>12 DEF Stage
    <2>3. swap.value = page.value
      BY <2>2
    <2>4. swap' = page
      BY <1>3, <1>4, <2>1, <2>3, WrittenFacts
    <2>5. swap' \in Page /\ (Correct(swap)' => Correct(page))
      BY <1>3, <1>7, <2>4
    <2>6. Kept' = IF write.intact THEN write.before ELSE Empty
      BY <1>9, <2>1, <2>2, <2>5
    <2> QED BY <1>12, <2>6
  <1>13. CASE op = "erase"
    <2>1. page' = Blank /\ swap' = swap
      BY <1>13, QueueFacts DEF FlashOp, ClearBonds
    <2>2. Kept' = Empty
      BY <1>3, <1>7, <1>8, <2>1, PageFacts
    <2> QED BY <1>13, <2>1, <2>2 DEF Erased
  <1>14. CASE op = "write_value"
    <2>1. page' = ValueWritten(page, flashed.value) /\ swap' = swap
      BY <1>14, QueueFacts DEF FlashOp, ClearBonds
    <2>2. page = Blank /\ BackupInv
      BY <1>1, <1>14 DEF Stage
    <2>3. page' = [value |-> flashed.value, checksum |-> Empty] /\ flashed.value \in Word
      BY SMTT(30), <1>3, <1>4, <2>1, <2>2, PageFacts, WrittenFacts
    <2>4. page' \in Page /\ page'.value = flashed.value
      BY <2>3, PageFacts
    <2>5. Correct(page)' <=> flashed.value = Empty
      BY <1>7, <2>3, PageFacts
    <2>6. CASE flashed.value = Empty
      BY <1>3, <1>8, <1>14, <2>1, <2>4, <2>5, <2>6 DEF New
    <2>7. CASE flashed.value # Empty
      <3>1. Kept' = IF Correct(swap) THEN swap.value ELSE Empty
        BY <1>3, <1>6, <1>8, <2>1, <2>4, <2>5, <2>7
      <3>2. Kept' = IF write.intact THEN write.before ELSE Empty
        BY <2>2, <3>1 DEF BackupInv
      <3> QED BY <1>14, <3>2
    <2> QED BY <2>6, <2>7
  <1>15. CASE op = "write_checksum"
    <2>1. page' = ChecksumWritten(page, flashed.checksum) /\ swap' = swap
      BY <1>15, QueueFacts DEF FlashOp, ClearBonds
    <2>2. page = [value |-> flashed.value, checksum |-> Empty]
      BY <1>1, <1>15 DEF Stage
    <2>3. page.value = flashed.value
      BY <2>2
    <2>4. page' = flashed
      BY <1>3, <1>4, <2>1, <2>3, WrittenFacts
    <2>5. Correct(page)'
      BY <1>3, <1>7, <2>4 DEF CopiesInv
    <2>6. Kept' = New
      BY <1>3, <1>8, <2>1, <2>4, <2>5 DEF New
    <2> QED BY <2>4, <2>5, <2>6 DEF New
  <1> QED
    BY <1>10, <1>11, <1>12, <1>13, <1>14, <1>15, QueueFacts

\* What a boot finds, through every step.
LEMMA KeptStep == IInv /\ [Next]_vars => KeptInv'
PROOF
  <1> SUFFICES ASSUME StorageTypeOK, QueueInv, CopiesInv, StageInv, KeptInv, [Next]_vars, Storing'
               PROVE  /\ Kept' \in {write'.before, New', Empty}
                      /\ write'.intact /\ ~Erased' => Kept' \in {write'.before, New'}
                      /\ cmds' = <<>> /\ ~write'.failed => Correct(page)' /\ page'.value = New'
    BY DEF IInv, KeptInv
  <1>1. flashed' = flashed => New' = New
    BY DEF New
  <1>2. ~BootLoads /\ ~Recovered /\ ~InitValue /\ ~NextTurn /\ ~Tasks /\ ~UpdateSame
        /\ ~StoreEnds /\ ~Reset /\ \A v \in Word : ~UpdateRefused(v)
    BY DEF Storing, BootLoads, Recovered, InitValue, NextTurn, Tasks, UpdateSame, StoreEnds,
           Reset, UpdateRefused
  <1>3. CASE BootRecovers
    <2>1. cmds' # <<>>
      BY <1>3, QueueFacts DEF BootRecovers, FullUpdate, Operation
    <2>2. Kept' = Kept /\ write'.before = Kept
      BY <1>3, KeptFacts DEF BootRecovers, Begun
    <2> QED BY <2>1, <2>2
  <1>4. ASSUME main = "others", NEW p \in Page, NEW saved \in SUBSET Word,
               Store(p, SwapUpdate, saved), UNCHANGED flash
        PROVE  cmds' # <<>> /\ Kept' = write'.before
    <2>1. cmds' \in {<<SwapUpdate>>, <<ClearBonds, SwapUpdate>>} /\ write'.before = Kept
      BY <1>4, StoreFacts
    <2> QED BY <1>4, <2>1, KeptFacts, QueueFacts DEF Operation, SwapUpdate
  <1>5. CASE ClearAll
    BY <1>4, <1>5, PageFacts DEF ClearAll
  <1>6. ASSUME NEW v \in Word, Update(v)
        PROVE  cmds' # <<>> /\ Kept' = write'.before
    <2> DEFINE p == [flashed EXCEPT !.value = v]
    <2>1. p \in Page
      BY <1>6 DEF StorageTypeOK, Page
    <2>2. main = "others" /\ Store(p, SwapUpdate, {v}) /\ UNCHANGED flash
      BY <1>6 DEF Update
    <2> HIDE DEF p
    <2> QED BY <1>4, <2>1, <2>2
  <1>7. CASE FlashOp
    <2>1. Busy /\ cmds' = Done /\ Storing /\ write' = write /\ flashed' = flashed
      BY <1>7 DEF FlashOp, Storing, copies
    <2>2. CASE Op = ClearBonds
      <3>1. UNCHANGED flash
        BY <1>7, <2>2, QueueFacts DEF FlashOp, ClearBonds
      <3>2. cmds' # <<>>
        <4>1. PICK next \in {FullUpdate, SwapUpdate} : cmds' = <<next>>
          BY <2>1, <2>2, NextOp, QueueFacts
        <4> QED BY <4>1, QueueFacts DEF Operation, FullUpdate, SwapUpdate
      <3> QED BY <1>1, <2>1, <3>1, <3>2, KeptFacts DEF KeptInv, flash
    <2>3. CASE Op # ClearBonds
      <3>1. Op \in StorageOp /\ Done = IF Op = "write_checksum" THEN <<>> ELSE <<Following[Op]>>
        BY <2>1, <2>3, NextOp
      <3>2. PICK op \in StorageOp : op = Op
        BY <3>1
      <3>3. cmds' = <<>> => op = "write_checksum"
        <4>1. op # "write_checksum" => Following[op] \in Operation /\ cmds' = <<Following[op]>>
          BY <2>1, <3>1, <3>2, QueueFacts DEF Following, Operation
        <4> QED BY <4>1, QueueFacts
      <3> QED BY <1>1, <1>7, <2>1, <3>2, <3>3, OpKept
    <2> QED BY <2>2, <2>3
  <1>8. CASE FlashFails
    <2>1. Busy /\ cmds' = Tail(cmds) /\ Storing /\ UNCHANGED flash /\ flashed' = flashed
      BY <1>8 DEF FlashFails, Storing, copies
    <2>2. write'.before = write.before /\ write'.intact = write.intact
      BY <1>8 DEF FlashFails, StorageTypeOK
    <2>3. cmds' = <<>> => write'.failed
      <3>1. CASE Op = ClearBonds
        <4>1. PICK next \in {FullUpdate, SwapUpdate} : cmds' = <<next>>
          BY <2>1, <3>1, NextOp, QueueFacts
        <4> QED BY <4>1, QueueFacts DEF Operation, FullUpdate, SwapUpdate
      <3>2. CASE Op # ClearBonds
        <4>1. Op \in StorageOp
          BY <2>1, <3>2, NextOp
        <4> QED BY <1>8, <4>1 DEF FlashFails, StorageTypeOK
      <3> QED BY <3>1, <3>2
    <2> QED BY <1>1, <2>1, <2>2, <2>3, KeptFacts DEF KeptInv, flash
  <1>9. CASE RadioEvent
    BY <1>1, <1>9, KeptFacts DEF RadioEvent, Storing, copies, KeptInv, flash
  <1>10. CASE UNCHANGED vars
    BY <1>1, <1>10, KeptFacts DEF vars, Storing, copies, KeptInv, flash
  <1> QED
    BY <1>2, <1>3, <1>5, <1>6, <1>7, <1>8, <1>9, <1>10 DEF Next, MainStep
\* The value last stored, through every step.
LEMMA SavedStep == IInv /\ [Next]_vars => SavedInv'
PROOF
  <1> SUFFICES ASSUME StorageTypeOK, QueueInv, CopiesInv, KeptInv, SavedInv, [Next]_vars
               PROVE  SavedInv'
    BY DEF IInv
  <1>1. UNCHANGED flash => page' = page /\ (Correct(page)' <=> Correct(page))
    BY KeptFacts DEF flash
  <1>2. UNCHANGED flashed => New' = New
    BY DEF New
  <1>3. ASSUME write'.saved = {}
        PROVE  SavedInv'
    BY <1>3 DEF SavedInv
  <1>4. CASE BootLoads
    <2>1. write'.saved = write.saved /\ write'.failed = FALSE /\ main = "boot" /\ main' = "values"
      BY <1>4 DEF BootLoads, Begun
    <2>2. ASSUME NEW v \in write.saved
          PROVE  Correct(page) /\ page.value = v /\ volatile'.value = v
      <3>1. Correct(page) /\ page.value = v
        BY <2>1, <2>2 DEF SavedInv
      <3> QED BY <1>4, <3>1 DEF BootLoads, Found
    <2>3. UNCHANGED flash
      BY <1>4 DEF BootLoads
    <2> QED BY <1>1, <2>1, <2>2, <2>3 DEF SavedInv
  <1>5. CASE BootRecovers \/ ClearAll
    BY <1>3, <1>5 DEF BootRecovers, ClearAll, Store, Begun
  <1>6. CASE Recovered
    BY <1>3, <1>6 DEF Recovered, SavedInv
  <1>7. CASE InitValue
    <2>1. write' = write /\ main = "values" /\ main' = "others" /\ UNCHANGED flash
      BY <1>7 DEF InitValue
    <2>2. ASSUME NEW v \in write.saved, v # Empty
          PROVE  volatile'.value = v /\ local' = v
      <3>1. volatile.value = v
        BY <2>1, <2>2 DEF SavedInv
      <3> QED BY <1>7, <2>2, <3>1 DEF InitValue
    <2> QED BY <1>1, <2>1, <2>2 DEF SavedInv
  <1>8. CASE NextTurn \/ Tasks \/ RadioEvent
    <2>1. UNCHANGED <<flash, copies, write>>
      BY <1>8 DEF NextTurn, Tasks, RadioEvent
    <2>2. /\ main' \notin {"recover", "store", "values"} \/ main' = main
          /\ main = "store" => main' = main
          /\ main' \in {"others", "tasks"} => main \in {"others", "tasks"}
      BY <1>8 DEF NextTurn, Tasks, RadioEvent
    <2> QED BY <1>1, <1>2, <2>1, <2>2 DEF SavedInv, copies
  <1>9. CASE UpdateSame
    BY <1>1, <1>9 DEF UpdateSame, SavedInv
  <1>10. ASSUME NEW v \in Word, UpdateRefused(v)
         PROVE  SavedInv'
    BY <1>1, <1>10 DEF UpdateRefused, SavedInv
  <1>11. ASSUME NEW v \in Word, Update(v)
         PROVE  SavedInv'
    <2> DEFINE p == [flashed EXCEPT !.value = v]
    <2>1. p \in Page /\ p.value = v
      BY <1>11 DEF StorageTypeOK, Page
    <2>2. main = "others" /\ Store(p, SwapUpdate, {v}) /\ main' = "store" /\ local' = v
      BY <1>11 DEF Update
    <2> HIDE DEF p
    <2>3. flashed'.value = p.value /\ write'.saved = {v} /\ write'.failed = FALSE
      BY <2>1, <2>2, StoreFacts
    <2>4. New' = v
      BY <2>1, <2>3 DEF New
    <2> QED BY <2>2, <2>3, <2>4 DEF SavedInv
  <1>12. CASE StoreEnds
    <2>1. write' = write /\ main = "store" /\ main' = "others" /\ UNCHANGED <<flash, copies>>
      BY <1>12 DEF StoreEnds
    <2>2. ASSUME NEW v \in write.saved
          PROVE  Correct(page) /\ page.value = v /\ volatile.value = v /\ local = v
      <3>1. ~write.failed /\ New = v /\ local = v
        BY <2>1, <2>2 DEF SavedInv
      <3>2. Correct(page) /\ page.value = New
        BY <1>12, <3>1 DEF StoreEnds, IsReady, KeptInv, Storing
      <3> QED BY <2>1, <3>1, <3>2 DEF CopiesInv, New
    <2> QED BY <1>1, <2>1, <2>2 DEF SavedInv, copies
  <1>13. CASE FlashOp \/ FlashFails
    <2>1. Busy /\ main' = main /\ UNCHANGED copies
      BY <1>13 DEF FlashOp, FlashFails
    <2>2. write' = write \/ write'.saved = {}
      BY <1>13 DEF FlashOp, FlashFails, StorageTypeOK
    <2>3. CASE main = "store" /\ write' = write
      BY <1>2, <2>1, <2>3 DEF SavedInv, copies
    <2>4. CASE main # "store" /\ main # "recover" /\ write' = write
      <3>1. Op = ClearBonds
        BY <2>1, <2>4, NextOp DEF Storing
      <3>2. UNCHANGED flash
        BY <1>13, <3>1, QueueFacts DEF FlashOp, FlashFails, ClearBonds
      <3> QED BY <1>1, <2>1, <2>4, <3>2 DEF SavedInv, copies
    <2>5. CASE main = "recover" /\ write' = write
      BY <1>3, <2>5 DEF SavedInv
    <2> QED BY <1>3, <2>2, <2>3, <2>4, <2>5
  <1>14. CASE Reset
    <2>1. /\ write'.saved \in {{}, write.saved} /\ (main = "store" => write'.saved = {})
          /\ write'.failed = FALSE /\ main' = "boot" /\ UNCHANGED flash
      BY <1>14 DEF Reset, Restarted
    <2> QED BY <1>1, <1>3, <2>1 DEF SavedInv
  <1>15. CASE UNCHANGED vars
    BY <1>1, <1>2, <1>15 DEF vars, copies, SavedInv
  <1> QED
    BY <1>4, <1>5, <1>6, <1>7, <1>8, <1>9, <1>10, <1>11, <1>12, <1>13, <1>14, <1>15
    DEF Next, MainStep
-----------------------------------------------------------------------------
(***************************************************************************)
(* The theorems.                                                           *)
(***************************************************************************)
\* Whatever flash holds when the device boots for the first time.
LEMMA InitInv == Init => IInv
PROOF
  <1> SUFFICES ASSUME Init PROVE IInv
    OBVIOUS
  <1>1. StorageTypeOK
    <2>1. write \in History
      BY PageFacts, WrittenFacts DEF Init, Restarted
    <2> QED BY <2>1, PageFacts, QueueTypes DEF Init, StorageTypeOK, MainPc, History
  <1>2. QueueInv
    BY DEF Init, QueueInv, Storing
  <1>3. CopiesInv
    BY PageFacts DEF Init, CopiesInv
  <1>4. StageInv
    BY QueueFacts DEF Init, StageInv, Operation
  <1>5. KeptInv
    BY DEF Init, KeptInv, Storing
  <1>6. SavedInv
    BY DEF Init, Restarted, SavedInv
  <1> QED
    BY <1>1, <1>2, <1>3, <1>4, <1>5, <1>6 DEF IInv

LEMMA StepInv == IInv /\ [Next]_vars => IInv'
PROOF
  BY TypeStep, QueueStep, CopiesStep, StageStep, KeptStep, SavedStep DEF IInv

LEMMA Inductive == Spec => []IInv
PROOF
  BY InitInv, StepInv, PTL DEF Spec

\* Types, and the queue's bound: whatever resets and fails, no more than the device
\* manager's command and one store are queued with pstorage.
THEOREM StorageTypeCorrect == Spec => []StorageTypeOK
PROOF
  <1>1. IInv => StorageTypeOK
    BY DEF IInv
  <1> QED BY <1>1, Inductive, PTL

\* Between any two operations of a store whose page was readable, a boot finds the old
\* value or the new one unless the page is the erased one.
THEOREM ErasureAloneLoses == Spec => []OnlyErasureLoses
PROOF
  <1>1. IInv => OnlyErasureLoses
    BY DEF IInv, KeptInv, OnlyErasureLoses, New
  <1> QED BY <1>1, Inductive, PTL

\* A value whose store has ended is with its owner after every reset and initialisation,
\* unless it is the word that an erased page holds.
THEOREM StoredValueIsRead == Spec => []StoredIsRead
PROOF
  <1>1. IInv => StoredIsRead
    BY DEF IInv, SavedInv, StoredIsRead
  <1> QED BY <1>1, Inductive, PTL

Held == IF main = "recover" THEN flashed.value ELSE volatile.value
Phase == IF Storing THEN "writing" ELSE IF main \in {"boot", "fault"} THEN "off" ELSE "idle"

\* While a store goes on, what the program holds is what it writes.
LEMMA HeldIsNew == IInv /\ Storing => Held = New
PROOF
  BY DEF IInv, CopiesInv, Storing, Held, New

\* Types of what the abstract specification sees.
ValuesOK ==
    /\ Kept \in Word /\ Held \in Word
    /\ write.before \in Word /\ write.failed \in BOOLEAN

\* They follow from the types of the storage.
LEMMA ValueTypes == StorageTypeOK => ValuesOK
PROOF
  <1> SUFFICES ASSUME StorageTypeOK PROVE ValuesOK
    OBVIOUS
  <1>1. Kept \in Word
    BY KeptFacts, PageFacts DEF StorageTypeOK, Page
  <1>2. Held \in Word
    BY PageFacts DEF StorageTypeOK, Page, Held
  <1> QED BY <1>1, <1>2 DEF StorageTypeOK, ValuesOK

\* Every step of the storage is a step of the persistent value, or none.
LEMMA Simulation ==
  IInv /\ IInv' /\ ValuesOK /\ ValuesOK' /\ [Next]_vars => [Persistent!Next]_(Persistent!vars)
PROOF
  <1> SUFFICES ASSUME IInv, IInv', ValuesOK, ValuesOK', [Next]_vars
               PROVE  [Persistent!Next]_(Persistent!vars)
    OBVIOUS
  <1> DEFINE Stutter == UNCHANGED <<Kept, Held, write.before, write.failed, Phase>>
  <1>1. Stutter => [Persistent!Next]_(Persistent!vars)
    BY DEF Persistent!vars, Held, Phase
  <1>2. StorageTypeOK /\ StorageTypeOK'
    BY DEF IInv
  <1>3. /\ Kept \in Word /\ Held \in Word /\ write.before \in Word /\ write.failed \in BOOLEAN
        /\ Kept' \in Word /\ Held' \in Word /\ write'.before \in Word /\ write'.failed \in BOOLEAN
    BY DEF ValuesOK
  <1>4. ASSUME Phase = "off", Phase' \in {"idle", "writing"}, Held' = Kept,
               write'.before = Kept, write'.failed = FALSE, Kept' = Kept
        PROVE  Persistent!Next
    BY <1>4 DEF Persistent!Next, Persistent!Boots, Held, Phase
  <1>5. ASSUME Phase = "idle", Phase' = "writing",
               write'.before = Kept, write'.failed = FALSE, Kept' = Kept
        PROVE  Persistent!Next
    BY <1>3, <1>5 DEF Persistent!Next, Persistent!Writes, Held, Phase
  <1>6. ASSUME Phase = "writing", Kept' \in {write.before, Held, Empty},
               write'.failed \in {write.failed, TRUE},
               Held' = Held, write'.before = write.before, Phase' = Phase
        PROVE  Persistent!Next
    BY <1>6 DEF Persistent!Next, Persistent!Progresses, Held, Phase
  <1>7. ASSUME Phase = "writing", Phase' = "idle", write.failed \/ Kept = Held,
               Kept' = Kept, Held' = Held, write' = write
        PROVE  Persistent!Next
    BY <1>7 DEF Persistent!Next, Persistent!Ends, Held, Phase
  <1>8. ASSUME Phase' = "off", Kept' = Kept
        PROVE  Persistent!Next
    BY <1>3, <1>8 DEF Persistent!Next, Persistent!Stops, Held, Phase
  <1>9. CASE BootLoads
    <2>1. Kept' = Kept /\ write'.before = Kept /\ write'.failed = FALSE
      BY <1>9, KeptFacts DEF BootLoads, Begun
    <2>2. Phase = "off" /\ Phase' = "idle"
      BY <1>9 DEF BootLoads, Phase, Storing
    <2>3. Held' = Kept
      BY <1>9 DEF BootLoads, Held, Kept
    <2> QED BY <1>4, <2>1, <2>2, <2>3
  <1>10. CASE BootRecovers
    <2>1. Kept' = Kept /\ write'.before = Kept /\ write'.failed = FALSE
      BY <1>10, KeptFacts DEF BootRecovers, Begun
    <2>2. Phase = "off" /\ Phase' = "writing"
      BY <1>10 DEF BootRecovers, Phase, Storing
    <2>3. Kept = swap.value
      BY <1>10, KeptFacts DEF BootRecovers
    <2>4. flashed'.value = swap.value
      BY <1>2, <1>10, SumOfOne DEF BootRecovers, StorageTypeOK
    <2>5. Held' = Kept
      BY <1>10, <2>3, <2>4 DEF BootRecovers, Held
    <2> QED BY <1>4, <2>1, <2>2, <2>5
  <1>11. ASSUME Storing, cmds = <<>>
         PROVE  write.failed \/ Kept = Held
    BY <1>11, HeldIsNew, KeptFacts DEF IInv, KeptInv
  <1>12. CASE Recovered
    <2>1. Kept' = Kept /\ write' = write
      BY <1>12, KeptFacts DEF Recovered
    <2>2. Phase = "writing" /\ Phase' = "idle"
      BY <1>12 DEF Recovered, Phase, Storing
    <2>3. Held' = Held
      BY <1>12 DEF Recovered, Held
    <2>4. write.failed \/ Kept = Held
      BY <1>11, <1>12 DEF Recovered, IsReady, Storing
    <2> QED BY <1>7, <2>1, <2>2, <2>3, <2>4
  <1>13. CASE InitValue
    <2>1. Kept' = Kept /\ write' = write
      BY <1>13, KeptFacts DEF InitValue
    <2>2. Phase = "idle" /\ Phase' = "idle"
      BY <1>13 DEF InitValue, Phase, Storing
    <2>3. CASE volatile.value # Empty
      <3>1. Held' = Held
        BY <1>13, <2>3 DEF InitValue, Held
      <3> QED BY <1>1, <2>1, <2>2, <3>1
    <2>4. CASE volatile.value = Empty
      <3>1. local = Default /\ volatile'.value = Default
        BY <1>2, <1>13, <2>4 DEF InitValue, IInv, CopiesInv, StorageTypeOK, Page
      <3>2. Held = Empty /\ Held' = Default
        BY <1>13, <2>4, <3>1 DEF InitValue, Held
      <3> QED
        BY <2>1, <2>2, <3>2 DEF Persistent!Next, Persistent!UsesDefault, Held, Phase
    <2> QED BY <2>3, <2>4
  <1>14. CASE NextTurn \/ UpdateSame \/ RadioEvent
    <2>1. Kept' = Kept /\ write' = write
      BY <1>14, KeptFacts DEF NextTurn, UpdateSame, RadioEvent
    <2>2. Held' = Held /\ Phase' = Phase
      BY <1>14 DEF NextTurn, UpdateSame, RadioEvent, Held, Phase, Storing, copies
    <2> QED BY <1>1, <2>1, <2>2
  <1>15. CASE Tasks
    <2>1. Kept' = Kept /\ write' = write /\ Phase = "idle"
      BY <1>15, KeptFacts DEF Tasks, Phase, Storing
    <2>2. CASE main' = "fault"
      BY <1>8, <2>1, <2>2 DEF Phase, Storing
    <2>3. CASE main' = "others"
      BY <1>1, <1>15, <2>1, <2>3 DEF Tasks, Phase, Storing, Held, copies
    <2> QED BY <1>15, <2>2, <2>3 DEF Tasks
  <1>16. CASE ClearAll
    <2>1. Kept' = Kept /\ write'.before = Kept /\ write'.failed = FALSE
      BY <1>16, KeptFacts DEF ClearAll, Store, Begun
    <2>2. Phase = "idle" /\ Phase' = "writing"
      BY <1>16 DEF ClearAll, Phase, Storing
    <2> QED BY <1>5, <2>1, <2>2
  <1>17. ASSUME NEW v \in Word, UpdateRefused(v)
         PROVE  Persistent!Next
    <2>1. Kept' = Kept /\ Phase' = "off"
      BY <1>17, KeptFacts DEF UpdateRefused, Phase, Storing
    <2> QED BY <1>8, <2>1
  <1>18. ASSUME NEW v \in Word, Update(v)
         PROVE  Persistent!Next
    <2>1. Kept' = Kept /\ write'.before = Kept /\ write'.failed = FALSE
      BY <1>18, KeptFacts DEF Update, Store, Begun
    <2>2. Phase = "idle" /\ Phase' = "writing"
      BY <1>18 DEF Update, Phase, Storing
    <2> QED BY <1>5, <2>1, <2>2
  <1>19. CASE StoreEnds
    <2>1. Kept' = Kept /\ write' = write
      BY <1>19, KeptFacts DEF StoreEnds
    <2>2. Phase = "writing" /\ Phase' = "idle"
      BY <1>19 DEF StoreEnds, Phase, Storing
    <2>3. Held' = Held
      BY <1>19 DEF StoreEnds, Held, copies
    <2>4. write.failed \/ Kept = Held
      BY <1>11, <1>19 DEF StoreEnds, IsReady, Storing
    <2> QED BY <1>7, <2>1, <2>2, <2>3, <2>4
  <1>20. CASE FlashOp \/ FlashFails
    <2>1. Busy /\ main' = main /\ UNCHANGED copies
      BY <1>20 DEF FlashOp, FlashFails
    <2>2. Held' = Held /\ Phase' = Phase
      BY <2>1 DEF Held, Phase, Storing, copies
    <2>3. write'.before = write.before /\ write'.failed \in {write.failed, TRUE}
      BY <1>2, <1>20 DEF FlashOp, FlashFails, StorageTypeOK
    <2>4. CASE Storing
      <3>1. Storing'
        BY <2>1, <2>4 DEF Storing
      <3>2. Kept' \in {write'.before, New', Empty}
        BY <3>1 DEF IInv, KeptInv
      <3>3. New' = New
        BY <2>1 DEF New, copies
      <3>4. New = Held
        BY <2>4, HeldIsNew
      <3>5. Phase = "writing"
        BY <2>4 DEF Phase
      <3> QED BY <1>6, <2>2, <2>3, <3>2, <3>3, <3>4, <3>5
    <2>5. CASE ~Storing
      <3>1. Op = ClearBonds
        BY <1>2, <2>1, <2>5, NextOp DEF IInv
      <3>2. UNCHANGED flash /\ write' = write
        BY <1>20, <3>1, QueueFacts DEF FlashOp, FlashFails, ClearBonds
      <3> QED BY <1>1, <2>2, <3>2, KeptFacts
    <2> QED BY <2>4, <2>5
  <1>21. CASE Reset
    <2>1. Kept' = Kept /\ Phase' = "off"
      BY <1>21, KeptFacts DEF Reset, Phase, Storing
    <2> QED BY <1>8, <2>1
  <1>22. CASE UNCHANGED vars
    <2>1. Kept' = Kept /\ write' = write
      BY <1>22, KeptFacts DEF vars
    <2>2. Held' = Held /\ Phase' = Phase
      BY <1>22 DEF vars, copies, Held, Phase, Storing
    <2> QED BY <1>1, <2>1, <2>2
  <1> QED
    BY <1>9, <1>10, <1>12, <1>13, <1>14, <1>15, <1>16, <1>17, <1>18, <1>19, <1>20, <1>21, <1>22
    DEF Next, MainStep

\* For words of any width, any default and anything in flash at first, the storage
\* provides the persistent value of PersistentValue: nothing but a store changes what a
\* boot finds, and a store without an error has stored what the program holds.
THEOREM StorageImplementsValue == Spec => ImplementsValue
PROOF
  <1>1. Init => Persistent!Init
    <2> SUFFICES ASSUME Init PROVE Persistent!Init
      OBVIOUS
    <2>1. StorageTypeOK
      BY InitInv DEF IInv
    <2>2. Kept \in Word /\ Held \in Word /\ write.before \in Word /\ write.failed \in BOOLEAN
      BY <2>1, ValueTypes DEF ValuesOK
    <2>3. Phase = "off"
      BY DEF Init, Phase, Storing
    <2> QED BY <2>2, <2>3 DEF Persistent!Init, Held, Phase
  <1>2. IInv => ValuesOK
    BY ValueTypes DEF IInv
  <1> QED
    BY <1>1, <1>2, Simulation, Inductive, PTL DEF Spec, ImplementsValue, Persistent!Spec
=============================================================================
