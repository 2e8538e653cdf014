------------------------------ MODULE GapProofs ------------------------------
(***************************************************************************)
(* Proofs about Gap for any number of events that wait: a device never does *)
(* two things at once, is idle when it believes to be, stops itself only on *)
(* old news, and has right flags unless an event came inside a start.       *)
(***************************************************************************)
EXTENDS Gap, SequenceTheorems, FiniteSetTheorems, TLAPS
-----------------------------------------------------------------------------
(***************************************************************************)
(* The inductive invariant.  What waits is always some reports (told of     *)
(* them), then perhaps a connection (joined is its role, or "none"), then   *)
(* perhaps its end (left is 1); the parts of the invariant say what the     *)
(* radio, the flags and a fault are for each of these queues.               *)
(***************************************************************************)
Report == [type |-> "adv_report"]
Joined(newRole) == [type |-> "connected", role |-> newRole]
Left == [type |-> "disconnected"]

NewsOf == Role \union {"none"}
Joins(joined) == IF joined = "none" THEN 0 ELSE 1

QueueIs(queue, told, joined, left) ==
    /\ Len(queue) = told + Joins(joined) + left
    /\ \A i \in 1 .. told : queue[i] = Report
    /\ joined # "none" => queue[told + 1] = Joined(joined)
    /\ left = 1 => queue[Len(queue)] = Left

\* The radio does one thing; nothing while there is a link, or news of one.
RadioInv(told, joined, left) ==
    /\ radio \in {{}, {"ADVERTISING"}, {"DISCOVERING"}, {"CONNECTING"}}
    /\ link # "none" \/ joined # "none" \/ left = 1 => radio = {}
    /\ joined # "none" /\ left = 0 => link = joined
    /\ left = 1 => link = "none"
    /\ told > 0 => joined # "peripheral" /\ (left = 1 => joined = "central")
    /\ told > 0 /\ joined = "none" /\ fault = "none" =>
           link = "none" /\ radio \in {{"DISCOVERING"}, {"CONNECTING"}}

\* Only a scanner scans and becomes a central.
ScannerInv(told, joined) ==
    \/ told > 0 \/ joined = "central" \/ radio \in {{"DISCOVERING"}, {"CONNECTING"}}
    \/ pc \in {"scan_checks", "scan_start", "scan_load", "scan_store"}
    => scanner = "DISCOVERING"

\* What the status word should be while these news wait.
Expected(joined, left) ==
    IF joined = "peripheral" THEN {"ADVERTISING"}
    ELSE IF joined = "central" THEN {"CONNECTING"}
    ELSE IF left = 1 THEN {"CONNECTED"}
    ELSE Truth

\* Inside a start no flag is set before the first event; one that came there has
\* ended what was started, and the flag that is then set is never cleared.
FlagInv(told, joined, left) ==
    /\ pc \notin StartWindow /\ ~raced => status = Expected(joined, left)
    /\ pc \in {"adv_checks", "adv_start", "scan_checks", "scan_start"} => ~raced /\ status = {}
    /\ pc \in {"adv_load", "adv_store"} /\ ~raced =>
           Expected(joined, left) = {"ADVERTISING"} /\ status = {}
    /\ pc \in {"scan_load", "scan_store"} /\ ~raced =>
           Expected(joined, left) = {"DISCOVERING"} /\ status = {}
    /\ pc \in {"adv_store", "scan_store"} /\ ~raced => loaded = {}
    /\ pc \in StartWindow /\ raced =>
           status = Expected(joined, left) /\ radio \in {{}, {"CONNECTING"}}
    /\ pc \in {"adv_load", "adv_store"} /\ raced => radio = {} /\ joined = "none" /\ told = 0
    /\ pc \notin StartWindow /\ raced =>
           /\ told = 0
           /\ \/ "DISCOVERING" \in status /\ radio \in {{}, {"CONNECTING"}}
              \/ "ADVERTISING" \in status /\ radio = {} /\ joined = "none"

FaultInv(joined, left) ==
    fault # "none" =>
        /\ scanner = "DISCOVERING" /\ fault \in {"connect_cancel", "discover"}
        /\ fault = "connect_cancel" => joined # "none"
        /\ fault = "discover" => left = 1

Inv(told, joined, left) ==
    /\ RadioInv(told, joined, left) /\ ScannerInv(told, joined) /\ FaultInv(joined, left)
    /\ fault = "none" => FlagInv(told, joined, left)

IInv ==
    /\ GapTypeOK /\ events \in Seq(Event)
    /\ \E told \in 0 .. Len(events), joined \in NewsOf, left \in {0, 1} :
           QueueIs(events, told, joined, left) /\ Inv(told, joined, left)
-----------------------------------------------------------------------------
(***************************************************************************)
(* The queue of events.                                                    *)
(***************************************************************************)
\* What an empty queue holds, and where its news are.
LEMMA QueueFacts ==
  ASSUME NEW e \in Seq(Event), NEW told \in Nat, NEW joined \in NewsOf, NEW left \in {0, 1},
         QueueIs(e, told, joined, left)
  PROVE  /\ e = <<>> => told = 0 /\ joined = "none" /\ left = 0
         /\ joined # "none" => \E i \in 1 .. Len(e) : e[i].type = "connected"
         /\ left = 1 => \E i \in 1 .. Len(e) : e[i].type = "disconnected"
         /\ told \in 0 .. Len(e)
PROOF
  <1>1. Len(e) \in Nat /\ (e = <<>> => Len(e) = 0)
    BY LenProperties, EmptySeq
  <1>2. /\ Len(e) = told + Joins(joined) + left
        /\ joined # "none" => e[told + 1] = Joined(joined)
        /\ left = 1 => e[Len(e)] = Left
    BY DEF QueueIs
  <1>3. Joins(joined) \in {0, 1} /\ (joined # "none" => Joins(joined) = 1)
        /\ (Joins(joined) = 0 => joined = "none")
    BY DEF Joins
  <1>4. joined # "none" => told + 1 \in 1 .. Len(e)
    BY <1>1, <1>2, <1>3
  <1>5. left = 1 => Len(e) \in 1 .. Len(e)
    BY <1>1, <1>2, <1>3
  <1>6. Joined(joined).type = "connected" /\ Left.type = "disconnected"
    BY DEF Joined, Left
  <1>7. e = <<>> => told = 0 /\ joined = "none" /\ left = 0
    <2>1. Len(e) = 0 => told = 0 /\ Joins(joined) = 0 /\ left = 0
      BY <1>2, <1>3
    <2> QED BY <1>1, <1>3, <2>1
  <1>8. told \in 0 .. Len(e)
    BY <1>1, <1>2, <1>3
  <1> QED BY <1>2, <1>4, <1>5, <1>6, <1>7, <1>8

\* What is handled is the first of the reports, or there are none.
LEMMA QueueTail ==
  ASSUME NEW e \in Seq(Event), e # <<>>,
         NEW told \in Nat, NEW joined \in NewsOf, NEW left \in {0, 1},
         QueueIs(e, told, joined, left)
  PROVE  /\ Tail(e) \in Seq(Event) /\ Len(Tail(e)) = Len(e) - 1 /\ Len(e) \in Nat
         /\ Head(e).type = "adv_report" =>
                told > 0 /\ QueueIs(Tail(e), told - 1, joined, left)
         /\ Head(e).type = "connected" =>
                /\ told = 0 /\ joined = Head(e).role /\ joined \in Role
                /\ QueueIs(Tail(e), 0, "none", left)
         /\ Head(e).type = "disconnected" =>
                told = 0 /\ joined = "none" /\ left = 1 /\ QueueIs(Tail(e), 0, "none", 0)
PROOF
  <1> DEFINE n == Len(e)
             t == Tail(e)
             c == Joins(joined)
  <1>1. /\ n \in Nat /\ n > 0 /\ t \in Seq(Event) /\ Len(t) = n - 1 /\ Head(e) = e[1]
        /\ \A i \in 1 .. n - 1 : t[i] = e[i + 1]
    BY HeadTailProperties, LenProperties, EmptySeq
  <1>2. /\ n = told + c + left /\ \A i \in 1 .. told : e[i] = Report
        /\ joined # "none" => e[told + 1] = Joined(joined)
        /\ left = 1 => e[n] = Left
    BY DEF QueueIs
  <1>3. /\ Report.type = "adv_report" /\ Left.type = "disconnected"
        /\ Joined(joined).type = "connected" /\ Joined(joined).role = joined
    BY DEF Report, Left, Joined
  <1>4. /\ c \in {0, 1} /\ (joined = "none" <=> c = 0) /\ Joins("none") = 0
        /\ joined # "none" => joined \in Role
    BY DEF Joins, NewsOf
  <1> HIDE DEF n, t, c
  <1>5. CASE told > 0
    <2>1. Head(e) = Report
      BY <1>1, <1>2, <1>5
    <2>2. QueueIs(t, told - 1, joined, left)
      <3>1. Len(t) = (told - 1) + c + left
        BY <1>1, <1>2, <1>4
      <3>2. \A i \in 1 .. told - 1 : t[i] = Report
        <4>1. ASSUME NEW i \in 1 .. told - 1 PROVE t[i] = Report
          <5>1. i \in 1 .. n - 1 /\ i + 1 \in 1 .. told
            BY <1>1, <1>2, <1>4
          <5> QED BY <1>1, <1>2, <5>1
        <4> QED BY <4>1
      <3>3. joined # "none" => t[(told - 1) + 1] = Joined(joined)
        <4>1. joined # "none" => told \in 1 .. n - 1 /\ (told - 1) + 1 = told
          BY <1>1, <1>2, <1>4, <1>5
        <4> QED BY <1>1, <1>2, <4>1
      <3>4. left = 1 => t[Len(t)] = Left
        <4>1. left = 1 => n - 1 \in 1 .. n - 1 /\ (n - 1) + 1 = n
          BY <1>1, <1>2, <1>4, <1>5
        <4> QED BY <1>1, <1>2, <4>1
      <3> QED BY <3>1, <3>2, <3>3, <3>4 DEF QueueIs, c
    <2> QED BY <1>1, <1>3, <1>5, <2>1, <2>2 DEF n, t
  <1>6. CASE told = 0 /\ joined # "none"
    <2>1. Head(e) = Joined(joined) /\ joined \in Role
      BY <1>1, <1>2, <1>4, <1>6
    <2>2. Len(t) = left /\ (left = 1 => n = 2)
      BY <1>1, <1>2, <1>4, <1>6
    <2>3. left = 1 => t[Len(t)] = Left
      BY <1>1, <1>2, <2>2
    <2>4. QueueIs(t, 0, "none", left)
      BY <1>4, <2>2, <2>3 DEF QueueIs
    <2> QED BY <1>1, <1>3, <1>6, <2>1, <2>4 DEF n, t
  <1>7. CASE told = 0 /\ joined = "none"
    <2>1. left = 1 /\ n = 1 /\ Len(t) = 0
      BY <1>1, <1>2, <1>4, <1>7
    <2>2. Head(e) = Left
      BY <1>1, <1>2, <2>1
    <2>3. QueueIs(t, 0, "none", 0)
      BY <1>4, <2>1 DEF QueueIs
    <2> QED BY <1>1, <1>3, <1>7, <2>1, <2>2, <2>3 DEF n, t
  <1> QED BY <1>5, <1>6, <1>7

\* What the radio may add.
LEMMA QueueAppend ==
  ASSUME NEW e \in Seq(Event), NEW told \in Nat, NEW joined \in NewsOf,
         QueueIs(e, told, joined, 0)
  PROVE  /\ \A event \in Event :
                Append(e, event) \in Seq(Event) /\ Len(Append(e, event)) = Len(e) + 1
         /\ Report \in Event /\ Left \in Event /\ \A newRole \in Role : Joined(newRole) \in Event
         /\ joined = "none" => QueueIs(Append(e, Report), told + 1, "none", 0)
         /\ joined = "none" =>
                \A newRole \in Role : QueueIs(Append(e, Joined(newRole)), told, newRole, 0)
         /\ QueueIs(Append(e, Left), told, joined, 1)
PROOF
  <1> DEFINE n == Len(e)
             c == Joins(joined)
  <1>1. /\ Report \in Event /\ Left \in Event
        /\ \A newRole \in Role : Joined(newRole) \in Event
    BY DEF Event, Report, Left, Joined
  <1>2. n \in Nat
    BY LenProperties
  <1>3. ASSUME NEW event \in Event
        PROVE  /\ Append(e, event) \in Seq(Event) /\ Len(Append(e, event)) = n + 1
               /\ \A i \in 1 .. n : Append(e, event)[i] = e[i]
               /\ Append(e, event)[n + 1] = event
    BY AppendProperties
  <1>4. /\ c \in {0, 1} /\ (joined = "none" <=> c = 0) /\ Joins("none") = 0
        /\ \A newRole \in Role : newRole # "none" /\ Joins(newRole) = 1
    BY DEF Joins, Role
  <1>5. /\ n = told + c + 0 /\ \A i \in 1 .. told : e[i] = Report
        /\ joined # "none" => e[told + 1] = Joined(joined)
    BY DEF QueueIs
  <1>6. \A i \in 1 .. told : i \in 1 .. n
    BY <1>2, <1>4, <1>5
  <1>7. joined # "none" => told + 1 \in 1 .. n
    BY <1>2, <1>4, <1>5
  <1>8. joined = "none" => n = told
    BY <1>2, <1>4, <1>5
  <1> HIDE DEF n, c
  <1>9. joined = "none" => QueueIs(Append(e, Report), told + 1, "none", 0)
    <2> SUFFICES ASSUME joined = "none"
                 PROVE  QueueIs(Append(e, Report), told + 1, "none", 0)
      OBVIOUS
    <2> DEFINE a == Append(e, Report)
    <2>1. Len(a) = told + 1 /\ (\A i \in 1 .. told : a[i] = e[i]) /\ a[told + 1] = Report
      BY <1>1, <1>3, <1>8
    <2> HIDE DEF a
    <2>2. \A i \in 1 .. told + 1 : a[i] = Report
      BY <1>5, <2>1
    <2>3. Len(a) = (told + 1) + 0 + 0
      BY <2>1
    <2>4. QueueIs(a, told + 1, "none", 0)
      BY <1>4, <2>2, <2>3 DEF QueueIs
    <2> QED BY <2>4 DEF a
  <1>10. joined = "none" =>
            \A newRole \in Role : QueueIs(Append(e, Joined(newRole)), told, newRole, 0)
    <2> SUFFICES ASSUME joined = "none", NEW newRole \in Role
                 PROVE  QueueIs(Append(e, Joined(newRole)), told, newRole, 0)
      OBVIOUS
    <2> DEFINE a == Append(e, Joined(newRole))
    <2>1. Len(a) = told + 1 /\ (\A i \in 1 .. told : a[i] = e[i]) /\ a[told + 1] = Joined(newRole)
      BY <1>1, <1>3, <1>8
    <2> HIDE DEF a
    <2>2. \A i \in 1 .. told : a[i] = Report
      BY <1>5, <2>1
    <2>3. Len(a) = told + 1 + 0 /\ Joins(newRole) = 1
      BY <1>4, <2>1
    <2>4. QueueIs(a, told, newRole, 0)
      BY <2>1, <2>2, <2>3 DEF QueueIs
    <2> QED BY <2>4 DEF a
  <1>11. QueueIs(Append(e, Left), told, joined, 1)
    <2> DEFINE a == Append(e, Left)
    <2>1. Len(a) = n + 1 /\ (\A i \in 1 .. n : a[i] = e[i]) /\ a[n + 1] = Left
      BY <1>1, <1>3
    <2> HIDE DEF a
    <2>2. Len(a) = told + c + 1
      BY <1>2, <1>4, <1>5, <2>1
    <2>3. \A i \in 1 .. told : a[i] = Report
      BY <1>5, <1>6, <2>1
    <2>4. joined # "none" => a[told + 1] = Joined(joined)
      BY <1>5, <1>7, <2>1
    <2>5. a[Len(a)] = Left
      BY <2>1
    <2>6. QueueIs(a, told, joined, 1)
      BY <2>2, <2>3, <2>4, <2>5 DEF QueueIs, c
    <2> QED BY <2>6 DEF a
  <1> QED BY <1>1, <1>3, <1>9, <1>10, <1>11 DEF n
-----------------------------------------------------------------------------
(***************************************************************************)
(* The steps.                                                              *)
(***************************************************************************)
\* The main loop: nothing waits.
LEMMA MainKeeps ==
  ASSUME GapTypeOK, fault = "none", events = <<>>, Inv(0, "none", 0), MainStep
  PROVE  GapTypeOK' /\ events' = events /\ Inv(0, "none", 0)'
PROOF
  <1>1. /\ status \subseteq Status /\ loaded \subseteq Status
        /\ role \in Role \union {"invalid"} /\ advertiser \in {"INIT", "READY", "ADVERTISING"}
        /\ scanner \in {"INIT", "READY", "DISCOVERING"} /\ pc \in MainPc
        /\ link \in Role \union {"none"} /\ raced \in BOOLEAN
        /\ Len(events) <= MaxEvents /\ \A i \in 1 .. Len(events) : events[i] \in Event
    BY DEF GapTypeOK
  <1>2. /\ radio \in {{}, {"ADVERTISING"}, {"DISCOVERING"}, {"CONNECTING"}}
        /\ link # "none" => radio = {}
        /\ \/ radio \in {{"DISCOVERING"}, {"CONNECTING"}}
           \/ pc \in {"scan_checks", "scan_start", "scan_load", "scan_store"}
           => scanner = "DISCOVERING"
    BY DEF Inv, RadioInv, ScannerInv
  <1>3. Expected("none", 0) = Truth /\ Expected("none", 0)' = Truth'
    BY DEF Expected
  <1>4. FlagInv(0, "none", 0)
    BY DEF Inv
  <1>5. CASE AdvertiseInit
    BY <1>1, <1>2, <1>3, <1>4, <1>5
    DEF AdvertiseInit, At, Goto, Inv, RadioInv, ScannerInv, FlagInv, FaultInv, Truth, GapTypeOK,
        MainPc, StartWindow
  <1>6. CASE AdvertiseTasks
    BY <1>1, <1>2, <1>3, <1>4, <1>6
    DEF AdvertiseTasks, At, Goto, IsIdle, Inv, RadioInv, ScannerInv, FlagInv, FaultInv, Truth,
        GapTypeOK, MainPc, StartWindow
  <1>7. CASE AdvertiseChecks
    BY <1>1, <1>2, <1>3, <1>4, <1>7
    DEF AdvertiseChecks, At, Goto, Inv, RadioInv, ScannerInv, FlagInv, FaultInv, Truth,
        GapTypeOK, MainPc, StartWindow
  <1>8. CASE AdvertiseStart
    BY <1>1, <1>2, <1>3, <1>4, <1>8
    DEF AdvertiseStart, At, Goto, Inv, RadioInv, ScannerInv, FlagInv, FaultInv, Truth,
        GapTypeOK, MainPc, StartWindow, Procedure
  <1>9. CASE DiscoveryInit
    BY <1>1, <1>2, <1>3, <1>4, <1>9
    DEF DiscoveryInit, At, Goto, Inv, RadioInv, ScannerInv, FlagInv, FaultInv, Truth, GapTypeOK,
        MainPc, StartWindow
  <1>10. CASE DiscoveryTasks
    BY <1>1, <1>2, <1>3, <1>4, <1>10
    DEF DiscoveryTasks, At, Goto, IsIdle, Inv, RadioInv, ScannerInv, FlagInv, FaultInv, Truth,
        GapTypeOK, MainPc, StartWindow
  <1>11. CASE DiscoveryChecks
    BY <1>1, <1>2, <1>3, <1>4, <1>11
    DEF DiscoveryChecks, At, Goto, Inv, RadioInv, ScannerInv, FlagInv, FaultInv, Truth,
        GapTypeOK, MainPc, StartWindow
  <1>12. CASE DiscoveryStart
    BY <1>1, <1>2, <1>3, <1>4, <1>12
    DEF DiscoveryStart, At, Goto, Inv, RadioInv, ScannerInv, FlagInv, FaultInv, Truth,
        GapTypeOK, MainPc, StartWindow, Procedure
  <1>13. CASE StatusLoad("adv_load", "adv_store")
    BY <1>1, <1>2, <1>3, <1>4, <1>13
    DEF StatusLoad, At, Goto, Inv, RadioInv, ScannerInv, FlagInv, FaultInv, Truth,
        GapTypeOK, MainPc, StartWindow
  <1>14. CASE StatusLoad("scan_load", "scan_store")
    BY <1>1, <1>2, <1>3, <1>4, <1>14
    DEF StatusLoad, At, Goto, Inv, RadioInv, ScannerInv, FlagInv, FaultInv, Truth,
        GapTypeOK, MainPc, StartWindow
  <1>15. CASE StatusStore("adv_store", "ADVERTISING", "discovery")
    BY <1>1, <1>2, <1>3, <1>4, <1>15
    DEF StatusStore, At, Goto, Inv, RadioInv, ScannerInv, FlagInv, FaultInv, Truth,
        GapTypeOK, MainPc, StartWindow, Status
  <1>16. CASE StatusStore("scan_store", "DISCOVERING", "advertise")
    BY <1>1, <1>2, <1>3, <1>4, <1>16
    DEF StatusStore, At, Goto, Inv, RadioInv, ScannerInv, FlagInv, FaultInv, Truth,
        GapTypeOK, MainPc, StartWindow, Status
  <1> QED
    BY <1>5, <1>6, <1>7, <1>8, <1>9, <1>10, <1>11, <1>12, <1>13, <1>14, <1>15, <1>16
    DEF MainStep

\* The types of a step that leaves the main loop alone.
LEMMA OtherTypes ==
  ASSUME GapTypeOK, events' \in Seq(Event), Len(events') <= MaxEvents,
         UNCHANGED <<advertiser, scanner, pc, loaded>>,
         status' \subseteq Status, role' \in Role \union {"invalid"},
         fault' \in Call \union {"none"}, radio' \subseteq Procedure,
         link' \in Role \union {"none"}, raced' \in BOOLEAN
  PROVE  GapTypeOK'
PROOF
  <1>1. \A i \in 1 .. Len(events') : events'[i] \in Event
    BY ElementOfSeq
  <1> QED BY <1>1 DEF GapTypeOK

\* Types and shape of the radio before a step.
LEMMA RadioBefore ==
  ASSUME GapTypeOK, NEW told \in Nat, NEW joined \in NewsOf, NEW left \in {0, 1},
         Inv(told, joined, left)
  PROVE  /\ status \subseteq Status /\ role \in Role \union {"invalid"} /\ pc \in MainPc
         /\ scanner \in {"INIT", "READY", "DISCOVERING"} /\ raced \in BOOLEAN
         /\ link \in Role \union {"none"} /\ fault \in Call \union {"none"}
         /\ radio \in {{}, {"ADVERTISING"}, {"DISCOVERING"}, {"CONNECTING"}}
         /\ joined = "none" \/ joined = "peripheral" \/ joined = "central"
PROOF
  BY DEF GapTypeOK, Inv, RadioInv, NewsOf, Role

\* A connection's event.
LEMMA ConnectedKeeps ==
  ASSUME GapTypeOK, NEW joined \in Role, NEW left \in {0, 1}, Inv(0, joined, left),
         Connected, Head(events).role = joined,
         events' \in Seq(Event), Len(events') <= MaxEvents
  PROVE  GapTypeOK' /\ Inv(0, "none", left)'
PROOF
  <1>1. /\ status \subseteq Status /\ role \in Role \union {"invalid"} /\ pc \in MainPc
        /\ scanner \in {"INIT", "READY", "DISCOVERING"} /\ raced \in BOOLEAN
        /\ link \in Role \union {"none"} /\ fault = "none"
        /\ joined = "peripheral" \/ (joined = "central" /\ scanner = "DISCOVERING")
        /\ left = 0 \/ left = 1
    <2>1. joined \in NewsOf /\ 0 \in Nat
      BY DEF NewsOf
    <2>2. fault = "none"
      BY DEF Connected, Handles
    <2>3. /\ status \subseteq Status /\ role \in Role \union {"invalid"} /\ pc \in MainPc
          /\ scanner \in {"INIT", "READY", "DISCOVERING"} /\ raced \in BOOLEAN
          /\ link \in Role \union {"none"}
      BY <2>1, RadioBefore
    <2>4. joined = "peripheral" \/ (joined = "central" /\ scanner = "DISCOVERING")
      <3>1. ScannerInv(0, joined)
        BY DEF Inv
      <3>2. joined \in {"peripheral", "central"}
        BY DEF Role
      <3> QED BY <3>1, <3>2 DEF ScannerInv
    <2> QED BY <2>2, <2>3, <2>4
  <1>2. radio = {} /\ (left = 0 => link = joined) /\ (left = 1 => link = "none")
    BY <1>1 DEF Inv, RadioInv, Role
  <1>3. /\ role' = joined /\ radio' = {} /\ raced' = (raced \/ pc \in StartWindow)
        /\ UNCHANGED <<advertiser, scanner, pc, loaded, link>>
    BY <1>2 DEF Connected, Handles
  <1> DEFINE gone == joined = "central" /\ link = "none"
             flags == (status \ {"CONNECTING"}) \union {"CONNECTED"}
  <1>4. /\ fault' = IF gone THEN "discover" ELSE "none"
        /\ status' = IF gone THEN flags ELSE flags \ {"ADVERTISING"}
    BY <1>1 DEF Connected
  <1>5. GapTypeOK'
    BY <1>1, <1>2, <1>3, <1>4, OtherTypes DEF Status, Procedure, Call, Role
  <1>6. RadioInv(0, "none", left)'
    BY <1>1, <1>2, <1>3 DEF RadioInv
  <1>7. ScannerInv(0, "none")'
    BY <1>3 DEF Inv, ScannerInv
  <1>8. FaultInv("none", left)'
    BY <1>1, <1>2, <1>3, <1>4 DEF FaultInv
  <1>9. ASSUME fault' = "none"
         PROVE  FlagInv(0, "none", left)'
    <2>1. ~gone /\ status' = flags \ {"ADVERTISING"} /\ FlagInv(0, joined, left)
      BY <1>1, <1>4, <1>9 DEF Inv
    <2>2. Expected("none", left)' = {"CONNECTED"}
      BY <1>1, <1>2, <1>3, <2>1 DEF Expected, Truth
    <2>3. Expected(joined, left) = IF joined = "peripheral" THEN {"ADVERTISING"} ELSE {"CONNECTING"}
      BY <1>1 DEF Expected
    <2> QED BY <1>1, <1>2, <1>3, <2>1, <2>2, <2>3 DEF FlagInv, StartWindow, MainPc
  <1> QED BY <1>5, <1>6, <1>7, <1>8, <1>9 DEF Inv

\* A disconnection's event.
LEMMA DisconnectedKeeps ==
  ASSUME GapTypeOK, Inv(0, "none", 1), Disconnected,
         events' \in Seq(Event), Len(events') <= MaxEvents
  PROVE  GapTypeOK' /\ Inv(0, "none", 0)'
PROOF
  <1>1. /\ status \subseteq Status /\ role \in Role \union {"invalid"} /\ pc \in MainPc
        /\ scanner \in {"INIT", "READY", "DISCOVERING"} /\ raced \in BOOLEAN
        /\ fault = "none"
    BY RadioBefore DEF Disconnected, Handles, NewsOf
  <1>2. radio = {} /\ link = "none"
    BY DEF Inv, RadioInv
  <1>3. /\ status' = status \ {"CONNECTED"} /\ role' = "invalid"
        /\ raced' = (raced \/ pc \in StartWindow)
        /\ UNCHANGED <<advertiser, scanner, pc, loaded, link, fault, radio>>
    BY DEF Disconnected, Handles
  <1>4. GapTypeOK'
    BY <1>1, <1>2, <1>3, OtherTypes DEF Procedure
  <1>5. RadioInv(0, "none", 0)' /\ ScannerInv(0, "none")' /\ FaultInv("none", 0)'
    BY <1>1, <1>2, <1>3 DEF Inv, RadioInv, ScannerInv, FaultInv
  <1>6. FlagInv(0, "none", 0)'
    <2>1. Expected("none", 0)' = {} /\ Expected("none", 1) = {"CONNECTED"} /\ FlagInv(0, "none", 1)
      BY <1>1, <1>2, <1>3 DEF Inv, Expected, Truth
    <2> QED BY <1>1, <1>2, <1>3, <2>1 DEF FlagInv, StartWindow, MainPc
  <1> QED BY <1>4, <1>5, <1>6 DEF Inv

\* A report's event: the first starts a connection, the others start it anew, until one
\* comes when the connection is there already.
LEMMA ReportKeeps ==
  ASSUME GapTypeOK, NEW told \in Nat, told > 0, NEW joined \in NewsOf, NEW left \in {0, 1},
         Inv(told, joined, left), AdvReport,
         events' \in Seq(Event), Len(events') <= MaxEvents
  PROVE  GapTypeOK' /\ Inv(told - 1, joined, left)'
PROOF
  <1>1. /\ status \subseteq Status /\ role \in Role \union {"invalid"} /\ pc \in MainPc
        /\ raced \in BOOLEAN /\ scanner = "DISCOVERING" /\ fault = "none"
        /\ link \in Role \union {"none"} /\ joined \in {"none", "central"}
        /\ left = 0 \/ left = 1
        /\ told - 1 \in Nat
    BY RadioBefore DEF Inv, RadioInv, ScannerInv, AdvReport, Handles
  <1>2. /\ RadioInv(told, joined, left) /\ FlagInv(told, joined, left)
    BY <1>1 DEF Inv
  <1>3. /\ raced' = (raced \/ pc \in StartWindow) /\ role' = role
        /\ UNCHANGED <<advertiser, scanner, pc, loaded, link>>
    BY DEF AdvReport, Handles
  <1>4. ScannerInv(told - 1, joined)'
    BY <1>1, <1>3 DEF ScannerInv
  <1>5. CASE joined = "central"
    <2>1. radio = {} /\ status = {"CONNECTING"}
      <3>1. Expected(joined, left) = {"CONNECTING"} /\ told # 0 /\ radio = {}
        BY <1>1, <1>2, <1>5 DEF RadioInv, Expected
      <3>2. {"CONNECTING"} # {"ADVERTISING"} /\ {"CONNECTING"} # {"DISCOVERING"}
        OBVIOUS
      <3> QED BY <1>1, <1>2, <3>1, <3>2 DEF FlagInv, StartWindow, MainPc
    <2>2. fault' = "connect_cancel" /\ status' = {} /\ radio' = {}
      BY <2>1 DEF AdvReport, ConnectConnect, Stopped, Procedure
    <2>3. GapTypeOK'
      BY <1>1, <1>3, <2>2, OtherTypes DEF Call
    <2>4. RadioInv(told - 1, joined, left)' /\ FaultInv(joined, left)'
      BY <1>1, <1>2, <1>3, <1>5, <2>1, <2>2 DEF RadioInv, FaultInv
    <2> QED BY <1>4, <2>2, <2>3, <2>4 DEF Inv
  <1>6. CASE joined = "none"
    <2>1. left = 0 /\ link = "none" /\ radio \in {{"DISCOVERING"}, {"CONNECTING"}}
      BY <1>1, <1>2, <1>6 DEF RadioInv
    <2>2. \/ radio = {"DISCOVERING"} /\ status \in {{}, {"DISCOVERING"}}
          \/ radio = {"CONNECTING"} /\ status = {"CONNECTING"}
      BY <1>1, <1>2, <1>6, <2>1 DEF FlagInv, Expected, Truth, StartWindow, MainPc
    <2>3. fault' = "none" /\ status' = {"CONNECTING"} /\ radio' = {"CONNECTING"}
      BY <1>1, <2>1, <2>2 DEF AdvReport, ConnectConnect, Stopped, Procedure
    <2>4. GapTypeOK'
      BY <1>1, <1>3, <2>3, OtherTypes DEF Status, Procedure
    <2>5. RadioInv(told - 1, joined, left)' /\ FaultInv(joined, left)'
      BY <1>1, <1>3, <1>6, <2>1, <2>3 DEF RadioInv, FaultInv
    <2>6. FlagInv(told - 1, joined, left)'
      <3>1. Expected(joined, left)' = {"CONNECTING"}
        BY <1>3, <1>6, <2>1, <2>3 DEF Expected, Truth
      <3>2. pc \notin {"adv_checks", "adv_start", "scan_checks", "scan_start"}
        BY <1>2, <1>6, <2>1, <2>2 DEF FlagInv, Expected, Truth, StartWindow
      <3>3. pc \notin {"adv_load", "adv_store"}
        BY <1>1, <1>2, <1>6, <2>1, <2>2 DEF FlagInv, Expected, Truth
      <3>4. pc \notin StartWindow => ~raced
        BY <1>1, <1>2 DEF FlagInv
      <3> QED BY <1>1, <1>3, <2>3, <3>1, <3>2, <3>3, <3>4 DEF FlagInv, StartWindow
    <2> QED BY <1>4, <2>4, <2>5, <2>6 DEF Inv
  <1> QED BY <1>1, <1>5, <1>6

\* The radio: what it does ends in news, and a link in its end.
LEMMA RadioKeeps ==
  ASSUME GapTypeOK, NEW told \in Nat, NEW joined \in NewsOf, NEW left \in {0, 1},
         Inv(told, joined, left), UNCHANGED <<appVars, raced>>,
         events' \in Seq(Event), Len(events') <= MaxEvents
  PROVE  /\ HearsReport => joined = "none" /\ left = 0 /\ GapTypeOK' /\ Inv(told + 1, "none", 0)'
         /\ IsConnectedTo =>
                joined = "none" /\ left = 0 /\ GapTypeOK' /\ Inv(told, "peripheral", 0)'
         /\ Connects => joined = "none" /\ left = 0 /\ GapTypeOK' /\ Inv(told, "central", 0)'
         /\ LinkLoss => left = 0 /\ GapTypeOK' /\ Inv(told, joined, 1)'
PROOF
  <1>1. /\ status \subseteq Status /\ role \in Role \union {"invalid"} /\ pc \in MainPc
        /\ scanner \in {"INIT", "READY", "DISCOVERING"} /\ raced \in BOOLEAN
        /\ link \in Role \union {"none"} /\ fault \in Call \union {"none"}
        /\ radio \in {{}, {"ADVERTISING"}, {"DISCOVERING"}, {"CONNECTING"}}
    BY RadioBefore
  <1>2. left = 0 \/ left = 1
    OBVIOUS
  <1>3. UNCHANGED <<status, role, advertiser, scanner, pc, loaded, fault, raced>>
    BY DEF appVars
  <1>4. RadioInv(told, joined, left) /\ ScannerInv(told, joined) /\ FaultInv(joined, left)
    BY DEF Inv
  <1>5. fault = "none" => FlagInv(told, joined, left)
    BY DEF Inv
  <1>6. radio # {} => joined = "none" /\ left = 0 /\ link = "none" /\ fault = "none"
    BY <1>1, <1>2, <1>4 DEF RadioInv, FaultInv
  <1>7. told + 1 > 0 /\ told + 1 # 0 /\ (told > 0 \/ told = 0)
    OBVIOUS
  <1>8. ASSUME HearsReport
        PROVE  joined = "none" /\ left = 0 /\ GapTypeOK' /\ Inv(told + 1, "none", 0)'
    <2>1. radio = {"DISCOVERING"} /\ radio' = radio /\ link' = link
      BY <1>1, <1>8 DEF HearsReport
    <2>2. joined = "none" /\ left = 0 /\ link = "none" /\ fault = "none"
      BY <1>6, <2>1
    <2>3. GapTypeOK'
      BY <1>1, <1>3, <2>1, OtherTypes DEF Procedure
    <2>4. RadioInv(told + 1, "none", 0)' /\ ScannerInv(told + 1, "none")' /\ FaultInv("none", 0)'
      BY <1>3, <1>4, <2>1, <2>2 DEF RadioInv, ScannerInv, FaultInv
    <2>5. FlagInv(told + 1, "none", 0)'
      <3>1. Expected("none", 0)' = Expected("none", 0)
        BY <2>1, <2>2 DEF Expected, Truth
      <3>2. FlagInv(told, "none", 0)
        BY <1>5, <2>2
      <3>3. ~raced
        BY <1>1, <2>1, <3>2 DEF FlagInv
      <3> QED BY <1>1, <1>3, <3>1, <3>2, <3>3 DEF FlagInv, StartWindow
    <2> QED BY <2>2, <2>3, <2>4, <2>5 DEF Inv
  <1>9. ASSUME IsConnectedTo
        PROVE  joined = "none" /\ left = 0 /\ GapTypeOK' /\ Inv(told, "peripheral", 0)'
    <2>1. radio = {"ADVERTISING"} /\ radio' = {} /\ link' = "peripheral"
      BY <1>1, <1>9 DEF IsConnectedTo
    <2>2. joined = "none" /\ left = 0 /\ link = "none" /\ fault = "none"
      BY <1>6, <2>1
    <2>3. told = 0
      BY <1>4, <1>7, <2>1, <2>2 DEF RadioInv
    <2>4. GapTypeOK'
      BY <1>1, <1>3, <2>1, OtherTypes DEF Procedure, Role
    <2>5. RadioInv(told, "peripheral", 0)' /\ ScannerInv(told, "peripheral")'
          /\ FaultInv("peripheral", 0)'
      BY <1>3, <1>4, <2>1, <2>2, <2>3 DEF RadioInv, ScannerInv, FaultInv
    <2>6. FlagInv(told, "peripheral", 0)'
      <3>1. Expected("peripheral", 0)' = Expected("none", 0)
        BY <2>1, <2>2 DEF Expected, Truth
      <3>2. FlagInv(told, "none", 0)
        BY <1>5, <2>2
      <3>3. ~raced
        BY <1>1, <2>1, <3>2 DEF FlagInv
      <3> QED BY <1>1, <1>3, <3>1, <3>2, <3>3 DEF FlagInv, StartWindow
    <2> QED BY <2>2, <2>4, <2>5, <2>6 DEF Inv
  <1>10. ASSUME Connects
         PROVE  joined = "none" /\ left = 0 /\ GapTypeOK' /\ Inv(told, "central", 0)'
    <2>1. radio = {"CONNECTING"} /\ radio' = {} /\ link' = "central"
      BY <1>1, <1>10 DEF Connects
    <2>2. joined = "none" /\ left = 0 /\ link = "none" /\ fault = "none"
      BY <1>6, <2>1
    <2>3. GapTypeOK'
      BY <1>1, <1>3, <2>1, OtherTypes DEF Procedure, Role
    <2>4. RadioInv(told, "central", 0)' /\ ScannerInv(told, "central")' /\ FaultInv("central", 0)'
      BY <1>3, <1>4, <2>1, <2>2 DEF RadioInv, ScannerInv, FaultInv
    <2>5. FlagInv(told, "central", 0)'
      <3>1. Expected("central", 0)' = Expected("none", 0)
        BY <2>1, <2>2 DEF Expected, Truth
      <3>2. FlagInv(told, "none", 0)
        BY <1>5, <2>2
      <3>3. ~(raced /\ pc \in {"adv_load", "adv_store"})
        BY <1>1, <2>1, <3>2 DEF FlagInv
      <3>4. raced /\ pc \notin StartWindow => told = 0 /\ "DISCOVERING" \in status
        BY <1>1, <2>1, <3>2 DEF FlagInv
      <3>5. radio' \in {{}, {"CONNECTING"}}
        BY <2>1
      <3> QED BY <1>1, <1>3, <3>1, <3>2, <3>3, <3>4, <3>5 DEF FlagInv, StartWindow
    <2> QED BY <2>2, <2>3, <2>4, <2>5 DEF Inv
  <1>11. ASSUME LinkLoss
         PROVE  left = 0 /\ GapTypeOK' /\ Inv(told, joined, 1)'
    <2>1. link # "none" /\ left = 0 /\ radio = {} /\ radio' = {} /\ link' = "none"
      BY <1>2, <1>4, <1>11 DEF LinkLoss, RadioInv
    <2>2. GapTypeOK'
      BY <1>1, <1>3, <2>1, OtherTypes
    <2>3. told > 0 => joined = "central"
      BY <1>4, <1>5, <1>11, <2>1 DEF RadioInv, FaultInv, NewsOf, Role
    <2>4. RadioInv(told, joined, 1)' /\ ScannerInv(told, joined)' /\ FaultInv(joined, 1)'
      BY <1>3, <1>4, <2>1, <2>3 DEF RadioInv, ScannerInv, FaultInv
    <2>5. ASSUME fault = "none"
          PROVE  FlagInv(told, joined, 1)'
      <3>1. Expected(joined, 1)' = Expected(joined, 0)
        BY <2>1 DEF Expected, Truth
      <3> QED BY <1>1, <1>3, <1>5, <2>1, <2>5, <3>1 DEF FlagInv, StartWindow
    <2> QED BY <1>3, <2>1, <2>2, <2>4, <2>5 DEF Inv
  <1> QED BY <1>8, <1>9, <1>10, <1>11

\* Every step keeps the invariant.
LEMMA IInvStep == IInv /\ [Next]_vars => IInv'
PROOF
  <1> SUFFICES ASSUME IInv, [Next]_vars PROVE IInv'
    OBVIOUS
  <1>1. GapTypeOK /\ events \in Seq(Event) /\ Len(events) \in Nat
    BY LenProperties DEF IInv
  <1>2. PICK told \in 0 .. Len(events), joined \in NewsOf, left \in {0, 1} :
            QueueIs(events, told, joined, left) /\ Inv(told, joined, left)
    BY DEF IInv
  <1>3. told \in Nat /\ "none" \in NewsOf /\ \A newRole \in Role : newRole \in NewsOf
    BY <1>1 DEF NewsOf
  <1>4. ASSUME GapTypeOK', events' \in Seq(Event),
               NEW told2 \in Nat, NEW joined2 \in NewsOf, NEW left2 \in {0, 1},
               QueueIs(events', told2, joined2, left2), Inv(told2, joined2, left2)'
        PROVE  IInv'
    <2>1. told2 \in 0 .. Len(events')
      BY <1>4, QueueFacts
    <2> QED BY <1>4, <2>1 DEF IInv
  <1>5. CASE MainStep
    <2>1. fault = "none" /\ events = <<>>
      BY <1>5 DEF MainStep, AdvertiseInit, AdvertiseTasks, AdvertiseChecks, AdvertiseStart,
          DiscoveryInit, DiscoveryTasks, DiscoveryChecks, DiscoveryStart, StatusLoad, StatusStore, At
    <2>2. told = 0 /\ joined = "none" /\ left = 0
      BY <1>1, <1>2, <1>3, <2>1, QueueFacts
    <2>3. GapTypeOK' /\ events' = events /\ Inv(0, "none", 0)'
      BY <1>1, <1>2, <1>5, <2>1, <2>2, MainKeeps
    <2> QED BY <1>1, <1>2, <1>3, <1>4, <2>2, <2>3
  <1>6. CASE Interrupt
    <2>1. events # <<>> /\ events' = Tail(events)
      BY <1>6 DEF Interrupt, Connected, Disconnected, AdvReport, Handles
    <2>2. /\ events' \in Seq(Event)
          /\ Head(events).type = "adv_report" =>
                 told > 0 /\ QueueIs(events', told - 1, joined, left)
          /\ Head(events).type = "connected" =>
                 /\ told = 0 /\ joined = Head(events).role /\ joined \in Role
                 /\ QueueIs(events', 0, "none", left)
          /\ Head(events).type = "disconnected" =>
                 told = 0 /\ joined = "none" /\ left = 1 /\ QueueIs(events', 0, "none", 0)
      BY <1>1, <1>2, <1>3, <2>1, QueueTail
    <2>3. Len(events') <= MaxEvents
      <3>1. Len(events') = Len(events) - 1
        BY <1>1, <1>2, <1>3, <2>1, QueueTail
      <3> QED BY <1>1, <3>1, MaxEventsAssumption DEF GapTypeOK
    <2>4. CASE Connected
      <3>1. Head(events).type = "connected"
        BY <2>4 DEF Connected, Handles
      <3>2. GapTypeOK' /\ Inv(0, "none", left)'
        BY <1>1, <1>2, <2>2, <2>3, <2>4, <3>1, ConnectedKeeps
      <3> QED BY <1>3, <1>4, <2>2, <3>1, <3>2
    <2>5. CASE Disconnected
      <3>1. Head(events).type = "disconnected"
        BY <2>5 DEF Disconnected, Handles
      <3>2. GapTypeOK' /\ Inv(0, "none", 0)'
        BY <1>1, <1>2, <2>2, <2>3, <2>5, <3>1, DisconnectedKeeps
      <3> QED BY <1>3, <1>4, <2>2, <3>1, <3>2
    <2>6. CASE AdvReport
      <3>1. Head(events).type = "adv_report"
        BY <2>6 DEF AdvReport, Handles
      <3>2. GapTypeOK' /\ Inv(told - 1, joined, left)'
        BY <1>1, <1>2, <1>3, <2>2, <2>3, <2>6, <3>1, ReportKeeps
      <3>3. told - 1 \in Nat
        BY <1>3, <2>2, <3>1
      <3> QED BY <1>4, <2>2, <3>1, <3>2, <3>3
    <2> QED BY <1>6, <2>4, <2>5, <2>6 DEF Interrupt
  <1>7. CASE Radio
    <2>1. UNCHANGED <<appVars, raced>> /\ Len(events) < MaxEvents
      BY <1>7 DEF Radio, HearsReport, IsConnectedTo, Connects, LinkLoss, Raise
    <2>2. \A event \in Event :
              left = 0 /\ events' = Append(events, event) =>
                  events' \in Seq(Event) /\ Len(events') <= MaxEvents
      <3>1. ASSUME NEW event \in Event, left = 0, events' = Append(events, event)
            PROVE  events' \in Seq(Event) /\ Len(events') = Len(events) + 1
        BY <1>1, <1>2, <1>3, <3>1, QueueAppend
      <3> QED BY <1>1, <2>1, <3>1, MaxEventsAssumption
    <2>3. /\ Report \in Event /\ Left \in Event
          /\ \A newRole \in Role : Joined(newRole) \in Event
      BY DEF Event, Report, Left, Joined
    <2>4. radio # {} \/ link # "none" => left = 0 \/ LinkLoss
      BY <1>2 DEF Inv, RadioInv
    <2>5. LinkLoss => left = 0
      BY <1>2 DEF Inv, RadioInv, LinkLoss
    <2>6. CASE HearsReport
      <3>1. left = 0 /\ events' = Append(events, Report)
        BY <2>4, <2>5, <2>6 DEF HearsReport, Raise, Report
      <3>2. joined = "none" /\ GapTypeOK' /\ Inv(told + 1, "none", 0)'
        BY <1>1, <1>2, <1>3, <2>1, <2>2, <2>3, <2>6, <3>1, RadioKeeps
      <3>3. QueueIs(events', told + 1, "none", 0)
        BY <1>1, <1>2, <1>3, <3>1, <3>2, QueueAppend
      <3>4. events' \in Seq(Event) /\ told + 1 \in Nat
        BY <1>3, <2>2, <2>3, <3>1
      <3> QED BY <1>3, <1>4, <3>2, <3>3, <3>4
    <2>7. CASE IsConnectedTo
      <3>1. left = 0 /\ events' = Append(events, Joined("peripheral")) /\ "peripheral" \in Role
        BY <2>4, <2>5, <2>7 DEF IsConnectedTo, Raise, Joined, Role
      <3>2. joined = "none" /\ GapTypeOK' /\ Inv(told, "peripheral", 0)'
        BY <1>1, <1>2, <1>3, <2>1, <2>2, <2>3, <2>7, <3>1, RadioKeeps
      <3>3. QueueIs(events', told, "peripheral", 0)
        BY <1>1, <1>2, <1>3, <3>1, <3>2, QueueAppend
      <3>4. events' \in Seq(Event) /\ "peripheral" \in NewsOf
        BY <1>3, <2>2, <2>3, <3>1
      <3> QED BY <1>3, <1>4, <3>2, <3>3, <3>4
    <2>8. CASE Connects
      <3>1. left = 0 /\ events' = Append(events, Joined("central")) /\ "central" \in Role
        BY <2>4, <2>5, <2>8 DEF Connects, Raise, Joined, Role
      <3>2. joined = "none" /\ GapTypeOK' /\ Inv(told, "central", 0)'
        BY <1>1, <1>2, <1>3, <2>1, <2>2, <2>3, <2>8, <3>1, RadioKeeps
      <3>3. QueueIs(events', told, "central", 0)
        BY <1>1, <1>2, <1>3, <3>1, <3>2, QueueAppend
      <3>4. events' \in Seq(Event) /\ "central" \in NewsOf
        BY <1>3, <2>2, <2>3, <3>1
      <3> QED BY <1>3, <1>4, <3>2, <3>3, <3>4
    <2>9. CASE LinkLoss
      <3>1. left = 0 /\ events' = Append(events, Left)
        BY <2>5, <2>9 DEF LinkLoss, Raise, Left
      <3>2. GapTypeOK' /\ Inv(told, joined, 1)'
        BY <1>1, <1>2, <1>3, <2>1, <2>2, <2>3, <2>9, <3>1, RadioKeeps
      <3>3. QueueIs(events', told, joined, 1)
        BY <1>1, <1>2, <1>3, <3>1, QueueAppend
      <3>4. events' \in Seq(Event)
        BY <2>2, <2>3, <3>1
      <3> QED BY <1>3, <1>4, <3>2, <3>3, <3>4
    <2> QED BY <1>7, <2>6, <2>7, <2>8, <2>9 DEF Radio
  <1>8. CASE Reset
    <2>1. GapTypeOK'
      <3>1. events' = <<>> /\ Len(events') = 0
        BY <1>8, EmptySeq DEF Reset
      <3>2. Len(events') <= MaxEvents /\ \A i \in 1 .. Len(events') : events'[i] \in Event
        BY <3>1, MaxEventsAssumption
      <3> QED BY <1>8, <3>2 DEF Reset, GapTypeOK, MainPc
    <2>2. Inv(0, "none", 0)'
      BY <1>8
      DEF Reset, Inv, RadioInv, ScannerInv, FaultInv, FlagInv, Expected, Truth, StartWindow
    <2>3. events' \in Seq(Event) /\ QueueIs(events', 0, "none", 0)
      BY <1>8, EmptySeq DEF Reset, QueueIs, Joins
    <2> QED BY <1>3, <1>4, <2>1, <2>2, <2>3
  <1>9. CASE UNCHANGED vars
    <2>1. GapTypeOK' /\ events' = events
      BY <1>1, <1>9 DEF vars, appVars, GapTypeOK
    <2>2. Inv(told, joined, left)'
      BY <1>2, <1>9
      DEF vars, appVars, Inv, RadioInv, ScannerInv, FaultInv, FlagInv, Expected, Truth, StartWindow
    <2> QED BY <1>1, <1>2, <1>3, <1>4, <2>1, <2>2
  <1> QED BY <1>5, <1>6, <1>7, <1>8, <1>9 DEF Next

LEMMA IInvInit == Init => IInv
PROOF
  <1> SUFFICES ASSUME Init PROVE IInv
    OBVIOUS
  <1>1. GapTypeOK
    <2>1. events = <<>> /\ Len(events) = 0
      BY EmptySeq DEF Init
    <2>2. Len(events) <= MaxEvents /\ \A i \in 1 .. Len(events) : events[i] \in Event
      BY <2>1, MaxEventsAssumption
    <2> QED BY <2>2 DEF Init, GapTypeOK, MainPc
  <1>2. Inv(0, "none", 0)
    BY DEF Init, Inv, RadioInv, ScannerInv, FaultInv, FlagInv, Expected, Truth, StartWindow
  <1>3. events \in Seq(Event) /\ QueueIs(events, 0, "none", 0) /\ 0 \in 0 .. Len(events)
    BY EmptySeq DEF Init, QueueIs, Joins
  <1> QED BY <1>1, <1>2, <1>3 DEF IInv, NewsOf

LEMMA IInvHolds == Spec => []IInv
  BY IInvInit, IInvStep, PTL DEF Spec
-----------------------------------------------------------------------------
(***************************************************************************)
(* The properties.                                                         *)
(***************************************************************************)
\* GapTypeOK: flags, radio and the main loop stay in their ranges, and no more events
\* wait than the bound allows.
THEOREM GapTypeCorrect == Spec => []GapTypeOK
PROOF
  <1>1. IInv => GapTypeOK
    BY DEF IInv
  <1> QED BY <1>1, IInvHolds, PTL

\* OneThingAtATime: a device advertises, scans, connects or is connected, whatever
\* interrupts do to its flags (status.c:71).
THEOREM DoesOneThing == Spec => []OneThingAtATime
PROOF
  <1>1. IInv => OneThingAtATime
    <2> SUFFICES ASSUME IInv PROVE OneThingAtATime
      OBVIOUS
    <2>1. radio \in {{}, {"ADVERTISING"}, {"DISCOVERING"}, {"CONNECTING"}} /\ (link # "none" => radio = {})
      BY DEF IInv, Inv, RadioInv
    <2>2. Cardinality({}) = 0 /\ \A p : Cardinality({p}) = 1
      BY FS_EmptySet, FS_Singleton
    <2>3. Cardinality(radio) <= 1
      BY SMTT(30), <2>1, <2>2
    <2> QED BY <2>1, <2>3 DEF OneThingAtATime
  <1> QED BY <1>1, IInvHolds, PTL

\* IdleIsIdle: a device whose status word is empty does nothing and has no link, so
\* that its next start is not refused.
THEOREM IdleDoesNothing == Spec => []IdleIsIdle
PROOF
  <1>1. IInv => IdleIsIdle
    <2> SUFFICES ASSUME IInv, Settled, IsIdle PROVE radio = {} /\ link = "none"
      BY DEF IdleIsIdle
    <2>1. /\ events = <<>> /\ pc \notin StartWindow /\ fault = "none" /\ status = {}
      BY DEF Settled, IsIdle
    <2>2. FlagInv(0, "none", 0)
      <3>1. PICK told \in 0 .. Len(events), joined \in NewsOf, left \in {0, 1} :
                QueueIs(events, told, joined, left) /\ Inv(told, joined, left)
        BY DEF IInv
      <3>2. told \in Nat /\ events \in Seq(Event)
        BY LenProperties DEF IInv
      <3>3. told = 0 /\ joined = "none" /\ left = 0
        BY <2>1, <3>1, <3>2, QueueFacts
      <3> QED BY <2>1, <3>1, <3>3 DEF Inv
    <2>3. raced \in BOOLEAN
      BY DEF IInv, GapTypeOK
    <2>4. Truth = {}
      BY <2>1, <2>2, <2>3 DEF FlagInv, Expected
    <2> QED BY <2>4 DEF Truth
  <1> QED BY <1>1, IInvHolds, PTL

\* FaultsAreLate: a device stops itself only while it scans, on news of a connection
\* that it has not handled yet (connect.c:153, connect.c:60).
THEOREM OnlyLateFaults == Spec => []FaultsAreLate
PROOF
  <1>1. IInv => FaultsAreLate
    <2> SUFFICES ASSUME IInv, fault # "none" PROVE FaultsAreLate
      BY DEF FaultsAreLate
    <2>1. PICK told \in 0 .. Len(events), joined \in NewsOf, left \in {0, 1} :
              QueueIs(events, told, joined, left) /\ Inv(told, joined, left)
      BY DEF IInv
    <2>2. told \in Nat /\ events \in Seq(Event)
      BY LenProperties DEF IInv
    <2>3. (joined # "none" => Waits("connected")) /\ (left = 1 => Waits("disconnected"))
      BY <2>1, <2>2, QueueFacts DEF Waits
    <2>4. FaultInv(joined, left)
      BY <2>1 DEF Inv
    <2> QED BY <2>3, <2>4 DEF FaultInv, FaultsAreLate
  <1> QED BY <1>1, IInvHolds, PTL

\* FlagsAgree: when nothing waits the status word tells what the radio does, unless an
\* event came between a start and its flag (discovery.c:106).
THEOREM FlagsTellTheTruth == Spec => []FlagsAgree
PROOF
  <1>1. IInv => FlagsAgree
    <2> SUFFICES ASSUME IInv, Settled, ~raced PROVE status = Truth
      BY DEF FlagsAgree
    <2>1. PICK told \in 0 .. Len(events), joined \in NewsOf, left \in {0, 1} :
              QueueIs(events, told, joined, left) /\ Inv(told, joined, left)
      BY DEF IInv
    <2>2. told \in Nat /\ events \in Seq(Event)
      BY LenProperties DEF IInv
    <2>3. told = 0 /\ joined = "none" /\ left = 0
      BY <2>1, <2>2, QueueFacts DEF Settled
    <2> QED BY <2>1, <2>3 DEF Inv, FlagInv, Expected, Settled
  <1> QED BY <1>1, IInvHolds, PTL
=============================================================================
