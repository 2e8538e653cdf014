--------------------------- MODULE GameClockProofs ---------------------------
(***************************************************************************)
(* Proofs about GameClock for every width of the tick counter, every length *)
(* of the phases and every watchdog that ClockAssumption allows.            *)
(*                                                                          *)
(* The stamps of game.c say little by themselves: a stamp may be older than *)
(* the counter's period, and their difference is then meaningless.  TimeInv *)
(* says of each phase that its stamp is exact - the wrapping difference is  *)
(* the true age - and why: the phase is looked at once per turn of the main *)
(* loop, and the watchdog bounds a turn.                                    *)
(***************************************************************************)
EXTENDS GameClock, GameProofs

\* The wrapping difference from a stamp is the time since the last one was taken.
InitExact(d) == TicksSince(d, initTicks[d]) = age[d]
StartExact(d) == TicksSince(d, startTicks[d]) = age[d]
WaterExact(d) == TicksSince(d, waterTicks[d]) = age[d]

\* What may have passed since the phase was last looked at: this turn, and the
\* one before unless it has been looked at in this one.
SinceLooked(d) ==
    sinceFeed[d] + IF main[d].pc \in {"loop", "PLAYING_score"} THEN 0 ELSE WatchdogTicks

\* Until the watchdog is fed for the first time, nothing has been played.
NotYetFed(d) ==
    sinceFeed[d] = Off =>
        /\ main[d].pc = "loop" /\ ~water[d]
        /\ gameState[d] \in {"INIT", "INITIALIZING_GAME"}

\* The stamp of the count down is taken in the turn that enters it.
StampIsFresh(d) ==
    main[d].pc = "INITIALIZING_end" => InitExact(d) /\ age[d] <= sinceFeed[d]

CountDownIsTimed(d) ==
    gameState[d] = "COUNTING_DOWN" =>
        /\ main[d].pc \in {"loop", "switch", "COUNTING_DOWN"}
        /\ InitExact(d)
        /\ age[d] < CountTicks + SinceLooked(d)

PlayIsTimed(d) ==
    gameState[d] = "PLAYING" =>
        /\ main[d].pc \in {"loop", "switch", "PLAYING", "PLAYING_score"}
        /\ StartExact(d)
        /\ age[d] < GameTicks + SinceLooked(d)

WaterIsTimed(d) ==
    water[d] /\ "client" \notin canBe[d] =>
        /\ WaterExact(d)
        /\ age[d] < WaterTicks + SinceLooked(d)

DeviceTimeInv(d) ==
    /\ NotYetFed(d) /\ StampIsFresh(d)
    /\ CountDownIsTimed(d) /\ PlayIsTimed(d) /\ WaterIsTimed(d)

TimeInv == ClockTypeOK /\ IInv /\ \A d \in Device : DeviceTimeInv(d)

-----------------------------------------------------------------------------
\* ClockAssumption, spelt out for the provers.
LEMMA ClockFacts ==
    /\ ClockWrap \in Nat \ {0} /\ CountTicks \in Nat \ {0} /\ GameTicks \in Nat \ {0}
    /\ WaterTicks \in Nat \ {0} /\ WatchdogTicks \in Nat \ {0} /\ AgeLimit \in Nat
    /\ CountTicks + 2 * WatchdogTicks <= ClockWrap
    /\ GameTicks + 2 * WatchdogTicks <= ClockWrap
    /\ WaterTicks + 2 * WatchdogTicks <= ClockWrap
    /\ CountTicks + 2 * WatchdogTicks <= AgeLimit
    /\ GameTicks + 2 * WatchdogTicks <= AgeLimit
    /\ WaterTicks + 2 * WatchdogTicks <= AgeLimit
  BY ClockAssumption

\* The modulus, where the counter uses it.
LEMMA WrapFacts ==
    /\ \A a \in 0 .. ClockWrap - 1 : a % ClockWrap = a
    /\ \A a \in ClockWrap .. 2 * ClockWrap - 1 : a % ClockWrap = a - ClockWrap
  <1>1. ASSUME NEW a \in 0 .. ClockWrap - 1 PROVE a % ClockWrap = a
    BY ClockFacts
  <1>2. ASSUME NEW a \in ClockWrap .. 2 * ClockWrap - 1 PROVE a % ClockWrap = a - ClockWrap
    BY ClockFacts
  <1>3. QED
    BY <1>1, <1>2

\* The wrapping difference of two readings, without the modulus.
LEMMA DifferenceFacts ==
    ASSUME NEW n \in Ticks, NEW s \in Ticks
    PROVE  /\ (n + ClockWrap - s) % ClockWrap = IF n >= s THEN n - s ELSE n + ClockWrap - s
           /\ (n + 1) % ClockWrap = IF n + 1 = ClockWrap THEN 0 ELSE n + 1
           /\ (n + 1) % ClockWrap \in Ticks
  <1> USE ClockFacts DEF Ticks
  <1>1. CASE n >= s
    <2>1. n + ClockWrap - s \in ClockWrap .. 2 * ClockWrap - 1
      BY <1>1
    <2>2. (n + ClockWrap - s) % ClockWrap = (n + ClockWrap - s) - ClockWrap
      BY <2>1, WrapFacts
    <2>3. QED
      BY <1>1, <2>2
  <1>2. CASE n < s
    <2>1. n + ClockWrap - s \in 0 .. ClockWrap - 1
      BY <1>2
    <2>2. (n + ClockWrap - s) % ClockWrap = n + ClockWrap - s
      BY <2>1, WrapFacts
    <2>3. QED
      BY <1>2, <2>2
  <1>3. (n + 1) % ClockWrap = IF n + 1 = ClockWrap THEN 0 ELSE n + 1
    <2>1. CASE n + 1 = ClockWrap
      <3>1. n + 1 \in ClockWrap .. 2 * ClockWrap - 1
        BY <2>1
      <3>2. QED
        BY <2>1, <3>1, WrapFacts
    <2>2. CASE n + 1 # ClockWrap
      <3>1. n + 1 \in 0 .. ClockWrap - 1
        BY <2>2
      <3>2. QED
        BY <2>2, <3>1, WrapFacts
    <2>3. QED
      BY <2>1, <2>2
  <1>4. (n + 1) % ClockWrap \in Ticks
    BY <1>3
  <1>5. QED
    BY <1>1, <1>2, <1>3, <1>4

\* A new stamp has difference zero; a tick adds one to the difference until it
\* reaches the counter's period.
LEMMA DifferenceGrows ==
    ASSUME NEW n \in Ticks, NEW s \in Ticks
    PROVE  /\ (n + ClockWrap - n) % ClockWrap = 0
           /\ ((n + ClockWrap - s) % ClockWrap) + 1 < ClockWrap
                  => (((n + 1) % ClockWrap) + ClockWrap - s) % ClockWrap
                         = ((n + ClockWrap - s) % ClockWrap) + 1
  <1> DEFINE m == (n + 1) % ClockWrap
  <1>1. (n + ClockWrap - n) % ClockWrap = 0
    <2>1. (n + ClockWrap - n) % ClockWrap = IF n >= n THEN n - n ELSE n + ClockWrap - n
      BY DifferenceFacts
    <2>2. QED
      BY <2>1, ClockFacts DEF Ticks
  <1>2. /\ m \in Ticks /\ m = IF n + 1 = ClockWrap THEN 0 ELSE n + 1
        /\ (n + ClockWrap - s) % ClockWrap = IF n >= s THEN n - s ELSE n + ClockWrap - s
    BY DifferenceFacts
  <1>3. (m + ClockWrap - s) % ClockWrap = IF m >= s THEN m - s ELSE m + ClockWrap - s
    <2> HIDE DEF m
    <2>1. QED
      BY <1>2, DifferenceFacts
  <1>4. ((n + ClockWrap - s) % ClockWrap) + 1 < ClockWrap
            => (m + ClockWrap - s) % ClockWrap = ((n + ClockWrap - s) % ClockWrap) + 1
    <2> DEFINE old == (n + ClockWrap - s) % ClockWrap
               new == (m + ClockWrap - s) % ClockWrap
    <2>1. /\ old = IF n >= s THEN n - s ELSE n + ClockWrap - s
          /\ new = IF m >= s THEN m - s ELSE m + ClockWrap - s
      BY <1>2, <1>3
    <2> HIDE DEF m, old, new
    <2>2. old + 1 < ClockWrap => new = old + 1
      BY <1>2, <2>1, ClockFacts DEF Ticks
    <2>3. QED
      BY <2>2 DEF old, new
  <1>5. QED
    BY <1>1, <1>4

-----------------------------------------------------------------------------
\* The types of the clock's variables, one by one.
LEMMA ClockTypes ==
    ClockTypeOK <=>
        /\ TypeOK
        /\ now \in [Device -> Ticks] /\ initTicks \in [Device -> Ticks]
        /\ startTicks \in [Device -> Ticks] /\ waterTicks \in [Device -> Ticks]
        /\ sinceFeed \in [Device -> 0 .. Off] /\ age \in [Device -> 0 .. AgeLimit]
  BY DEF ClockTypeOK

\* Every step of the timed device is a step of Game or leaves Game alone.
LEMMA ClockStepIsGameStep == [ClockNext]_allVars => [Next]_vars
  <1> SUFFICES ASSUME [ClockNext]_allVars PROVE [Next]_vars
    OBVIOUS
  <1>1. CASE UNCHANGED allVars
    BY <1>1 DEF allVars
  <1>2. ASSUME NEW d \in Device, TimedMainStep(d) PROVE Next
    <2>1. Expired(d) \in BOOLEAN
      BY DEF Expired, HavePassed
    <2>2. GameStep(d, Expired(d)) /\ UNCHANGED serviceVars
      BY <1>2 DEF TimedMainStep, GameStep
    <2>3. QED
      BY <2>1, <2>2 DEF Next
  <1>3. ASSUME NEW d \in Device, Interrupt(d) \/ Returns(d) PROVE Next
    <2>1. CASE LinkEvent(d) /\ UNCHANGED gameVars
      BY <2>1 DEF Next
    <2>2. CASE (Button(d) \/ PeerIndication(d)) /\ UNCHANGED serviceVars
      <3>1. GameStep(d, TRUE)
        BY <2>2 DEF GameStep
      <3>2. QED
        BY <2>2, <3>1 DEF Next
    <2>3. CASE Returns(d)
      <3>1. GameStep(d, TRUE)
        BY <2>3 DEF GameStep, Returns
      <3>2. QED
        BY <2>3, <3>1 DEF Next, Returns
    <2>4. QED
      BY <1>3, <2>1, <2>2, <2>3 DEF Interrupt
  <1>4. ASSUME NEW d \in Device, Tick(d) PROVE UNCHANGED vars
    BY <1>4 DEF Tick
  <1>5. ASSUME NEW d \in Device, WatchdogReset(d) \/ ClockReset(d) PROVE Next
    BY <1>5 DEF WatchdogReset, ClockReset, Next
  <1>6. QED
    BY <1>1, <1>2, <1>3, <1>4, <1>5 DEF ClockNext

\* The clock and the watchdog keep their ranges.
LEMMA ClockTypeStep == ClockTypeOK /\ [ClockNext]_allVars => ClockTypeOK'
  <1> SUFFICES ASSUME ClockTypeOK, [ClockNext]_allVars PROVE ClockTypeOK'
    OBVIOUS
  <1> DEFINE Ranges ==
        /\ now \in [Device -> Ticks] /\ initTicks \in [Device -> Ticks]
        /\ startTicks \in [Device -> Ticks] /\ waterTicks \in [Device -> Ticks]
        /\ sinceFeed \in [Device -> 0 .. Off] /\ age \in [Device -> 0 .. AgeLimit]
  <1>1. TypeOK' /\ Ranges
    BY ClockTypes, ClockStepIsGameStep, TypeStep
  <1>2. 0 \in Ticks /\ 0 \in 0 .. Off /\ Off \in 0 .. Off /\ 0 \in 0 .. AgeLimit
    BY ClockFacts DEF Ticks, Off
  <1>3. ASSUME UNCHANGED clockVars PROVE Ranges'
    BY <1>1, <1>3 DEF clockVars, Ticks, Off
  <1>4. ASSUME NEW d \in Device, TimedMainStep(d) PROVE Ranges'
    BY <1>1, <1>2, <1>4 DEF TimedMainStep, Stamp
  <1>5. ASSUME NEW d \in Device, Tick(d) PROVE Ranges'
    <2>1. (now[d] + 1) % ClockWrap \in Ticks
      BY <1>1, DifferenceFacts
    <2>2. now' \in [Device -> Ticks]
      BY <1>1, <1>5, <2>1 DEF Tick
    <2>3. sinceFeed' \in [Device -> 0 .. Off] /\ age' \in [Device -> 0 .. AgeLimit]
      BY <1>1, <1>5, ClockFacts DEF Tick, Off
    <2>4. QED
      BY <1>1, <1>5, <2>2, <2>3 DEF Tick, stamps
  <1>6. ASSUME NEW d \in Device, ClockReset(d) PROVE Ranges'
    BY <1>1, <1>2, <1>6 DEF ClockReset
  <1>7. Ranges'
    BY <1>3, <1>4, <1>5, <1>6 DEF ClockNext, allVars, WatchdogReset, Ticks, Off
  <1>8. QED
    BY <1>1, <1>7 DEF ClockTypeOK

-----------------------------------------------------------------------------
\* What DeviceTimeInv speaks of, and a step that leaves it alone.
LEMMA TimeFrame ==
    ASSUME NEW e \in Device, DeviceTimeInv(e),
           UNCHANGED <<gameState[e], main[e], water[e], canBe[e], now[e], initTicks[e],
                       startTicks[e], waterTicks[e], sinceFeed[e], age[e]>>
    PROVE  DeviceTimeInv(e)'
  BY DEF DeviceTimeInv, NotYetFed, StampIsFresh, CountDownIsTimed, PlayIsTimed, WaterIsTimed,
         InitExact, StartExact, WaterExact, TicksSince, SinceLooked, Off

LEMMA TimeInit ==
    ASSUME ClockInit, NEW d \in Device PROVE DeviceTimeInv(d)
  BY DEF ClockInit, Init, PowerOnMain, DeviceTimeInv, NotYetFed, StampIsFresh,
         CountDownIsTimed, PlayIsTimed, WaterIsTimed

\* A reset puts a device back where it began.
LEMMA TimeReset ==
    ASSUME ClockTypeOK, NEW d \in Device, ClockReset(d)
    PROVE  DeviceTimeInv(d)'
  BY ClockTypes DEF TypeOK, ClockReset, Reset, Restart, PowerOnMain, DeviceTimeInv, NotYetFed,
         StampIsFresh, CountDownIsTimed, PlayIsTimed, WaterIsTimed, Off

\* Interrupts move neither the clock nor the main loop, and they set the state
\* to nothing that is timed.
LEMMA TimeInterrupt ==
    ASSUME ClockTypeOK, NEW d \in Device, DeviceTimeInv(d),
           Interrupt(d) \/ Returns(d), UNCHANGED clockVars
    PROVE  DeviceTimeInv(d)'
  <1> USE DEF TypeOK
  <1>1. TypeOK
    BY ClockTypes
  <1>2. /\ UNCHANGED <<main[d], water[d], canBe[d]>>
        /\ \/ UNCHANGED gameState[d]
           \/ gameState'[d] \in {"INIT", "INITIALIZING_GAME"}
    <2>1. CASE Button(d) /\ UNCHANGED serviceVars
      BY <1>1, <2>1 DEF Button, Button2, Button3, Button4, ScoreIn, StartOrStop, SetMyScore,
           SetState, serviceVars
    <2>2. CASE PeerIndication(d) /\ UNCHANGED serviceVars
      BY <1>1, <2>2 DEF PeerIndication, SetStateFromPeer, SetState, IndicatedState, serviceVars
    <2>3. CASE LinkEvent(d) /\ UNCHANGED gameVars
      BY <2>3 DEF LinkEvent, gameVars
    <2>4. CASE Returns(d)
      BY <2>4 DEF Returns, ServiceReturns, serviceVars
    <2>5. QED
      BY <2>1, <2>2, <2>3, <2>4 DEF Interrupt
  <1>3. QED
    BY <1>2 DEF clockVars, DeviceTimeInv, NotYetFed, StampIsFresh, CountDownIsTimed,
         PlayIsTimed, WaterIsTimed, InitExact, StartExact, WaterExact, TicksSince, SinceLooked, Off

\* A tick ages a phase and moves the difference with it: the bound that the
\* watchdog gives a turn keeps the age below the counter's period.
LEMMA TimeTick ==
    ASSUME ClockTypeOK, NEW d \in Device, DeviceTimeInv(d), Tick(d)
    PROVE  DeviceTimeInv(d)'
  <1> DEFINE f == sinceFeed[d]
             a == age[d]
             n == now[d]
             m == (n + 1) % ClockWrap
             Turn == IF main[d].pc \in {"loop", "PLAYING_score"} THEN 0 ELSE WatchdogTicks
  <1>1. /\ f \in 0 .. Off /\ a \in 0 .. AgeLimit /\ n \in Ticks /\ m \in Ticks
        /\ initTicks[d] \in Ticks /\ startTicks[d] \in Ticks /\ waterTicks[d] \in Ticks
    BY ClockTypes, DifferenceFacts
  <1>2. /\ f # WatchdogTicks
        /\ sinceFeed'[d] = IF f = Off THEN Off ELSE f + 1
        /\ age'[d] = IF a < AgeLimit THEN a + 1 ELSE a
        /\ now'[d] = m
        /\ UNCHANGED <<main, gameState, water, canBe, initTicks, startTicks, waterTicks>>
    BY ClockTypes DEF Tick, stamps, vars, gameVars, serviceVars
  <1>3. ASSUME NEW t \in {CountTicks, GameTicks, WaterTicks}, NEW s \in Ticks, f # Off,
               (n + ClockWrap - s) % ClockWrap = a, a < t + f + Turn
        PROVE  /\ (m + ClockWrap - s) % ClockWrap = age'[d]
               /\ age'[d] = a + 1 /\ sinceFeed'[d] = f + 1
    <2>1. a + 1 < ClockWrap /\ a < AgeLimit
      BY <1>1, <1>2, <1>3, ClockFacts DEF Off
    <2>2. age'[d] = a + 1 /\ sinceFeed'[d] = f + 1
      BY <1>2, <1>3, <2>1
    <2>3. (m + ClockWrap - s) % ClockWrap = ((n + ClockWrap - s) % ClockWrap) + 1
      BY <1>1, <1>3, <2>1, DifferenceGrows
    <2>4. QED
      BY <1>3, <2>2, <2>3
  <1>4. NotYetFed(d)'
    BY <1>1, <1>2, ClockFacts DEF DeviceTimeInv, NotYetFed, Off
  <1>5. StampIsFresh(d)'
    <2> SUFFICES ASSUME main[d].pc = "INITIALIZING_end" PROVE StampIsFresh(d)'
      BY <1>2 DEF StampIsFresh
    <2>1. f # Off /\ InitExact(d) /\ a <= f /\ Turn = WatchdogTicks
      BY DEF DeviceTimeInv, NotYetFed, StampIsFresh
    <2>2. a < CountTicks + f + Turn
      BY <1>1, <2>1, ClockFacts DEF Off
    <2>3. InitExact(d)' /\ age'[d] = a + 1 /\ sinceFeed'[d] = f + 1
      BY <1>1, <1>2, <1>3, <2>1, <2>2 DEF InitExact, TicksSince
    <2>4. QED
      BY <1>1, <2>1, <2>3 DEF StampIsFresh, Off
  <1>6. CountDownIsTimed(d)'
    <2> SUFFICES ASSUME gameState[d] = "COUNTING_DOWN" PROVE CountDownIsTimed(d)'
      BY <1>2 DEF CountDownIsTimed
    <2>1. f # Off /\ InitExact(d) /\ a < CountTicks + f + Turn
      BY <1>1, ClockFacts DEF DeviceTimeInv, NotYetFed, CountDownIsTimed, SinceLooked, Off
    <2>2. InitExact(d)' /\ age'[d] = a + 1 /\ sinceFeed'[d] = f + 1
      BY <1>1, <1>2, <1>3, <2>1 DEF InitExact, TicksSince
    <2>3. QED
      BY <1>1, <1>2, <2>1, <2>2, ClockFacts DEF DeviceTimeInv, CountDownIsTimed, SinceLooked, Off
  <1>7. PlayIsTimed(d)'
    <2> SUFFICES ASSUME gameState[d] = "PLAYING" PROVE PlayIsTimed(d)'
      BY <1>2 DEF PlayIsTimed
    <2>1. f # Off /\ StartExact(d) /\ a < GameTicks + f + Turn
      BY <1>1, ClockFacts DEF DeviceTimeInv, NotYetFed, PlayIsTimed, SinceLooked, Off
    <2>2. StartExact(d)' /\ age'[d] = a + 1 /\ sinceFeed'[d] = f + 1
      BY <1>1, <1>2, <1>3, <2>1 DEF StartExact, TicksSince
    <2>3. QED
      BY <1>1, <1>2, <2>1, <2>2, ClockFacts DEF DeviceTimeInv, PlayIsTimed, SinceLooked, Off
  <1>8. WaterIsTimed(d)'
    <2> SUFFICES ASSUME water[d], "client" \notin canBe[d] PROVE WaterIsTimed(d)'
      BY <1>2 DEF WaterIsTimed
    <2>1. f # Off /\ WaterExact(d) /\ a < WaterTicks + f + Turn
      BY <1>1, ClockFacts DEF DeviceTimeInv, NotYetFed, WaterIsTimed, SinceLooked, Off
    <2>2. WaterExact(d)' /\ age'[d] = a + 1 /\ sinceFeed'[d] = f + 1
      BY <1>1, <1>2, <1>3, <2>1 DEF WaterExact, TicksSince
    <2>3. QED
      BY <1>1, <1>2, <2>1, <2>2, ClockFacts DEF DeviceTimeInv, WaterIsTimed, SinceLooked, Off
  <1>9. QED
    BY <1>4, <1>5, <1>6, <1>7, <1>8 DEF DeviceTimeInv

\* What a statement of game_tasks does to the clock's variables.
LEMMA StampFacts ==
    ASSUME ClockTypeOK, NEW d \in Device, TimedMainStep(d)
    PROVE  /\ UNCHANGED canBe[d]
           /\ sinceFeed'[d] = IF main[d].pc = "loop" THEN 0 ELSE sinceFeed[d]
           /\ main[d].pc \notin {"INITIALIZING_reset", "START", "GAME_OVER_end"} =>
                  /\ UNCHANGED age[d]
                  /\ InitExact(d)' <=> InitExact(d)
                  /\ StartExact(d)' <=> StartExact(d)
                  /\ WaterExact(d)' <=> WaterExact(d)
           /\ main[d].pc = "INITIALIZING_reset" => age'[d] = 0 /\ InitExact(d)'
           /\ main[d].pc = "START" => age'[d] = 0 /\ StartExact(d)'
           /\ main[d].pc = "GAME_OVER_end" => age'[d] = 0 /\ WaterExact(d)'
  <1> DEFINE n == now[d]
  <1>1. /\ now \in [Device -> Ticks] /\ initTicks \in [Device -> Ticks]
        /\ startTicks \in [Device -> Ticks] /\ waterTicks \in [Device -> Ticks]
        /\ sinceFeed \in [Device -> 0 .. Off] /\ age \in [Device -> 0 .. AgeLimit]
    BY ClockTypes
  <1>2. (n + ClockWrap - n) % ClockWrap = 0
    BY <1>1, DifferenceGrows
  <1>3. UNCHANGED canBe[d] /\ UNCHANGED now[d]
    BY DEF TimedMainStep, serviceVars
  <1>4. /\ sinceFeed'[d] = IF main[d].pc = "loop" THEN 0 ELSE sinceFeed[d]
        /\ age'[d] = IF main[d].pc \in {"INITIALIZING_reset", "START", "GAME_OVER_end"}
                     THEN 0 ELSE age[d]
    BY <1>1 DEF TimedMainStep
  <1>5. /\ initTicks'[d] = IF main[d].pc = "INITIALIZING_reset" THEN n ELSE initTicks[d]
        /\ startTicks'[d] = IF main[d].pc = "START" THEN n ELSE startTicks[d]
        /\ waterTicks'[d] = IF main[d].pc = "GAME_OVER_end" THEN n ELSE waterTicks[d]
    BY <1>1 DEF TimedMainStep, Stamp
  <1>6. QED
    BY <1>2, <1>3, <1>4, <1>5 DEF InitExact, StartExact, WaterExact, TicksSince

\* game_tasks keeps the invariant: each phase is looked at in its own case, and
\* left there if its time has passed.
LEMMA TimeMain ==
    ASSUME ClockTypeOK, NEW d \in Device, DeviceInv(d), DeviceTimeInv(d), TimedMainStep(d)
    PROVE  DeviceTimeInv(d)'
  <1> DEFINE f == sinceFeed[d]
             a == age[d]
  <1>1. /\ TypeOK /\ f \in 0 .. Off /\ a \in 0 .. AgeLimit
        /\ f = Off \/ f <= WatchdogTicks
    <2>1. TypeOK /\ f \in 0 .. Off /\ a \in 0 .. AgeLimit
      BY ClockTypes
    <2>2. f = Off \/ f <= WatchdogTicks
      <3> HIDE DEF f
      <3>1. QED
        BY <2>1, ClockFacts DEF Off
    <2>3. QED
      BY <2>1, <2>2
  <1>2. f = Off => main[d].pc = "loop"
    BY DEF DeviceTimeInv, NotYetFed
  <1>3. /\ UNCHANGED canBe[d]
        /\ sinceFeed'[d] = IF main[d].pc = "loop" THEN 0 ELSE f
        /\ main[d].pc \notin {"INITIALIZING_reset", "START", "GAME_OVER_end"} =>
               /\ age'[d] = a
               /\ InitExact(d)' <=> InitExact(d)
               /\ StartExact(d)' <=> StartExact(d)
               /\ WaterExact(d)' <=> WaterExact(d)
        /\ main[d].pc = "INITIALIZING_reset" => age'[d] = 0 /\ InitExact(d)'
        /\ main[d].pc = "START" => age'[d] = 0 /\ StartExact(d)'
        /\ main[d].pc = "GAME_OVER_end" => age'[d] = 0 /\ WaterExact(d)'
    BY StampFacts
  <1> USE <1>1, <1>2, <1>3, ClockFacts
      DEF DeviceTimeInv, NotYetFed, StampIsFresh, CountDownIsTimed, PlayIsTimed, WaterIsTimed,
          SinceLooked, Off, TypeOK, At, Goto, SetState
  <1>4. CASE ReadScores(d)
    <2>1. /\ main[d].pc = "loop" /\ main'[d].pc = "switch"
          /\ UNCHANGED <<gameState[d], water[d]>>
      BY <1>4 DEF ReadScores
    <2>2. QED
      BY <2>1
  <1>5. CASE Switch(d)
    <2>1. /\ main[d].pc = "switch" /\ UNCHANGED <<gameState[d], water[d]>>
          /\ main'[d].pc = IF gameState[d] = "WAITING" THEN "loop" ELSE gameState[d]
      BY <1>5 DEF Switch
    <2>2. gameState[d] \in GameState
      OBVIOUS
    <2>3. CASE gameState[d] = "WAITING"
      <3>1. ~(water[d] /\ "client" \notin canBe[d])
        BY <2>3 DEF DeviceInv, WaterIsWatched
      <3>2. QED
        BY <2>1, <2>3, <3>1
    <2>4. CASE gameState[d] # "WAITING"
      <3>1. main'[d].pc \notin {"loop", "PLAYING_score", "INITIALIZING_end"}
        BY <2>1, <2>2, <2>4 DEF GameState
      <3>2. NotYetFed(d)' /\ StampIsFresh(d)'
        BY <2>1, <3>1
      <3>3. CountDownIsTimed(d)' /\ PlayIsTimed(d)' /\ WaterIsTimed(d)'
        BY <2>1, <2>4, <3>1
      <3>4. QED
        BY <3>2, <3>3
    <2>5. QED
      BY <2>3, <2>4
  <1>6. CASE InitIndicate(d)
    BY <1>6 DEF InitIndicate, IndicateState
  <1>7. CASE InitEnd(d)
    BY <1>7 DEF InitEnd
  <1>8. CASE InitializingIndicate(d)
    BY <1>8 DEF InitializingIndicate, IndicateState
  <1>9. CASE InitializingReset(d)
    BY <1>9 DEF InitializingReset, SetMyScore, DeviceInv, ScoreIsReset, WaterIsWatched
  <1>10. CASE InitializingEnd(d)
    <2>1. /\ main[d].pc = "INITIALIZING_end" /\ main'[d].pc = "loop"
          /\ gameState'[d] = "COUNTING_DOWN" /\ UNCHANGED water[d]
      BY <1>10 DEF InitializingEnd
    <2>2. ~(water[d] /\ "client" \notin canBe[d])
      BY <2>1 DEF DeviceInv, WaterIsWatched
    <2>3. QED
      BY <2>1, <2>2
  <1>11. CASE CountingDown(d, Expired(d))
    <2>1. main[d].pc = "COUNTING_DOWN"
      BY <1>11 DEF CountingDown
    <2>2. Expired(d) <=> TicksSince(d, initTicks[d]) >= CountTicks
      BY <2>1 DEF Expired, HavePassed
    <2>3. gameState'[d] = IF Expired(d) THEN "START" ELSE gameState[d]
      BY <1>11 DEF CountingDown
    <2>4. gameState'[d] = "COUNTING_DOWN" => InitExact(d) /\ a < CountTicks
      BY <2>1, <2>2, <2>3 DEF InitExact
    <2>5. main'[d].pc = "loop" /\ UNCHANGED water[d]
      BY <1>11 DEF CountingDown
    <2>6. QED
      BY <2>1, <2>3, <2>4, <2>5 DEF DeviceInv, WaterIsWatched
  <1>12. CASE Start(d)
    <2>1. /\ main[d].pc = "START" /\ main'[d].pc = "loop"
          /\ gameState'[d] = "PLAYING" /\ UNCHANGED water[d]
      BY <1>12 DEF Start
    <2>2. ~(water[d] /\ "client" \notin canBe[d])
      BY <2>1 DEF DeviceInv, WaterIsWatched
    <2>3. QED
      BY <2>1, <2>2
  <1>13. CASE Playing(d, Expired(d))
    <2>1. main[d].pc = "PLAYING"
      BY <1>13 DEF Playing
    <2>2. Expired(d) <=> TicksSince(d, startTicks[d]) >= GameTicks
      BY <2>1 DEF Expired, HavePassed
    <2>3. gameState'[d] = IF Expired(d) THEN "GAME_OVER" ELSE gameState[d]
      BY <1>13 DEF Playing
    <2>4. gameState'[d] = "PLAYING" => StartExact(d) /\ a < GameTicks
      BY <2>1, <2>2, <2>3 DEF StartExact
    <2>5. main'[d].pc = "PLAYING_score" /\ UNCHANGED water[d]
      BY <1>13 DEF Playing
    <2>6. QED
      BY <2>1, <2>3, <2>4, <2>5 DEF DeviceInv, WaterIsWatched
  <1>14. CASE PlayingScore(d)
    BY <1>14 DEF PlayingScore
  <1>15. CASE GameOver(d)
    BY <1>15 DEF GameOver
  <1>16. CASE GameOverEnd(d)
    <2>1. /\ main[d].pc = "GAME_OVER_end" /\ main'[d].pc = "loop"
          /\ gameState'[d] = "WATER"
      BY <1>16 DEF GameOverEnd
    <2>2. QED
      BY <2>1
  <1>17. CASE Water(d, Expired(d))
    <2>1. main[d].pc = "WATER"
      BY <1>17 DEF Water
    <2>2. Expired(d) <=> TicksSince(d, waterTicks[d]) >= WaterTicks
      BY <2>1 DEF Expired, HavePassed
    <2>3. /\ gameState'[d] = IF Expired(d) THEN "INIT" ELSE gameState[d]
          /\ water'[d] <=> water[d] /\ ~Expired(d)
      BY <1>17 DEF Water
    <2>4. water'[d] /\ "client" \notin canBe[d] => WaterExact(d) /\ a < WaterTicks
      BY <2>1, <2>2, <2>3 DEF WaterExact
    <2>5. main'[d].pc = "loop"
      BY <1>17 DEF Water
    <2>6. QED
      BY <2>1, <2>3, <2>4, <2>5
  <1>18. QED
    BY <1>4, <1>5, <1>6, <1>7, <1>8, <1>9, <1>10, <1>11, <1>12, <1>13, <1>14,
       <1>15, <1>16, <1>17 DEF TimedMainStep, MainStep

\* A step of one device moves nothing of the others.
LEMMA OtherClocksUntouched ==
    ASSUME ClockTypeOK, NEW d \in Device, NEW e \in Device, d # e,
           \/ TimedMainStep(d)
           \/ (Interrupt(d) \/ Returns(d)) /\ UNCHANGED clockVars
           \/ Tick(d)
           \/ ClockReset(d)
    PROVE  UNCHANGED <<gameState[e], main[e], water[e], canBe[e], now[e], initTicks[e],
                       startTicks[e], waterTicks[e], sinceFeed[e], age[e]>>
  <1> USE ClockTypes
  <1>1. CASE TimedMainStep(d)
    <2>1. GameStep(d, Expired(d)) /\ UNCHANGED serviceVars
      BY <1>1 DEF TimedMainStep, GameStep
    <2>2. Expired(d) \in BOOLEAN
      BY DEF Expired, HavePassed
    <2>3. UNCHANGED <<gameState[e], main[e], water[e], canBe[e]>>
      BY <2>1, <2>2, OthersUntouched
    <2>4. QED
      BY <1>1, <2>3 DEF TimedMainStep, Stamp
  <1>2. CASE (Interrupt(d) \/ Returns(d)) /\ UNCHANGED clockVars
    <2>1. UNCHANGED <<gameState[e], main[e], water[e], canBe[e]>>
      <3>1. CASE LinkEvent(d) /\ UNCHANGED gameVars
        BY <3>1, OthersUntouched
      <3>2. CASE (Button(d) \/ PeerIndication(d)) /\ UNCHANGED serviceVars
        <4>1. GameStep(d, TRUE)
          BY <3>2 DEF GameStep
        <4>2. QED
          BY <3>2, <4>1, OthersUntouched
      <3>3. CASE Returns(d)
        <4>1. GameStep(d, TRUE) /\ UNCHANGED serviceVars
          BY <3>3 DEF GameStep, Returns
        <4>2. QED
          BY <4>1, OthersUntouched
      <3>4. QED
        BY <1>2, <3>1, <3>2, <3>3 DEF Interrupt
    <2>2. QED
      BY <1>2, <2>1 DEF clockVars
  <1>3. CASE Tick(d)
    BY <1>3 DEF Tick, vars, gameVars, serviceVars, stamps
  <1>4. CASE ClockReset(d)
    <2>1. UNCHANGED <<gameState[e], main[e], water[e], canBe[e]>>
      BY <1>4, OthersUntouched DEF ClockReset
    <2>2. QED
      BY <1>4, <2>1 DEF ClockReset
  <1>5. QED
    BY <1>1, <1>2, <1>3, <1>4

\* TimeInv is inductive.
LEMMA TimeInductive == TimeInv /\ [ClockNext]_allVars => TimeInv'
  <1> SUFFICES ASSUME ClockTypeOK, IInv, \A d \in Device : DeviceTimeInv(d),
                      [ClockNext]_allVars
               PROVE  TimeInv'
    BY DEF TimeInv
  <1>1. ClockTypeOK' /\ IInv'
    BY ClockTypeStep, ClockStepIsGameStep, Inductive
  <1>2. \A d \in Device : DeviceInv(d)
    BY DEF IInv, DeviceInv
  <1>3. ASSUME UNCHANGED allVars, NEW e \in Device PROVE DeviceTimeInv(e)'
    BY <1>3, TimeFrame DEF allVars, vars, gameVars, serviceVars, clockVars
  <1>4. ASSUME NEW d \in Device, NEW e \in Device,
               \/ TimedMainStep(d)
               \/ (Interrupt(d) \/ Returns(d)) /\ UNCHANGED clockVars
               \/ Tick(d)
               \/ ClockReset(d)
        PROVE  DeviceTimeInv(e)'
    <2>1. CASE d = e
      BY <1>2, <1>4, <2>1, TimeMain, TimeInterrupt, TimeTick, TimeReset
    <2>2. CASE d # e
      BY <1>4, <2>2, OtherClocksUntouched, TimeFrame
    <2>3. QED
      BY <2>1, <2>2
  <1>5. \A e \in Device : DeviceTimeInv(e)'
    BY <1>3, <1>4 DEF ClockNext, WatchdogReset
  <1>6. QED
    BY <1>1, <1>5 DEF TimeInv

LEMMA TimeInvariantHolds == ClockSpec => []TimeInv
  <1>1. ClockInit => ClockTypeOK
    <2>1. 0 \in Ticks /\ 0 \in 0 .. AgeLimit /\ Off \in 0 .. Off
      BY ClockFacts DEF Ticks, Off
    <2>2. QED
      BY <2>1, TypeInit DEF ClockInit, ClockTypeOK
  <1>2. ClockInit => IInv
    BY TypeInit, DeviceInvInit DEF ClockInit, IInv, DeviceInv
  <1>3. ClockInit => TimeInv
    BY <1>1, <1>2, TimeInit DEF TimeInv
  <1>4. QED
    BY <1>3, TimeInductive, PTL DEF ClockSpec

-----------------------------------------------------------------------------
\* The counter, the stamps and the watchdog keep their ranges (clock.c:49-73).
THEOREM ClockTypeCorrect == ClockSpec => []ClockTypeOK
  <1>1. TimeInv => ClockTypeOK
    BY DEF TimeInv
  <1>2. QED
    BY <1>1, TimeInvariantHolds, PTL

\* The device with its clock and its watchdog is the device of Game, whose
\* theorems therefore hold of it: time only decides what Game left open.
THEOREM ClockImplementsGame == ClockSpec => Spec
  <1>1. ClockInit => Init
    BY DEF ClockInit
  <1>2. QED
    BY <1>1, ClockStepIsGameStep, PTL DEF ClockSpec, Spec

\* The count down, the play and the loser's water outlast their time by less
\* than two periods of the watchdog, although the counter wraps (clock.c:70,
\* game.c:133, :152 and :190).
THEOREM PhasesEndInTime == ClockSpec => []PhasesAreBounded
  <1>1. TimeInv => PhasesAreBounded
    <2> SUFFICES ASSUME ClockTypeOK, NEW d \in Device, DeviceTimeInv(d)
                 PROVE  /\ gameState[d] = "COUNTING_DOWN" => age[d] <= CountTicks + Slack
                        /\ gameState[d] = "PLAYING" => age[d] <= GameTicks + Slack
                        /\ water[d] /\ "client" \notin canBe[d]
                               => age[d] <= WaterTicks + Slack
      BY DEF TimeInv, PhasesAreBounded
    <2>1. sinceFeed[d] \in 0 .. Off /\ age[d] \in 0 .. AgeLimit
      BY ClockTypes
    <2>2. SinceLooked(d) \in Nat /\ (sinceFeed[d] # Off => SinceLooked(d) <= 2 * WatchdogTicks)
      BY <2>1, ClockFacts DEF SinceLooked, Off
    <2>3. QED
      BY <2>1, <2>2, ClockFacts
         DEF DeviceTimeInv, NotYetFed, CountDownIsTimed, PlayIsTimed, WaterIsTimed, Slack
  <1>2. QED
    BY <1>1, TimeInvariantHolds, PTL

\* The count down is never cut short, and a game ends early only by a score
\* (game.c:135, :154 and :160).
THEOREM PhasesLast == ClockSpec => PhasesRunTheirTime
  <1> DEFINE Lasts(d) ==
        /\ gameState[d] = "COUNTING_DOWN" /\ gameState'[d] = "START"
               => age[d] >= CountTicks
        /\ gameState[d] = "PLAYING" /\ gameState'[d] = "GAME_OVER"
               => age[d] >= GameTicks \/ MaxScore \in {main[d].my, main[d].their}
  <1>1. ASSUME TimeInv, [ClockNext]_allVars, NEW e \in Device PROVE Lasts(e)
    <2>1. TypeOK /\ ClockTypeOK /\ DeviceTimeInv(e)
      BY <1>1, ClockTypes DEF TimeInv
    <2>2. CASE UNCHANGED gameState[e]
      BY <2>2
    <2>3. ASSUME TimedMainStep(e) PROVE Lasts(e)
      <3> USE <2>1 DEF TypeOK, At, SetState
      <3>1. CASE CountingDown(e, Expired(e))
        BY <3>1 DEF CountingDown, Expired, HavePassed, DeviceTimeInv, CountDownIsTimed, InitExact
      <3>2. CASE Playing(e, Expired(e))
        BY <3>2 DEF Playing, Expired, HavePassed, DeviceTimeInv, PlayIsTimed, StartExact
      <3>3. CASE PlayingScore(e)
        BY <3>3 DEF PlayingScore
      <3>4. CASE Water(e, Expired(e))
        BY <3>4 DEF Water
      <3>5. CASE \/ ReadScores(e) \/ Switch(e) \/ InitIndicate(e) \/ InitEnd(e)
                 \/ InitializingIndicate(e) \/ InitializingReset(e) \/ InitializingEnd(e)
                 \/ Start(e) \/ GameOver(e) \/ GameOverEnd(e)
        BY <3>5 DEF ReadScores, Switch, InitIndicate, InitEnd, InitializingIndicate,
             InitializingReset, InitializingEnd, Start, GameOver, GameOverEnd, IndicateState,
             SetMyScore
      <3>6. QED
        BY <2>3, <3>1, <3>2, <3>3, <3>4, <3>5 DEF TimedMainStep, MainStep
    <2>4. ASSUME Interrupt(e) \/ Returns(e) PROVE Lasts(e)
      BY <2>1, <2>4 DEF TypeOK, Interrupt, Returns, Button, Button2, Button3, Button4, ScoreIn,
           StartOrStop, SetMyScore, SetState, PeerIndication, SetStateFromPeer, IndicatedState,
           ServiceReturns, LinkEvent, gameVars
    <2>5. ASSUME ClockReset(e) PROVE Lasts(e)
      BY <2>1, <2>5 DEF TypeOK, ClockReset, Reset, Restart
    <2>6. ASSUME NEW d \in Device, d # e,
                 \/ TimedMainStep(d)
                 \/ (Interrupt(d) \/ Returns(d)) /\ UNCHANGED clockVars
                 \/ ClockReset(d)
          PROVE  UNCHANGED gameState[e]
      BY <2>1, <2>6, OtherClocksUntouched
    <2>7. ASSUME NEW d \in Device, Tick(d) PROVE UNCHANGED gameState[e]
      BY <2>7 DEF Tick, vars, gameVars
    <2>8. CASE UNCHANGED allVars
      BY <2>8 DEF allVars, vars, gameVars
    <2>9. QED
      BY <1>1, <2>2, <2>3, <2>4, <2>5, <2>6, <2>7, <2>8 DEF ClockNext, WatchdogReset
  <1>2. TimeInv /\ [ClockNext]_allVars
            => [\A d \in Device : Lasts(d)]_allVars
    BY <1>1
  <1>3. QED
    BY <1>2, TimeInvariantHolds, PTL DEF ClockSpec, PhasesRunTheirTime

=============================================================================
