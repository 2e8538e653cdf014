----------------------------- MODULE GameClock ------------------------------
(***************************************************************************)
(* Game with its time: the 24-bit tick counter of clock.c, which wraps, the *)
(* three tick stamps of game.c, and the watchdog, which is fed once per     *)
(* turn of the main loop and resets a device whose loop has stalled - in a  *)
(* call to the service layer that never returns, or behind interrupts.      *)
(* Every behaviour of this module is one of Game (GameClockProofs shows it). *)
(***************************************************************************)
EXTENDS Game

CONSTANTS
    ClockWrap,      \* the tick counter is modulo 2^24
    CountTicks,     \* 5000 ms, the count down
    GameTicks,      \* m_game_time, 60000 ms
    WaterTicks,     \* 7000 ms
    WatchdogTicks,  \* NRF_DRV_WDT's reload value, 2000 ms
    AgeLimit        \* the bound at which the history variable age saturates

\* The wrap leaves room for the longest phase and two turns of the main loop.
ASSUME ClockAssumption ==
    /\ {ClockWrap, CountTicks, GameTicks, WaterTicks, WatchdogTicks, AgeLimit}
           \subseteq Nat \ {0}
    /\ \A t \in {CountTicks, GameTicks, WaterTicks} :
           t + 2 * WatchdogTicks <= ClockWrap /\ t + 2 * WatchdogTicks <= AgeLimit

VARIABLES
    now,        \* the RTC counter
    initTicks,  \* m_game_init_ticks
    startTicks, \* m_game_start_ticks
    waterTicks, \* m_water_start_ticks
    sinceFeed,  \* ticks since watchdog_tasks fed the watchdog; Off before
    age         \* history: ticks since the last stamp was taken, not modulo

clockVars == <<now, initTicks, startTicks, waterTicks, sinceFeed, age>>
stamps == <<initTicks, startTicks, waterTicks>>
allVars == <<vars, clockVars>>

Off == WatchdogTicks + 1
Ticks == 0 .. ClockWrap - 1

\* Types and ranges: the readings and stamps of clock.c stay below its wrap.
ClockTypeOK ==
    /\ TypeOK
    /\ {now, initTicks, startTicks, waterTicks} \subseteq [Device -> Ticks]
    /\ sinceFeed \in [Device -> 0 .. Off]
    /\ age \in [Device -> 0 .. AgeLimit]

ClockInit ==
    /\ Init
    /\ now = [d \in Device |-> 0]
    /\ initTicks = now /\ startTicks = now /\ waterTicks = now /\ age = now
    /\ sinceFeed = [d \in Device |-> Off]

-----------------------------------------------------------------------------
\* A mutant: the difference of two readings without the modulus.
TicksSinceNoWrap(d, start) == IF now[d] >= start THEN now[d] - start ELSE 0

\* clock_ticks_since: app_timer_cnt_diff_compute's 24-bit difference.
TicksSince(d, start) == (now[d] + ClockWrap - start) % ClockWrap

HavePassed(d, start, ticks) == TicksSince(d, start) >= ticks

\* A mutant: the game is timed from the stamp of its count down.
ExpiredFromCountDown(d) ==
    \/ main[d].pc = "COUNTING_DOWN" /\ HavePassed(d, initTicks[d], CountTicks)
    \/ main[d].pc = "PLAYING" /\ HavePassed(d, initTicks[d], GameTicks)
    \/ main[d].pc = "WATER" /\ HavePassed(d, waterTicks[d], WaterTicks)

\* The test each timed case of game_tasks makes.
Expired(d) ==
    \/ main[d].pc = "COUNTING_DOWN" /\ HavePassed(d, initTicks[d], CountTicks)
    \/ main[d].pc = "PLAYING" /\ HavePassed(d, startTicks[d], GameTicks)
    \/ main[d].pc = "WATER" /\ HavePassed(d, waterTicks[d], WaterTicks)

\* The stamp a statement of game_tasks takes, if any.
Stamp(d, stamp, pc) ==
    IF main[d].pc = pc THEN [stamp EXCEPT ![d] = now[d]] ELSE stamp

TimedMainStep(d) ==
    /\ MainStep(d, Expired(d)) /\ UNCHANGED <<serviceVars, now>>
    /\ initTicks' = Stamp(d, initTicks, "INITIALIZING_reset")
    /\ startTicks' = Stamp(d, startTicks, "START")
    /\ waterTicks' = Stamp(d, waterTicks, "GAME_OVER_end")
    /\ age' = IF main[d].pc \in {"INITIALIZING_reset", "START", "GAME_OVER_end"}
              THEN [age EXCEPT ![d] = 0] ELSE age
    /\ sinceFeed' = IF main[d].pc = "loop"
                    THEN [sinceFeed EXCEPT ![d] = 0] ELSE sinceFeed

\* A mutant: a watchdog that never expires.
TickUnwatched(d) ==
    /\ now' = [now EXCEPT ![d] = (@ + 1) % ClockWrap]
    /\ sinceFeed' = sinceFeed
    /\ age' = [age EXCEPT ![d] = IF @ < AgeLimit THEN @ + 1 ELSE @]
    /\ UNCHANGED <<vars, stamps>>

Tick(d) ==
    /\ sinceFeed[d] # WatchdogTicks
    /\ now' = [now EXCEPT ![d] = (@ + 1) % ClockWrap]
    /\ sinceFeed' = [sinceFeed EXCEPT ![d] = IF @ = Off THEN Off ELSE @ + 1]
    /\ age' = [age EXCEPT ![d] = IF @ < AgeLimit THEN @ + 1 ELSE @]
    /\ UNCHANGED <<vars, stamps>>

ClockReset(d) ==
    /\ Reset(d)
    /\ now' = [now EXCEPT ![d] = 0]
    /\ initTicks' = [initTicks EXCEPT ![d] = 0]
    /\ startTicks' = [startTicks EXCEPT ![d] = 0]
    /\ waterTicks' = [waterTicks EXCEPT ![d] = 0]
    /\ age' = [age EXCEPT ![d] = 0]
    /\ sinceFeed' = [sinceFeed EXCEPT ![d] = Off]

WatchdogReset(d) == sinceFeed[d] = WatchdogTicks /\ ClockReset(d)

\* What the environment does to a device without touching its clock.
Interrupt(d) ==
    \/ (Button(d) \/ PeerIndication(d)) /\ UNCHANGED serviceVars
    \/ LinkEvent(d) /\ UNCHANGED gameVars

Returns(d) == (\E c \in Context : ServiceReturns(d, c)) /\ UNCHANGED serviceVars

ClockNext ==
    \E d \in Device :
        \/ TimedMainStep(d)
        \/ (Interrupt(d) \/ Returns(d)) /\ UNCHANGED clockVars
        \/ Tick(d)
        \/ WatchdogReset(d)
        \/ ClockReset(d)

\* The main loop runs while nothing holds it, time passes, and the watchdog
\* fires.  Nothing is assumed of buttons, peers, or of calls returning.
Fairness ==
    \A d \in Device :
        /\ WF_allVars(TimedMainStep(d))
        /\ WF_allVars(Tick(d))
        /\ WF_allVars(WatchdogReset(d))

ClockSpec == ClockInit /\ [][ClockNext]_allVars
FairClockSpec == ClockSpec /\ Fairness

-----------------------------------------------------------------------------
(***************************************************************************)
(* Properties.                                                             *)
(***************************************************************************)
Slack == 2 * WatchdogTicks - 1

\* The wrapping difference never misses a deadline (clock.c:70): a phase
\* outlasts its time by two turns of the main loop at most, each shorter than
\* the watchdog's period, whatever is pressed or hangs; and on a device that
\* cannot be a client the water is shut off as soon.
PhasesAreBounded ==
    \A d \in Device :
        /\ gameState[d] = "COUNTING_DOWN" => age[d] <= CountTicks + Slack
        /\ gameState[d] = "PLAYING" => age[d] <= GameTicks + Slack
        /\ water[d] /\ "client" \notin canBe[d] => age[d] <= WaterTicks + Slack

\* No phase is cut short: the count down ends after CountTicks, and a game that
\* nobody has won by score runs for GameTicks (game.c:135 and game.c:154).
PhasesRunTheirTime ==
    [][\A d \in Device :
        /\ gameState[d] = "COUNTING_DOWN" /\ gameState'[d] = "START"
               => age[d] >= CountTicks
        /\ gameState[d] = "PLAYING" /\ gameState'[d] = "GAME_OVER"
               => age[d] >= GameTicks \/ MaxScore \in {main[d].my, main[d].their}
      ]_allVars

\* A game ends, and on a device that cannot be a client so does the water, even
\* if a call to the radio hangs for ever: the watchdog sees to it.
GamesEnd ==
    \A d \in Device :
        /\ gameState[d] = "PLAYING" ~> gameState[d] # "PLAYING"
        /\ water[d] /\ "client" \notin canBe[d] ~> ~water[d]

=============================================================================
