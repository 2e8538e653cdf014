-------------------------------- MODULE Game --------------------------------
(***************************************************************************)
(* The game state machine of src/WaterBall/game.c on each device, with its  *)
(* two contexts: the main loop, which calls game_tasks() once per turn, and *)
(* the interrupts (buttons, BLE events), which preempt it between any two   *)
(* of its statements and run to completion.  Both write m_game_state.       *)
(*                                                                          *)
(* Time is abstracted here: whether a phase has lasted long enough is a     *)
(* nondeterministic `expired'.  GameClock refines this module with the real *)
(* tick arithmetic and the watchdog.  The service layer is abstracted to    *)
(* its interface: the `role' a connection gives the device, the opponent's  *)
(* score it last received (`peerScore') and the calls the game makes to it  *)
(* (`call'), which return after any delay.  Match replaces that by          *)
(* ServiceLink.                                                             *)
(***************************************************************************)
EXTENDS ServiceCalls

\* The values m_game_state takes; the others of game_state_t are never stored.
GameState == {"INIT", "WAITING", "INITIALIZING_GAME", "COUNTING_DOWN", "START",
              "PLAYING", "GAME_OVER", "WATER"}

Role == {"server", "client"}

\* Where the main loop is: anywhere up to game_tasks' reads of the scores ("loop"),
\* before the switch, or inside the case it has dispatched to.
MainPc == {"loop", "switch", "INIT", "INIT_end", "INITIALIZING_GAME",
           "INITIALIZING_reset", "INITIALIZING_end", "COUNTING_DOWN", "START",
           "PLAYING", "PLAYING_score", "GAME_OVER", "GAME_OVER_end", "WATER"}

VARIABLES
    gameState,  \* m_game_state
    myScore,    \* m_my_score
    theirScore, \* m_their_score, the cached copy of the opponent's score
    main,       \* the main loop: program counter and game_tasks' two locals
    water,      \* BSP_LED_3 off: the output that squirts the loser is active
    display,    \* what the seven segment displays show, up to the digits
    canBe,      \* the roles BUTTON_1 left open at boot: it advertises, it scans
    role,       \* IS_SERVICE_SERVER / IS_SERVICE_CLIENT
    peerScore   \* what service_{server_get_client,client_get_server}_score returns

gameVars == <<gameState, myScore, theirScore, main, water, display, call>>
serviceVars == <<canBe, role, peerScore>>
vars == <<gameVars, serviceVars>>

Display == {"blank", "counting", "score", "PASS", "FAIL"}

\* Types and ranges: the scores game.c keeps never leave 0 .. MAX_SCORE.
TypeOK ==
    /\ gameState \in [Device -> GameState]
    /\ myScore \in [Device -> Score]
    /\ theirScore \in [Device -> Score]
    /\ main \in [Device -> [pc : MainPc, my : Score, their : Score]]
    /\ water \in [Device -> BOOLEAN]
    /\ display \in [Device -> Display]
    /\ call \in [Device -> [Context -> Call]]
    /\ canBe \in [Device -> SUBSET Role]
    /\ role \in [Device -> Role \union {"none"}]
    /\ peerScore \in [Device -> Score]

PowerOnMain == [pc |-> "loop", my |-> 0, their |-> 0]

\* Static storage, game_init and status_init (which drives LED 3 on).
Init ==
    /\ gameState = [d \in Device |-> "INIT"]
    /\ myScore = [d \in Device |-> 0]
    /\ theirScore = [d \in Device |-> 0]
    /\ main = [d \in Device |-> PowerOnMain]
    /\ water = [d \in Device |-> FALSE]
    /\ display = [d \in Device |-> "blank"]
    /\ call = [d \in Device |-> NoCalls]
    /\ canBe \in [Device -> SUBSET Role]
    /\ role = [d \in Device |-> "none"]
    /\ peerScore = [d \in Device |-> 0]

-----------------------------------------------------------------------------
At(d, pc) == MainRuns(d) /\ main[d].pc = pc

Goto(d, pc) == main' = [main EXCEPT ![d].pc = pc]
SetState(d, s) == gameState' = [gameState EXCEPT ![d] = s]

\* game_set_my_score: the assignment, then the call that publishes it.
SetMyScore(d, c, s) ==
    /\ myScore' = [myScore EXCEPT ![d] = s]
    /\ MakeCall(d, c, ScoreCall(s))

\* A mutant: the sum is not saturated.
IncrementedUnsaturated(s) == s + 1

\* game_increment_my_score(1): saturates at MAX_SCORE.
Incremented(s) == IF MaxScore - s > 1 THEN s + 1 ELSE MaxScore

-----------------------------------------------------------------------------
\* game_event_handler on a press (a release returns at once).
StartOrStopFromInit(d, mayStart) == \* a mutant: INIT counts as WAITING
    /\ SetState(d, IF gameState[d] \in {"WAITING", "INIT"} /\ mayStart
                   THEN "INITIALIZING_GAME" ELSE "INIT")
    /\ UNCHANGED <<myScore, theirScore, main, water, display, call>>

StartOrStop(d, mayStart) ==
    /\ SetState(d, IF gameState[d] = "WAITING" /\ mayStart
                   THEN "INITIALIZING_GAME" ELSE "INIT")
    /\ UNCHANGED <<myScore, theirScore, main, water, display, call>>

Button2(d) == InterruptIdle(d) /\ StartOrStop(d, TRUE)

ScoreIn(d, states) ==
    /\ InterruptIdle(d)
    /\ gameState[d] \in states
    /\ SetMyScore(d, "isr", Incremented(myScore[d]))
    /\ UNCHANGED <<gameState, theirScore, main, water, display>>

Button3AnyState(d) == ScoreIn(d, GameState)                 \* a mutant
Button3PastTheEnd(d) == ScoreIn(d, {"PLAYING", "GAME_OVER"}) \* a mutant
Button3(d) == ScoreIn(d, {"PLAYING"})

Button4(d) ==
    /\ InterruptIdle(d)
    /\ IF gameState[d] = "PLAYING"
       THEN /\ SetMyScore(d, "isr", MaxScore)
            /\ UNCHANGED <<gameState, theirScore, main, water, display>>
       ELSE StartOrStop(d, role[d] = "server")

\* game_set_state, called by the client's handler of an indication.
SetStateFromPeer(d, s) ==
    /\ InterruptIdle(d)
    /\ SetState(d, s)
    /\ UNCHANGED <<myScore, theirScore, main, water, display, call>>

-----------------------------------------------------------------------------
\* The rest of the main loop and game_tasks' locals; game_get_their_score
\* refreshes its cache only while connected.
ReadScores(d) ==
    LET their == IF role[d] = "none" THEN theirScore[d] ELSE peerScore[d]
    IN  /\ At(d, "loop")
        /\ theirScore' = [theirScore EXCEPT ![d] = their]
        /\ main' = [main EXCEPT ![d] = [pc |-> "switch", my |-> myScore[d],
                                        their |-> their]]
        /\ UNCHANGED <<gameState, myScore, water, display, call>>

Switch(d) ==
    /\ At(d, "switch")
    /\ Goto(d, IF gameState[d] = "WAITING" THEN "loop" ELSE gameState[d])
    /\ UNCHANGED <<gameState, myScore, theirScore, water, display, call>>

IndicateState(d, s, next) ==
    /\ MakeCall(d, "main", StateCall(s))
    /\ Goto(d, next)
    /\ UNCHANGED <<gameState, myScore, theirScore, water, display>>

InitIndicate(d) == At(d, "INIT") /\ IndicateState(d, "INIT", "INIT_end")

InitEndWaterOn(d) == \* a mutant: LED 3 is left as it is
    /\ At(d, "INIT_end")
    /\ display' = [display EXCEPT ![d] = "blank"]
    /\ SetState(d, "WAITING")
    /\ Goto(d, "loop")
    /\ UNCHANGED <<myScore, theirScore, water, call>>

InitEnd(d) ==
    /\ At(d, "INIT_end")
    /\ water' = [water EXCEPT ![d] = FALSE]
    /\ display' = [display EXCEPT ![d] = "blank"]
    /\ SetState(d, "WAITING")
    /\ Goto(d, "loop")
    /\ UNCHANGED <<myScore, theirScore, call>>

InitializingIndicate(d) ==
    /\ At(d, "INITIALIZING_GAME")
    /\ IndicateState(d, "INITIALIZING_GAME", "INITIALIZING_reset")

InitializingReset(d) ==
    /\ At(d, "INITIALIZING_reset")
    /\ SetMyScore(d, "main", 0)
    /\ Goto(d, "INITIALIZING_end")
    /\ UNCHANGED <<gameState, theirScore, water, display>>

InitializingEnd(d) ==
    /\ At(d, "INITIALIZING_end")
    /\ SetState(d, "COUNTING_DOWN")
    /\ Goto(d, "loop")
    /\ UNCHANGED <<myScore, theirScore, water, display, call>>

CountingDown(d, expired) ==
    /\ At(d, "COUNTING_DOWN")
    /\ IF expired THEN SetState(d, "START") ELSE UNCHANGED gameState
    /\ display' = [display EXCEPT ![d] = "counting"]
    /\ Goto(d, "loop")
    /\ UNCHANGED <<myScore, theirScore, water, call>>

Start(d) ==
    /\ At(d, "START")
    /\ SetState(d, "PLAYING")
    /\ Goto(d, "loop")
    /\ UNCHANGED <<myScore, theirScore, water, display, call>>

\* The two tests of the PLAYING case are far apart: the display and the
\* serial port are written between them.
Playing(d, expired) ==
    /\ At(d, "PLAYING")
    /\ IF expired THEN SetState(d, "GAME_OVER") ELSE UNCHANGED gameState
    /\ display' = [display EXCEPT ![d] = "score"]
    /\ Goto(d, "PLAYING_score")
    /\ UNCHANGED <<myScore, theirScore, water, call>>

PlayingScore(d) ==
    /\ At(d, "PLAYING_score")
    /\ IF MaxScore \in {main[d].my, main[d].their}
       THEN SetState(d, "GAME_OVER") ELSE UNCHANGED gameState
    /\ Goto(d, "loop")
    /\ UNCHANGED <<myScore, theirScore, water, display, call>>

Lost(d) == main[d].my >= main[d].their

\* game_print_end.
GameOver(d) ==
    /\ At(d, "GAME_OVER")
    /\ display' = [display EXCEPT ![d] = IF Lost(d) THEN "FAIL" ELSE "PASS"]
    /\ Goto(d, "GAME_OVER_end")
    /\ UNCHANGED <<gameState, myScore, theirScore, water, call>>

GameOverEnd(d) ==
    /\ At(d, "GAME_OVER_end")
    /\ SetState(d, "WATER")
    /\ water' = [water EXCEPT ![d] = @ \/ Lost(d)]
    /\ Goto(d, "loop")
    /\ UNCHANGED <<myScore, theirScore, display, call>>

Water(d, expired) ==
    /\ At(d, "WATER")
    /\ IF expired
       THEN SetState(d, "INIT") /\ water' = [water EXCEPT ![d] = FALSE]
       ELSE UNCHANGED <<gameState, water>>
    /\ Goto(d, "loop")
    /\ UNCHANGED <<myScore, theirScore, display, call>>

\* A reset (watchdog or fault handler): static storage is initialised again.
Restart(d) ==
    /\ gameState' = [gameState EXCEPT ![d] = "INIT"]
    /\ myScore' = [myScore EXCEPT ![d] = 0]
    /\ theirScore' = [theirScore EXCEPT ![d] = 0]
    /\ main' = [main EXCEPT ![d] = PowerOnMain]
    /\ water' = [water EXCEPT ![d] = FALSE]
    /\ display' = [display EXCEPT ![d] = "blank"]
    /\ call' = [call EXCEPT ![d] = NoCalls]

-----------------------------------------------------------------------------
\* The steps of game_tasks, given whether the running phase has expired.
MainStep(d, expired) ==
    \/ ReadScores(d)
    \/ Switch(d)
    \/ InitIndicate(d)
    \/ InitEnd(d)
    \/ InitializingIndicate(d)
    \/ InitializingReset(d)
    \/ InitializingEnd(d)
    \/ CountingDown(d, expired)
    \/ Start(d)
    \/ Playing(d, expired)
    \/ PlayingScore(d)
    \/ GameOver(d)
    \/ GameOverEnd(d)
    \/ Water(d, expired)

Button(d) == Button2(d) \/ Button3(d) \/ Button4(d)

\* The service layer, by its interface: a call returns; a connection comes,
\* goes or delivers a score; a server's indication sets the client's state.
ServiceReturns(d, c) ==
    /\ call[d][c] # NoCall
    /\ ContextRuns(d, c)
    /\ Return(d, c)
    /\ UNCHANGED <<gameState, myScore, theirScore, main, water, display>>

LinkEvent(d) ==
    /\ InterruptIdle(d)
    /\ \E r \in canBe[d] \union {"none"} : role' = [role EXCEPT ![d] = r]
    /\ \E s \in Score : peerScore' = [peerScore EXCEPT ![d] = s]
    /\ UNCHANGED canBe

PeerIndication(d) ==
    /\ role[d] = "client"
    /\ \E s \in IndicatedState : SetStateFromPeer(d, s)

\* A reset of the device: BUTTON_1 is sampled again and no link is left.
Reset(d) ==
    /\ Restart(d)
    /\ \E roles \in SUBSET Role : canBe' = [canBe EXCEPT ![d] = roles]
    /\ role' = [role EXCEPT ![d] = "none"]
    /\ peerScore' = [peerScore EXCEPT ![d] = 0]

GameStep(d, expired) ==
    \/ MainStep(d, expired)
    \/ Button(d)
    \/ PeerIndication(d)
    \/ \E c \in Context : ServiceReturns(d, c)

Next ==
    \E d \in Device :
        \/ \E expired \in BOOLEAN : GameStep(d, expired) /\ UNCHANGED serviceVars
        \/ LinkEvent(d) /\ UNCHANGED gameVars
        \/ Reset(d)

Spec == Init /\ [][Next]_vars

-----------------------------------------------------------------------------
(***************************************************************************)
(* Properties.                                                             *)
(***************************************************************************)

\* Every game starts from zero: from the reset in the INITIALIZING_GAME case
\* (game.c:123) until PLAYING, no interrupt can score, although a score button
\* may be pressed between any two statements of game_tasks.
FreshGame ==
    \A d \in Device :
        gameState[d] \in {"COUNTING_DOWN", "START"} => myScore[d] = 0

\* The verdict is reached on the final score: game_tasks copies the score
\* before it looks at the state (game.c:93), yet in the GAME_OVER case the copy
\* is never out of date.
VerdictIsFinal ==
    \A d \in Device :
        main[d].pc \in {"GAME_OVER", "GAME_OVER_end"} => main[d].my = myScore[d]

\* Water only for the loser: on a device that cannot be a client the output is
\* active only after FAIL was shown and until the state is INIT or WATER no
\* more, and in WATER it is active exactly on FAIL (game.c:177-193), whenever
\* a button stops the game.
WaterOnlyForLoser ==
    \A d \in Device :
        "client" \notin canBe[d] =>
            /\ water[d] => gameState[d] \in {"WATER", "INIT"} /\ display[d] = "FAIL"
            /\ gameState[d] = "WATER" => (water[d] <=> display[d] = "FAIL")

\* A stop that finds game_tasks outside its cases (or in the INIT case) is
\* carried through: unless the device can be a client, the next value of
\* m_game_state other than INIT is WAITING, however often buttons are pressed.
Stopping(d) ==
    /\ gameState[d] = "INIT"
    /\ main[d].pc \in {"loop", "switch", "INIT", "INIT_end"}
StopCompletes ==
    [][\A d \in Device :
        Stopping(d) /\ "client" \notin canBe[d]
            => Stopping(d)' \/ gameState'[d] = "WAITING"]_vars

\* "Otherwise stop the game." (game.c:48 and :73): once a button has set INIT
\* the game in progress does not continue.
StopIsKept ==
    [][\A d \in Device :
        gameState[d] = "INIT" =>
            gameState'[d] \notin {"COUNTING_DOWN", "START", "PLAYING",
                                 "GAME_OVER", "WATER"}]_vars

=============================================================================
