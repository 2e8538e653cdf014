----------------------------- MODULE GameProofs -----------------------------
(***************************************************************************)
(* Proofs about Game for every set of devices and every MAX_SCORE.          *)
(*                                                                          *)
(* The properties of Game rest on one inductive invariant.  A property  *)
(* of m_game_state alone is not inductive: the main loop acts on the value  *)
(* it dispatched on, which an interrupt may have changed since.  IInv adds, *)
(* for each place in game_tasks, what interrupts can have made of the state *)
(* meanwhile - above all that they cannot have made it PLAYING, the only    *)
(* state in which they score.                                               *)
(***************************************************************************)
EXTENDS Game, TLAPS

\* From its reset to the end of the count down, a score stays at zero.
ScoreIsReset(d) ==
    /\ main[d].pc \in {"INITIALIZING_GAME", "INITIALIZING_reset", "INITIALIZING_end"}
           => gameState[d] \in {"INIT", "INITIALIZING_GAME"}
    /\ main[d].pc \in {"INITIALIZING_end", "COUNTING_DOWN", "START"} => myScore[d] = 0
    /\ main[d].pc \in {"COUNTING_DOWN", "START"} => gameState[d] # "PLAYING"
    /\ gameState[d] \in {"COUNTING_DOWN", "START"} => myScore[d] = 0

\* From the end of a game to its verdict, game_tasks' copy of the score is good.
CopyIsGood(d) ==
    /\ main[d].pc = "switch" /\ gameState[d] = "GAME_OVER" => main[d].my = myScore[d]
    /\ main[d].pc \in {"GAME_OVER", "GAME_OVER_end"}
           => main[d].my = myScore[d] /\ gameState[d] # "PLAYING"

\* While the water runs the main loop is on its way to shut it.
WaterIsWatched(d) ==
    "client" \notin canBe[d] =>
        /\ role[d] # "client"
        /\ water[d] => gameState[d] \in {"WATER", "INIT"} /\ display[d] = "FAIL"
        /\ gameState[d] = "WATER" => (water[d] <=> display[d] = "FAIL")
        /\ water[d] \/ gameState[d] = "WATER"
               => main[d].pc \in {"loop", "switch", "INIT", "INIT_end", "WATER"}
        /\ main[d].pc = "WATER" => gameState[d] \in {"WATER", "INIT"}
        /\ main[d].pc \in {"INIT", "INIT_end"} => gameState[d] = "INIT"
        /\ main[d].pc = "GAME_OVER_end" => (display[d] = "FAIL" <=> Lost(d))

IInv ==
    /\ TypeOK
    /\ \A d \in Device : ScoreIsReset(d) /\ CopyIsGood(d) /\ WaterIsWatched(d)

-----------------------------------------------------------------------------
\* What the counter's arithmetic returns: the next score is a score.
LEMMA IncrementedType ==
    \A s \in Score : Incremented(s) \in Score /\ Incremented(s) > 0
  BY MaxScoreAssumption, SMT DEF Incremented, Score

\* Zero and the maximum are scores, and both give calls.
LEMMA ScoreFacts ==
    /\ 0 \in Score /\ MaxScore \in Score
    /\ NoCall \in Call
    /\ \A s \in Score : ScoreCall(s) \in Call
    /\ \A s \in IndicatedState : StateCall(s) \in Call
  BY MaxScoreAssumption DEF Score, Call

\* Initial states have the right types.
LEMMA TypeInit == Init => TypeOK
  BY ScoreFacts DEF Init, TypeOK, PowerOnMain, NoCalls, GameState, Display, MainPc

\* A step of game_tasks keeps the types.
LEMMA TypeMain ==
    ASSUME TypeOK, NEW d \in Device, NEW expired \in BOOLEAN,
           MainStep(d, expired), UNCHANGED serviceVars
    PROVE  TypeOK'
  <1> USE DEF TypeOK, serviceVars, At, Goto, SetState
  <1>1. CASE ReadScores(d)
    BY <1>1 DEF ReadScores, MainPc
  <1>2. CASE Switch(d)
    <2> DEFINE pc == IF gameState[d] = "WAITING" THEN "loop" ELSE gameState[d]
    <2>1. gameState[d] \in GameState
      OBVIOUS
    <2>2. pc \in MainPc
      BY <2>1 DEF GameState, MainPc
    <2>3. main' \in [Device -> [pc : MainPc, my : Score, their : Score]]
      <3> HIDE DEF pc
      <3>1. main' = [main EXCEPT ![d].pc = pc]
        BY <1>2 DEF Switch, pc
      <3>2. QED
        BY <2>2, <3>1
    <2>4. QED
      BY <1>2, <2>3 DEF Switch
  <1>3. CASE InitIndicate(d)
    BY SMTT(30), <1>3, ScoreFacts
    DEF InitIndicate, IndicateState, MakeCall, MainPc, IndicatedState, Context
  <1>4. CASE InitEnd(d)
    BY ZenonT(40), <1>4 DEF InitEnd, MainPc, GameState, Display
  <1>5. CASE InitializingIndicate(d)
    BY SMTT(30), <1>5, ScoreFacts
    DEF InitializingIndicate, IndicateState, MakeCall, MainPc, IndicatedState, Context
  <1>6. CASE InitializingReset(d)
    BY ZenonT(40), <1>6, ScoreFacts
    DEF InitializingReset, SetMyScore, MakeCall, MainPc, Context
  <1>7. CASE InitializingEnd(d)
    BY <1>7 DEF InitializingEnd, MainPc, GameState
  <1>8. CASE CountingDown(d, expired)
    BY ZenonT(40), <1>8 DEF CountingDown, MainPc, GameState, Display
  <1>9. CASE Start(d)
    BY <1>9 DEF Start, MainPc, GameState
  <1>10. CASE Playing(d, expired)
    BY ZenonT(40), <1>10 DEF Playing, MainPc, GameState, Display
  <1>11. CASE PlayingScore(d)
    BY <1>11 DEF PlayingScore, MainPc, GameState
  <1>12. CASE GameOver(d)
    BY ZenonT(40), <1>12 DEF GameOver, MainPc, Display
  <1>13. CASE GameOverEnd(d)
    BY <1>13 DEF GameOverEnd, MainPc, GameState, Lost
  <1>14. CASE Water(d, expired)
    BY ZenonT(40), <1>14 DEF Water, MainPc, GameState
  <1>15. QED
    BY <1>1, <1>2, <1>3, <1>4, <1>5, <1>6, <1>7, <1>8, <1>9, <1>10,
       <1>11, <1>12, <1>13, <1>14 DEF MainStep

\* A button keeps the types.
LEMMA TypeButton ==
    ASSUME TypeOK, NEW d \in Device, Button(d), UNCHANGED serviceVars
    PROVE  TypeOK'
  <1> USE DEF TypeOK, serviceVars, SetState
  <1>1. CASE Button2(d)
    BY <1>1 DEF Button2, StartOrStop, GameState
  <1>2. CASE Button3(d)
    <2>1. Incremented(myScore[d]) \in Score
      BY IncrementedType
    <2>2. QED
      BY <1>2, <2>1, ScoreFacts DEF Button3, ScoreIn, SetMyScore, MakeCall, Context
  <1>3. CASE Button4(d)
    <2>1. CASE gameState[d] = "PLAYING"
      <3>1. SetMyScore(d, "isr", MaxScore) /\ UNCHANGED <<gameState, theirScore, main, water, display>>
        BY <1>3, <2>1 DEF Button4
      <3>2. QED
        BY <3>1, ScoreFacts DEF SetMyScore, MakeCall, Context
    <2>2. CASE gameState[d] # "PLAYING"
      BY <1>3, <2>2 DEF Button4, StartOrStop, GameState
    <2>3. QED
      BY <2>1, <2>2
  <1>4. QED
    BY <1>1, <1>2, <1>3 DEF Button

\* The service layer and a reset keep the types.
LEMMA TypeService ==
    ASSUME TypeOK, NEW d \in Device
    PROVE  /\ PeerIndication(d) /\ UNCHANGED serviceVars => TypeOK'
           /\ (\E c \in Context : ServiceReturns(d, c)) /\ UNCHANGED serviceVars => TypeOK'
           /\ LinkEvent(d) /\ UNCHANGED gameVars => TypeOK'
           /\ Reset(d) => TypeOK'
  <1> USE DEF TypeOK, serviceVars
  <1>1. PeerIndication(d) /\ UNCHANGED serviceVars => TypeOK'
    BY DEF PeerIndication, SetStateFromPeer, SetState, IndicatedState, GameState
  <1>2. (\E c \in Context : ServiceReturns(d, c)) /\ UNCHANGED serviceVars => TypeOK'
    BY ScoreFacts DEF ServiceReturns, Return, MakeCall
  <1>3. LinkEvent(d) /\ UNCHANGED gameVars => TypeOK'
    BY DEF LinkEvent, gameVars, Role
  <1>4. Reset(d) => TypeOK'
    BY ScoreFacts DEF Reset, Restart, PowerOnMain, NoCalls, MainPc, GameState, Display
  <1>5. QED
    BY <1>1, <1>2, <1>3, <1>4

LEMMA TypeStep == TypeOK /\ [Next]_vars => TypeOK'
  <1> SUFFICES ASSUME TypeOK, [Next]_vars PROVE TypeOK'
    OBVIOUS
  <1>1. CASE UNCHANGED vars
    BY <1>1 DEF TypeOK, vars, gameVars, serviceVars
  <1>2. ASSUME NEW d \in Device, NEW expired \in BOOLEAN,
               GameStep(d, expired), UNCHANGED serviceVars
        PROVE  TypeOK'
    BY <1>2, TypeMain, TypeButton, TypeService DEF GameStep
  <1>3. ASSUME NEW d \in Device, (LinkEvent(d) /\ UNCHANGED gameVars) \/ Reset(d)
        PROVE  TypeOK'
    BY <1>3, TypeService
  <1>4. QED
    BY <1>1, <1>2, <1>3 DEF Next

\* Every variable keeps its type, in particular scores never exceed MAX_SCORE.
THEOREM TypeCorrect == Spec => []TypeOK
  BY TypeInit, TypeStep, PTL DEF Spec

-----------------------------------------------------------------------------
\* The parts of IInv that speak of one device.
DeviceInv(d) == ScoreIsReset(d) /\ CopyIsGood(d) /\ WaterIsWatched(d)

\* A step that leaves alone what DeviceInv speaks of keeps it.
LEMMA DeviceInvFrame ==
    ASSUME NEW e \in Device, DeviceInv(e),
           UNCHANGED <<gameState[e], myScore[e], main[e], water[e], display[e],
                       canBe[e], role[e]>>
    PROVE  DeviceInv(e)'
  BY DEF DeviceInv, ScoreIsReset, CopyIsGood, WaterIsWatched, Lost

LEMMA DeviceInvInit ==
    ASSUME Init, NEW d \in Device PROVE DeviceInv(d)
  BY DEF Init, DeviceInv, ScoreIsReset, CopyIsGood, WaterIsWatched, PowerOnMain

\* game_tasks keeps the invariant of the device that runs it.
LEMMA DeviceInvMain ==
    ASSUME TypeOK, NEW d \in Device, DeviceInv(d), NEW expired \in BOOLEAN,
           MainStep(d, expired), UNCHANGED serviceVars
    PROVE  DeviceInv(d)'
  <1> USE DEF DeviceInv, ScoreIsReset, CopyIsGood, WaterIsWatched, Lost, TypeOK,
              serviceVars, At, Goto, SetState
  <1>1. CASE ReadScores(d)
    BY <1>1 DEF ReadScores
  <1>2. CASE Switch(d)
    BY <1>2 DEF Switch, GameState
  <1>3. CASE InitIndicate(d)
    BY <1>3 DEF InitIndicate, IndicateState
  <1>4. CASE InitEnd(d)
    BY <1>4 DEF InitEnd
  <1>5. CASE InitializingIndicate(d)
    BY <1>5 DEF InitializingIndicate, IndicateState
  <1>6. CASE InitializingReset(d)
    BY <1>6 DEF InitializingReset, SetMyScore
  <1>7. CASE InitializingEnd(d)
    BY <1>7 DEF InitializingEnd
  <1>8. CASE CountingDown(d, expired)
    BY <1>8 DEF CountingDown
  <1>9. CASE Start(d)
    BY <1>9 DEF Start
  <1>10. CASE Playing(d, expired)
    BY <1>10 DEF Playing
  <1>11. CASE PlayingScore(d)
    BY <1>11 DEF PlayingScore
  <1>12. CASE GameOver(d)
    BY <1>12 DEF GameOver
  <1>13. CASE GameOverEnd(d)
    BY <1>13 DEF GameOverEnd
  <1>14. CASE Water(d, expired)
    BY <1>14 DEF Water
  <1>15. QED
    BY <1>1, <1>2, <1>3, <1>4, <1>5, <1>6, <1>7, <1>8, <1>9, <1>10,
       <1>11, <1>12, <1>13, <1>14 DEF MainStep

\* So do the interrupts and the service layer.
LEMMA DeviceInvOther ==
    ASSUME TypeOK, NEW d \in Device, DeviceInv(d)
    PROVE  /\ Button(d) /\ UNCHANGED serviceVars => DeviceInv(d)'
           /\ PeerIndication(d) /\ UNCHANGED serviceVars => DeviceInv(d)'
           /\ (\E c \in Context : ServiceReturns(d, c)) /\ UNCHANGED serviceVars
                  => DeviceInv(d)'
           /\ LinkEvent(d) /\ UNCHANGED gameVars => DeviceInv(d)'
           /\ Reset(d) => DeviceInv(d)'
  <1> USE DEF DeviceInv, ScoreIsReset, CopyIsGood, WaterIsWatched, Lost, TypeOK,
              serviceVars, SetState
  <1>1. Button2(d) /\ UNCHANGED serviceVars => DeviceInv(d)'
    BY DEF Button2, StartOrStop
  <1>2. Button3(d) /\ UNCHANGED serviceVars => DeviceInv(d)'
    BY DEF Button3, ScoreIn, SetMyScore
  <1>3. Button4(d) /\ UNCHANGED serviceVars => DeviceInv(d)'
    BY DEF Button4, StartOrStop, SetMyScore
  <1>4. PeerIndication(d) /\ UNCHANGED serviceVars => DeviceInv(d)'
    BY DEF PeerIndication, SetStateFromPeer, IndicatedState
  <1>5. (\E c \in Context : ServiceReturns(d, c)) /\ UNCHANGED serviceVars
            => DeviceInv(d)'
    BY DEF ServiceReturns, Return, MakeCall
  <1>6. LinkEvent(d) /\ UNCHANGED gameVars => DeviceInv(d)'
    BY DEF LinkEvent, gameVars
  <1>7. Reset(d) => DeviceInv(d)'
    BY DEF Reset, Restart, PowerOnMain
  <1>8. QED
    BY <1>1, <1>2, <1>3, <1>4, <1>5, <1>6, <1>7 DEF Button

\* A step of one device leaves the others alone.
LEMMA OthersUntouched ==
    ASSUME TypeOK, NEW d \in Device, NEW e \in Device, d # e,
           \/ \E expired \in BOOLEAN : GameStep(d, expired) /\ UNCHANGED serviceVars
           \/ LinkEvent(d) /\ UNCHANGED gameVars
           \/ Reset(d)
    PROVE  UNCHANGED <<gameState[e], myScore[e], main[e], water[e], display[e],
                       canBe[e], role[e]>>
  <1> USE DEF TypeOK, serviceVars, At, Goto, SetState
  <1>1. ASSUME NEW expired \in BOOLEAN, MainStep(d, expired), UNCHANGED serviceVars
        PROVE  UNCHANGED <<gameState[e], myScore[e], main[e], water[e], display[e],
                           canBe[e], role[e]>>
    BY <1>1 DEF MainStep, ReadScores, Switch, InitIndicate, InitEnd,
         InitializingIndicate, InitializingReset, InitializingEnd, CountingDown, Start,
         Playing, PlayingScore, GameOver, GameOverEnd, Water, IndicateState, SetMyScore
  <1>2. ASSUME Button(d) \/ PeerIndication(d) \/ (\E c \in Context : ServiceReturns(d, c)),
               UNCHANGED serviceVars
        PROVE  UNCHANGED <<gameState[e], myScore[e], main[e], water[e], display[e],
                           canBe[e], role[e]>>
    BY <1>2 DEF Button, Button2, Button3, Button4, ScoreIn, StartOrStop, SetMyScore,
         PeerIndication, SetStateFromPeer, ServiceReturns
  <1>3. ASSUME (LinkEvent(d) /\ UNCHANGED gameVars) \/ Reset(d)
        PROVE  UNCHANGED <<gameState[e], myScore[e], main[e], water[e], display[e],
                           canBe[e], role[e]>>
    BY <1>3 DEF LinkEvent, gameVars, Reset, Restart
  <1>4. QED
    BY <1>1, <1>2, <1>3 DEF GameStep

\* IInv is inductive.
LEMMA Inductive == IInv /\ [Next]_vars => IInv'
  <1> SUFFICES ASSUME TypeOK, \A d \in Device : DeviceInv(d), [Next]_vars
               PROVE  \A e \in Device : DeviceInv(e)'
    BY TypeStep DEF IInv, DeviceInv
  <1>1. CASE UNCHANGED vars
    BY <1>1, DeviceInvFrame DEF vars, gameVars, serviceVars
  <1>2. ASSUME NEW d \in Device, NEW e \in Device,
               \/ \E expired \in BOOLEAN : GameStep(d, expired) /\ UNCHANGED serviceVars
               \/ LinkEvent(d) /\ UNCHANGED gameVars
               \/ Reset(d)
        PROVE  DeviceInv(e)'
    <2>1. CASE d = e
      BY <1>2, <2>1, DeviceInvMain, DeviceInvOther DEF GameStep
    <2>2. CASE d # e
      BY <1>2, <2>2, OthersUntouched, DeviceInvFrame
    <2>3. QED
      BY <2>1, <2>2
  <1>3. QED
    BY <1>1, <1>2 DEF Next

LEMMA InvariantHolds == Spec => []IInv
  <1>1. Init => IInv
    BY TypeInit, DeviceInvInit DEF IInv, DeviceInv
  <1>2. QED
    BY <1>1, Inductive, PTL DEF Spec

-----------------------------------------------------------------------------
\* Every game starts from zero, whichever buttons are pressed between the
\* reset of the score and the start of play (game.c:123-147).
THEOREM GamesStartFresh == Spec => []FreshGame
  <1>1. IInv => FreshGame
    BY DEF IInv, ScoreIsReset, FreshGame
  <1>2. QED
    BY <1>1, InvariantHolds, PTL

\* The verdict of game.c:171-184 compares the final score.
THEOREM VerdictsAreFinal == Spec => []VerdictIsFinal
  <1>1. IInv => VerdictIsFinal
    BY DEF IInv, CopyIsGood, VerdictIsFinal
  <1>2. QED
    BY <1>1, InvariantHolds, PTL

\* On a device that cannot be a client only the loser is squirted, and the
\* output is shut before anything else is played (game.c:105 and :190).
THEOREM OnlyLosersGetWet == Spec => []WaterOnlyForLoser
  <1>1. IInv => WaterOnlyForLoser
    BY DEF IInv, WaterIsWatched, WaterOnlyForLoser
  <1>2. QED
    BY <1>1, InvariantHolds, PTL

\* A stop that a button makes while the main loop is outside a case (or in INIT)
\* is carried through to WAITING (game.c:48, :73 and :109).
THEOREM StopsComplete == Spec => StopCompletes
  <1> DEFINE Goal(d) == Stopping(d)' \/ gameState'[d] = "WAITING"
  <1>1. ASSUME IInv, [Next]_vars, NEW d \in Device, Stopping(d), "client" \notin canBe[d]
        PROVE  Goal(d)
    <2> USE <1>1 DEF IInv, TypeOK, Stopping
    <2>1. role[d] # "client"
      BY DEF WaterIsWatched
    <2>2. CASE UNCHANGED vars
      BY <2>2 DEF vars, gameVars
    <2>3. ASSUME NEW expired \in BOOLEAN, MainStep(d, expired)
          PROVE  Goal(d)
      BY <2>3 DEF MainStep, At, Goto, SetState, ReadScores, Switch, InitIndicate,
           IndicateState, InitEnd, InitializingIndicate, InitializingReset,
           InitializingEnd, CountingDown, Start, Playing, PlayingScore, GameOver,
           GameOverEnd, Water
    <2>4. CASE Button(d)
      BY <2>4 DEF Button, Button2, Button3, Button4, ScoreIn, StartOrStop, SetState
    <2>5. ~PeerIndication(d)
      BY <2>1 DEF PeerIndication
    <2>6. CASE \E c \in Context : ServiceReturns(d, c)
      BY <2>6 DEF ServiceReturns
    <2>7. CASE LinkEvent(d) /\ UNCHANGED gameVars
      BY <2>7 DEF gameVars
    <2>8. CASE Reset(d)
      BY <2>8 DEF Reset, Restart, PowerOnMain
    <2>9. ASSUME NEW e \in Device, e # d,
                 \/ \E expired \in BOOLEAN : GameStep(e, expired) /\ UNCHANGED serviceVars
                 \/ LinkEvent(e) /\ UNCHANGED gameVars
                 \/ Reset(e)
          PROVE  Goal(d)
      BY <2>9, OthersUntouched
    <2>10. QED
      BY <2>2, <2>3, <2>4, <2>5, <2>6, <2>7, <2>8, <2>9 DEF Next, GameStep
  <1>2. IInv /\ [Next]_vars => \A d \in Device :
            Stopping(d) /\ "client" \notin canBe[d] => Goal(d)
    BY <1>1
  <1>3. QED
    BY <1>2, InvariantHolds, PTL DEF Spec, StopCompletes
=============================================================================
