---------------------------- MODULE MatchProofs -----------------------------
(***************************************************************************)
(* Proofs about Match for every MAX_SCORE: the composition implements its   *)
(* two parts, each specified with the other left open, and the score that   *)
(* each service layer keeps of the opponent is the score of its game.       *)
(*                                                                          *)
(* Each part needs the other's invariant: the link may be driven only in    *)
(* the orders Session allows, which is a fact about game_tasks; and the     *)
(* game may be told only what Game allows, which is a fact about the link.  *)
(* So the two are proved together, with MatchInv.                           *)
(***************************************************************************)
EXTENDS Match, SessionProofs

\* The types of what Game adds to the session.
GameTypes ==
    /\ gameState \in [Device -> G!GameState]
    /\ myScore \in [Device -> Score]
    /\ theirScore \in [Device -> Score]
    /\ main \in [Device -> [pc : G!MainPc, my : Score, their : Score]]

\* game_tasks publishes its reset of the score in a state that no interrupt
\* scores in, and no interrupt is publishing then.
Resetting == {"INITIALIZING_GAME", "INITIALIZING_reset", "INITIALIZING_end"}
ResetInv(d) ==
    /\ main[d].pc \in Resetting => gameState[d] \in {"INIT", "INITIALIZING_GAME"}
    /\ call[d]["main"].op = "set_score" =>
           main[d].pc = "INITIALIZING_end" /\ call[d]["isr"].op # "set_score"

\* A score is published before it changes again, by either context.
CallInv(d) == \A c \in Context : call[d][c].op = "set_score" => call[d][c].score = myScore[d]

\* The server's service layer keeps the score of its game from the moment the call
\* that publishes it has passed its checks, and so after the first indication of it
\* unless a call is still before them.
KeptInv ==
    /\ \A c \in sending[Server] :
           call[Server][c].op = "set_score" => serverScore = myScore[Server]
    /\ linkUp /\ told
       /\ (\A c \in Context : call[Server][c].op = "set_score" => c \in sending[Server])
           => serverScore = myScore[Server]

\* What the client has written last is the score of its game, unless it publishes
\* a new one.
WroteInv == linkUp /\ written # Nothing /\ ~Publishing(Client) => written = myScore[Client]

\* The invariant of the session, and what ties it to the two games.
MatchInv ==
    /\ IInv /\ GameTypes
    /\ \A d \in Device : ResetInv(d) /\ CallInv(d)
    /\ KeptInv /\ WroteInv

-----------------------------------------------------------------------------
(***************************************************************************)
(* The games drive the link as Session allows.                             *)
(***************************************************************************)
\* What a step of a game does to the link: it publishes a state from the main loop,
\* or a new score when no other is being published, or nothing.
Acts(d) ==
    \/ UNCHANGED <<call, myScore>>
    \/ /\ InterruptIdle(d) /\ call[d]["main"] = NoCall
       /\ \E s \in IndicatedState : MakeCall(d, "main", StateCall(s))
       /\ UNCHANGED myScore
    \/ /\ InterruptIdle(d) /\ call[d]["main"].op # "set_score"
       /\ \E c \in Context, s \in Score :
              /\ c = "main" => call[d]["main"] = NoCall
              /\ MakeCall(d, c, ScoreCall(s))
              /\ myScore' = [myScore EXCEPT ![d] = s]

\* The interface to the service layer means the same in Game.
LEMMA SameCalls ==
    /\ \A d \in Device : G!InterruptIdle(d) <=> InterruptIdle(d)
    /\ \A d \in Device : \A pc : G!At(d, pc)
           <=> InterruptIdle(d) /\ call[d]["main"] = NoCall /\ main[d].pc = pc
    /\ \A d \in Device : \A c, op : G!MakeCall(d, c, op) <=> MakeCall(d, c, op)
    /\ \A s : G!StateCall(s) = StateCall(s) /\ G!ScoreCall(s) = ScoreCall(s)
    /\ G!NoCall = NoCall /\ G!Score = Score
  BY DEF G!At, G!MainRuns, G!InterruptIdle, InterruptIdle, G!NoCall, NoCall, G!MakeCall, MakeCall,
     G!StateCall, StateCall, G!ScoreCall, ScoreCall, G!Score, Score

\* A step of the main loop.
LEMMA MainActs ==
    ASSUME MatchInv, NEW d \in Device, NEW expired \in BOOLEAN, G!MainStep(d, expired)
    PROVE  Acts(d)
  <1>1. NoCall.op # "set_score"
    BY Calls
  <1>2. CASE G!InitIndicate(d)
    BY <1>2, SameCalls DEF G!InitIndicate, G!IndicateState, IndicatedState, Acts
  <1>3. CASE G!InitializingIndicate(d)
    BY <1>3, SameCalls DEF G!InitializingIndicate, G!IndicateState, IndicatedState, Acts
  <1>4. CASE G!InitializingReset(d)
    <2>1. 0 \in Score /\ "main" \in Context
      BY MaxScoreAssumption DEF Score, Context
    <2>2. QED
      BY <1>1, <1>4, <2>1, SameCalls DEF G!InitializingReset, G!SetMyScore, Acts
  <1>5. CASE UNCHANGED <<call, myScore>>
    BY <1>5 DEF Acts
  <1>6. QED
    BY <1>2, <1>3, <1>4, <1>5
       DEF G!MainStep, G!ReadScores, G!Switch, G!InitEnd, G!InitializingEnd, G!CountingDown,
           G!Start, G!Playing, G!PlayingScore, G!GameOver, G!GameOverEnd, G!Water

\* A press of a button.
LEMMA ButtonActs ==
    ASSUME MatchInv, NEW d \in Device, G!Button(d)
    PROVE  Acts(d)
  <1>1. ASSUME NEW s \in Score, InterruptIdle(d), gameState[d] = "PLAYING",
               G!SetMyScore(d, "isr", s)
        PROVE  Acts(d)
    <2>1. call[d]["main"].op # "set_score"
      BY <1>1 DEF MatchInv, ResetInv, Resetting
    <2>2. MakeCall(d, "isr", ScoreCall(s)) /\ myScore' = [myScore EXCEPT ![d] = s]
      BY <1>1, SameCalls DEF G!SetMyScore
    <2>3. QED
      BY <1>1, <2>1, <2>2 DEF Acts, Context
  <1>2. CASE UNCHANGED <<call, myScore>>
    BY <1>2 DEF Acts
  <1>3. CASE G!Button3(d)
    <2>1. G!Incremented(myScore[d]) \in Score
      BY MaxScoreAssumption DEF MatchInv, GameTypes, G!Incremented, Score
    <2>2. QED
      BY <1>1, <1>3, <2>1, SameCalls DEF G!Button3, G!ScoreIn
  <1>4. CASE G!Button4(d) /\ gameState[d] = "PLAYING"
    <2>1. MaxScore \in Score
      BY MaxScoreAssumption DEF Score
    <2>2. QED
      BY <1>1, <1>4, <2>1, SameCalls DEF G!Button4
  <1>5. QED
    BY <1>2, <1>3, <1>4 DEF G!Button, G!Button2, G!Button4, G!StartOrStop

\* Either is a step of Session's, if it is one at all.
LEMMA GameActs ==
    ASSUME MatchInv, NEW d \in Device, Turn(d) \/ Press(d)
    PROVE  Acts(d) /\ (GameCalls(d) \/ UNCHANGED sessionVars)
  <1>1. Acts(d)
    BY MainActs, ButtonActs DEF Turn, Press
  <1>2. ~fault[d] /\ UNCHANGED <<linkVars, history>>
    BY DEF Turn, Press
  <1>3. Acts(d) => GameCalls(d) \/ UNCHANGED sessionVars
    BY <1>2 DEF Acts, GameCalls, sessionVars, Context
  <1>4. QED
    BY <1>1, <1>3

\* Every step of the match is one that Session allows.
LEMMA SessionAllows ==
    ASSUME MatchInv, [MatchNext]_matchVars
    PROVE  [SessionNext]_sessionVars
  <1>1. CASE NewLink \/ ((LinkLoss \/ Stack) /\ UNCHANGED history)
    BY <1>1 DEF SessionNext
  <1>2. ASSUME NEW s \in IndicatedState, Indicates(s)
        PROVE  SessionNext
    <2>1. ClientGameState(s) /\ UNCHANGED history
      BY <1>2 DEF Indicates
    <2>2. Head(events[Client]).type = "hvx"
      BY <2>1 DEF ClientGameState, Handles
    <2>3. Interrupt(Client)
      BY <2>1, <2>2, RolesAssumption DEF Interrupt, history
    <2>4. QED
      BY <2>3, RolesAssumption DEF SessionNext
  <1>3. ASSUME NEW d \in Device, Turn(d) \/ Press(d)
        PROVE  [SessionNext]_sessionVars
    BY <1>3, GameActs DEF SessionNext
  <1>4. ASSUME NEW d \in Device, Serves(d) \/ Restarts(d)
        PROVE  SessionNext
    BY <1>4 DEF Serves, Restarts, SessionNext
  <1>5. CASE UNCHANGED matchVars
    BY <1>5 DEF matchVars
  <1>6. QED
    BY <1>1, <1>2, <1>3, <1>4, <1>5 DEF MatchNext

-----------------------------------------------------------------------------
(***************************************************************************)
(* The games keep their types, and reset their scores undisturbed.         *)
(***************************************************************************)
\* A step of the main loop keeps the types.
LEMMA MainTypes ==
    ASSUME MatchInv, NEW d \in Device, NEW expired \in BOOLEAN, G!MainStep(d, expired)
    PROVE  GameTypes'
  <1>1. GameTypes /\ 0 \in Score
    BY MaxScoreAssumption DEF MatchInv, Score
  <1> USE DEF GameTypes, G!Goto, G!SetState
  <1>2. CASE G!ReadScores(d)
    <2>1. PeerScore[d] \in Score
      BY DEF MatchInv, IInv, Types, PeerScore
    <2> DEFINE their == IF Role[d] = "none" THEN theirScore[d] ELSE PeerScore[d]
    <2>2. their \in Score /\ myScore[d] \in Score
      BY <1>1, <2>1
    <2>3. /\ theirScore' = [theirScore EXCEPT ![d] = their]
          /\ main' = [main EXCEPT ![d] = [pc |-> "switch", my |-> myScore[d], their |-> their]]
          /\ UNCHANGED <<gameState, myScore>>
      BY <1>2 DEF G!ReadScores
    <2> HIDE DEF their
    <2>4. QED
      BY <1>1, <2>2, <2>3 DEF G!MainPc
  <1>3. CASE G!Switch(d)
    <2> DEFINE pc == IF gameState[d] = "WAITING" THEN "loop" ELSE gameState[d]
    <2>1. pc \in G!MainPc
      BY <1>1 DEF G!GameState, G!MainPc
    <2>2. main' = [main EXCEPT ![d].pc = pc] /\ UNCHANGED <<gameState, myScore, theirScore>>
      BY <1>3 DEF G!Switch
    <2> HIDE DEF pc
    <2>3. QED
      BY <1>1, <2>1, <2>2
  <1>4. CASE G!InitIndicate(d) \/ G!InitializingIndicate(d)
    BY <1>1, <1>4 DEF G!InitIndicate, G!InitializingIndicate, G!IndicateState, G!MainPc
  <1>5. CASE G!InitializingReset(d)
    BY <1>1, <1>5 DEF G!InitializingReset, G!SetMyScore, G!MainPc
  <1>6. CASE G!InitEnd(d)
    BY <1>1, <1>6 DEF G!InitEnd, G!MainPc, G!GameState
  <1>7. CASE G!InitializingEnd(d)
    BY <1>1, <1>7 DEF G!InitializingEnd, G!MainPc, G!GameState
  <1>8. CASE G!CountingDown(d, expired)
    BY <1>1, <1>8 DEF G!CountingDown, G!MainPc, G!GameState
  <1>9. CASE G!Start(d)
    BY <1>1, <1>9 DEF G!Start, G!MainPc, G!GameState
  <1>10. CASE G!Playing(d, expired)
    BY <1>1, <1>10 DEF G!Playing, G!MainPc, G!GameState
  <1>11. CASE G!PlayingScore(d)
    BY <1>1, <1>11 DEF G!PlayingScore, G!MainPc, G!GameState
  <1>12. CASE G!GameOver(d)
    BY <1>1, <1>12 DEF G!GameOver, G!MainPc, G!GameState
  <1>13. CASE G!GameOverEnd(d)
    BY <1>1, <1>13 DEF G!GameOverEnd, G!MainPc, G!GameState
  <1>14. CASE G!Water(d, expired)
    BY <1>1, <1>14 DEF G!Water, G!MainPc, G!GameState
  <1>15. QED
    BY <1>2, <1>3, <1>4, <1>5, <1>6, <1>7, <1>8, <1>9, <1>10, <1>11, <1>12, <1>13, <1>14
       DEF G!MainStep

\* So do buttons, indications and resets.
LEMMA OtherTypes ==
    ASSUME MatchInv, NEW d \in Device
    PROVE  /\ G!Button(d) => GameTypes'
           /\ \A s \in IndicatedState : G!SetStateFromPeer(d, s) => GameTypes'
           /\ G!Restart(d) => GameTypes'
           /\ UNCHANGED gameVars => GameTypes'
  <1>1. GameTypes /\ 0 \in Score /\ MaxScore \in Score
    BY MaxScoreAssumption DEF MatchInv, Score
  <1> USE <1>1 DEF GameTypes, G!SetState
  <1>2. G!Button2(d) => GameTypes'
    BY DEF G!Button2, G!StartOrStop, G!GameState
  <1>3. G!Button3(d) => GameTypes'
    <2>1. G!Incremented(myScore[d]) \in Score
      BY MaxScoreAssumption DEF G!Incremented, Score
    <2>2. QED
      BY <2>1 DEF G!Button3, G!ScoreIn, G!SetMyScore
  <1>4. G!Button4(d) => GameTypes'
    BY DEF G!Button4, G!StartOrStop, G!SetMyScore, G!GameState
  <1>5. \A s \in IndicatedState : G!SetStateFromPeer(d, s) => GameTypes'
    BY DEF G!SetStateFromPeer, IndicatedState, G!GameState
  <1>6. G!Restart(d) => GameTypes'
    BY DEF G!Restart, G!PowerOnMain, G!GameState, G!MainPc
  <1>7. UNCHANGED gameVars => GameTypes'
    BY DEF gameVars
  <1>8. QED
    BY <1>2, <1>3, <1>4, <1>5, <1>6, <1>7 DEF G!Button

\* A step of the main loop keeps ResetInv of its device.
LEMMA MainResets ==
    ASSUME MatchInv, NEW d \in Device, NEW expired \in BOOLEAN, G!MainStep(d, expired)
    PROVE  ResetInv(d)'
  <1>1. GameTypes /\ ResetInv(d) /\ call \in [Device -> [Context -> Call]] /\ NoCall.op = "none"
    BY Calls DEF MatchInv, IInv, Types
  <1>2. InterruptIdle(d) /\ call[d]["main"] = NoCall
    BY SameCalls DEF G!MainStep, G!ReadScores, G!Switch, G!InitIndicate, G!InitEnd,
       G!InitializingIndicate, G!InitializingReset, G!InitializingEnd, G!CountingDown, G!Start,
       G!Playing, G!PlayingScore, G!GameOver, G!GameOverEnd, G!Water
  <1>3. \A pc : G!At(d, pc) => main[d].pc = pc
    BY SameCalls
  <1> USE <1>1, <1>2, <1>3 DEF GameTypes, ResetInv, Resetting, InterruptIdle, G!Goto, G!SetState
  <1>4. CASE G!ReadScores(d)
    BY <1>4 DEF G!ReadScores
  <1>5. CASE G!Switch(d)
    BY <1>5 DEF G!Switch, G!GameState
  <1>6. CASE G!InitIndicate(d) \/ G!InitializingIndicate(d)
    <2>1. PICK s \in IndicatedState : MakeCall(d, "main", StateCall(s))
      BY <1>6, SameCalls DEF G!InitIndicate, G!InitializingIndicate, G!IndicateState, IndicatedState
    <2>2. call'[d]["main"] = StateCall(s) /\ StateCall(s).op = "indicate_game_state"
      BY <2>1, Calls, CallMade DEF MatchInv, Context
    <2>3. QED
      BY <1>6, <2>2 DEF G!InitIndicate, G!InitializingIndicate, G!IndicateState
  <1>7. CASE G!InitializingReset(d)
    <2>1. MakeCall(d, "main", ScoreCall(0)) /\ 0 \in Score
      BY <1>7, SameCalls, MaxScoreAssumption DEF G!InitializingReset, G!SetMyScore, Score
    <2>2. call'[d]["isr"] = NoCall
      BY <2>1, Calls, CallMade DEF MatchInv, Context
    <2>3. QED
      BY <1>7, <2>2 DEF G!InitializingReset, G!SetMyScore
  <1>8. CASE G!InitEnd(d)
    BY <1>8 DEF G!InitEnd
  <1>9. CASE G!InitializingEnd(d)
    BY <1>9 DEF G!InitializingEnd
  <1>10. CASE G!CountingDown(d, expired)
    BY <1>10 DEF G!CountingDown
  <1>11. CASE G!Start(d)
    BY <1>11 DEF G!Start
  <1>12. CASE G!Playing(d, expired)
    BY <1>12 DEF G!Playing
  <1>13. CASE G!PlayingScore(d)
    BY <1>13 DEF G!PlayingScore
  <1>14. CASE G!GameOver(d)
    BY <1>14 DEF G!GameOver
  <1>15. CASE G!GameOverEnd(d)
    BY <1>15 DEF G!GameOverEnd
  <1>16. CASE G!Water(d, expired)
    BY <1>16 DEF G!Water
  <1>17. QED
    BY <1>4, <1>5, <1>6, <1>7, <1>8, <1>9, <1>10, <1>11, <1>12, <1>13, <1>14, <1>15, <1>16
       DEF G!MainStep

\* So do buttons, indications and resets, and calls that return.
LEMMA OtherResets ==
    ASSUME MatchInv, NEW d \in Device
    PROVE  /\ G!Button(d) => ResetInv(d)'
           /\ \A s \in IndicatedState : G!SetStateFromPeer(d, s) => ResetInv(d)'
           /\ G!Restart(d) => ResetInv(d)'
           /\ \A c \in Context : Return(d, c) /\ UNCHANGED gameVars => ResetInv(d)'
  <1>1. GameTypes /\ ResetInv(d) /\ call \in [Device -> [Context -> Call]] /\ NoCall.op = "none"
    BY Calls DEF MatchInv, IInv, Types
  <1> USE <1>1 DEF GameTypes, ResetInv, Resetting, G!SetState
  <1>2. G!Button2(d) => ResetInv(d)'
    BY DEF G!Button2, G!StartOrStop
  <1>3. ASSUME NEW s, G!SetMyScore(d, "isr", s), gameState[d] = "PLAYING",
               UNCHANGED <<gameState, main>>
        PROVE  ResetInv(d)'
    <2>1. call'[d]["main"] = call[d]["main"]
      BY <1>3 DEF G!SetMyScore, G!MakeCall, Context
    <2>2. QED
      BY <1>3, <2>1
  <1>4. G!Button3(d) => ResetInv(d)'
    BY <1>3 DEF G!Button3, G!ScoreIn
  <1>5. G!Button4(d) => ResetInv(d)'
    BY <1>3 DEF G!Button4, G!StartOrStop
  <1>6. \A s \in IndicatedState : G!SetStateFromPeer(d, s) => ResetInv(d)'
    BY DEF G!SetStateFromPeer, IndicatedState
  <1>7. G!Restart(d) => ResetInv(d)'
    BY DEF G!Restart, G!PowerOnMain, G!NoCalls, G!Context, G!NoCall
  <1>8. ASSUME NEW c \in Context, Return(d, c), UNCHANGED gameVars
        PROVE  ResetInv(d)'
    <2>1. IInv /\ MakeCall(d, c, NoCall) /\ NoCall \in Call
      BY <1>8, Calls DEF MatchInv, Return
    <2>2. \A x \in Context : IF x = c THEN call'[d][x] = NoCall ELSE call'[d][x] = call[d][x]
      BY <2>1, CallMade
    <2>3. QED
      BY <1>8, <2>2 DEF gameVars, Context
  <1>9. QED
    BY <1>2, <1>4, <1>5, <1>6, <1>7, <1>8 DEF G!Button

\* A step of one device leaves the game of the other alone.
LEMMA OtherGame ==
    ASSUME MatchInv, NEW d \in Device, NEW o \in Device, o # d,
           \/ \E expired \in BOOLEAN : G!MainStep(d, expired)
           \/ G!Button(d) \/ G!Restart(d)
           \/ \E s : G!SetStateFromPeer(d, s)
           \/ UNCHANGED gameVars /\ (UNCHANGED call \/ \E c \in Context : Return(d, c))
    PROVE  UNCHANGED <<gameState[o], myScore[o], main[o], call[o]>>
  <1>1. GameTypes /\ call \in [Device -> [Context -> Call]]
    BY DEF MatchInv, IInv, Types
  <1> USE <1>1 DEF GameTypes, G!Goto, G!SetState, G!MakeCall
  <1>2. ASSUME NEW expired \in BOOLEAN, G!MainStep(d, expired)
        PROVE  UNCHANGED <<gameState[o], myScore[o], main[o], call[o]>>
    BY <1>2 DEF G!MainStep, G!ReadScores, G!Switch, G!InitIndicate, G!InitEnd,
       G!InitializingIndicate, G!InitializingReset, G!InitializingEnd, G!CountingDown, G!Start,
       G!Playing, G!PlayingScore, G!GameOver, G!GameOverEnd, G!Water, G!IndicateState, G!SetMyScore
  <1>3. CASE G!Button(d)
    BY <1>3 DEF G!Button, G!Button2, G!Button3, G!Button4, G!ScoreIn, G!StartOrStop, G!SetMyScore
  <1>4. CASE G!Restart(d)
    BY <1>4 DEF G!Restart
  <1>5. CASE \E s : G!SetStateFromPeer(d, s)
    BY <1>5 DEF G!SetStateFromPeer
  <1>6. CASE UNCHANGED gameVars /\ (UNCHANGED call \/ \E c \in Context : Return(d, c))
    BY <1>6 DEF gameVars, Return, MakeCall
  <1>7. QED
    BY <1>2, <1>3, <1>4, <1>5, <1>6

-----------------------------------------------------------------------------
(***************************************************************************)
(* The scores on their way from one game to the other.                     *)
(***************************************************************************)
\* What CallInv, KeptInv and WroteInv speak of.
LEMMA ScoreFacts ==
    ASSUME MatchInv
    PROVE  /\ call \in [Device -> [Context -> Call]] /\ sending \in [Device -> SUBSET Context]
           /\ myScore \in [Device -> Score]
           /\ \A d \in Device : \A c \in sending[d] : call[d][c] # NoCall
           /\ \A d \in Device : ResetInv(d) /\ CallInv(d)
           /\ KeptInv /\ WroteInv
           /\ NoCall \in Call /\ NoCall.op # "set_score"
           /\ Server \in Device /\ Client \in Device /\ Server # Client
           /\ Context = {"main", "isr"}
  BY Calls, RolesAssumption DEF MatchInv, IInv, Types, StateInv, GameTypes, Context

\* A step that touches none of it keeps them.
LEMMA ScoreFrame ==
    ASSUME MatchInv, UNCHANGED <<call, sending, serverScore, myScore>>,
           \/ UNCHANGED <<linkUp, told, written>>
           \/ ~linkUp'
           \/ told' = FALSE /\ written' = Nothing
    PROVE  (\A d \in Device : CallInv(d)') /\ KeptInv' /\ WroteInv'
  BY ScoreFacts DEF CallInv, KeptInv, WroteInv, Publishing

\* The game publishes: the service layer does not know of it yet.
LEMMA ActsScores ==
    ASSUME MatchInv, NEW d \in Device, Acts(d), UNCHANGED <<linkVars, history>>
    PROVE  (\A e \in Device : CallInv(e)') /\ KeptInv' /\ WroteInv'
  <1>1. UNCHANGED <<sending, serverScore, linkUp, told, written>>
    BY DEF linkVars, appVars, stackVars, history
  <1>2. CASE UNCHANGED <<call, myScore>>
    BY <1>1, <1>2, ScoreFrame
  <1>3. ASSUME call[d]["main"] = NoCall, NEW s \in IndicatedState,
               MakeCall(d, "main", StateCall(s)), UNCHANGED myScore
        PROVE  (\A e \in Device : CallInv(e)') /\ KeptInv' /\ WroteInv'
    <2>1. IInv /\ "main" \in Context /\ StateCall(s) \in Call /\ StateCall(s).op # "set_score"
      BY <1>3, Calls DEF MatchInv, Context
    <2>2. /\ call'[d]["main"] = StateCall(s)
          /\ \A o \in Device, x \in Context : o # d \/ x # "main" => call'[o][x] = call[o][x]
      BY <1>3, <2>1, CallMade
    <2>3. \A o \in Device, x \in Context :
              IF call'[o][x].op = "set_score" THEN call'[o][x] = call[o][x]
              ELSE call[o][x].op # "set_score"
      BY <1>3, <2>1, <2>2, ScoreFacts
    <2>4. QED
      BY <1>1, <1>3, <2>3, ScoreFacts DEF CallInv, KeptInv, WroteInv, Publishing
  <1>4. ASSUME InterruptIdle(d), call[d]["main"].op # "set_score",
               NEW c \in Context, NEW s \in Score, c = "main" => call[d]["main"] = NoCall,
               MakeCall(d, c, ScoreCall(s)), myScore' = [myScore EXCEPT ![d] = s]
        PROVE  (\A e \in Device : CallInv(e)') /\ KeptInv' /\ WroteInv'
    <2>1. /\ IInv /\ ScoreCall(s) \in Call /\ ScoreCall(s).op = "set_score"
          /\ ScoreCall(s).score = s
      BY <1>4, Calls DEF MatchInv
    <2>2. /\ call'[d][c] = ScoreCall(s)
          /\ \A o \in Device, x \in Context : o # d \/ x # c => call'[o][x] = call[o][x]
      BY <1>4, <2>1, CallMade
    <2>3. call[d][c] = NoCall /\ call[d]["isr"] = NoCall /\ c \notin sending[d]
      BY <1>4, ScoreFacts DEF InterruptIdle
    <2>4. \A x \in Context : x # c => call'[d][x].op # "set_score"
      BY <1>4, <2>2, <2>3, ScoreFacts
    <2>5. myScore'[d] = s /\ \A o \in Device : o # d => myScore'[o] = myScore[o]
      BY <1>4, ScoreFacts
    <2>6. \A e \in Device : CallInv(e)'
      BY <2>1, <2>2, <2>4, <2>5, ScoreFacts DEF CallInv
    <2>7. KeptInv'
      <3>1. CASE d = Server
        BY <1>1, <2>1, <2>2, <2>3, <2>4, <3>1, ScoreFacts DEF KeptInv
      <3>2. CASE d # Server
        BY <1>1, <2>2, <2>5, <3>2, ScoreFacts DEF KeptInv
      <3>3. QED
        BY <3>1, <3>2
    <2>8. WroteInv'
      <3>1. CASE d = Client
        BY <2>1, <2>2, <3>1 DEF WroteInv, Publishing
      <3>2. CASE d # Client
        BY <1>1, <2>2, <2>5, <3>2, ScoreFacts DEF WroteInv, Publishing
      <3>3. QED
        BY <3>1, <3>2
    <2>9. QED
      BY <2>6, <2>7, <2>8
  <1>5. QED
    BY <1>2, <1>3, <1>4 DEF Acts

\* A BLE event changes no call, and nothing that was sent.
LEMMA InterruptFrame ==
    ASSUME NEW d \in Device, Interrupt(d)
    PROVE  UNCHANGED <<call, sending, serverScore, linkUp, told, written>>
  <1>1. CASE ServerInterrupt
    BY <1>1 DEF ServerInterrupt, ServerConnected, Disconnected, ServerRead, ServerWrite,
       ServerSysAttrMissing, Handles, stackVars, Interrupt
  <1>2. CASE ClientInterrupt
    BY <1>2 DEF ClientInterrupt, ClientConnected, Disconnected, ClientDiscovered,
       ClientReadInfo, ClientRead, ClientScore, Handles, stackVars, appVars, Interrupt
  <1>3. CASE \E s \in IndicatedState : ClientGameState(s)
    BY <1>3 DEF ClientGameState, Handles, appVars, Interrupt
  <1>4. QED
    BY <1>1, <1>2, <1>3 DEF Interrupt

\* Two scores are never published at once.
LEMMA OneScore ==
    ASSUME MatchInv, NEW d \in Device, NEW c \in Context, call[d][c].op = "set_score"
    PROVE  \A x \in Context : x # c => call[d][x].op # "set_score"
  BY ScoreFacts DEF ResetInv

\* The service layer takes a score over, or returns because there is no session.
LEMMA ChecksScores ==
    ASSUME MatchInv, NEW d \in Device, NEW c \in Context, CallChecks(d, c),
           UNCHANGED gameVars, UNCHANGED history
    PROVE  (\A e \in Device : CallInv(e)') /\ KeptInv' /\ WroteInv'
  <1> DEFINE op == call[d][c]
             goes == (IsServer(d) /\ handle[d]) \/ (IsClient(d) /\ op.op = "set_score")
  <1>1. /\ serverScore' = IF op.op = "set_score" /\ IsServer(d) THEN op.score ELSE serverScore
        /\ IF goes THEN sending' = [sending EXCEPT ![d] = @ \union {c}] /\ UNCHANGED call
           ELSE UNCHANGED sending /\ MakeCall(d, c, NoCall)
        /\ c \notin sending[d]
        /\ UNCHANGED <<myScore, linkUp, told, written>>
    BY DEF CallChecks, Return, stackVars, gameVars, history
  <1>2. op.op = "set_score" =>
            op.score = myScore[d] /\ \A x \in Context : x # c => call[d][x].op # "set_score"
    BY OneScore, ScoreFacts DEF CallInv
  <1>3. CASE goes
    <2>1. /\ UNCHANGED call
          /\ sending'[d] = sending[d] \union {c}
          /\ \A o \in Device : o # d => sending'[o] = sending[o]
      BY <1>1, <1>3, ScoreFacts
    <2>2. d = Server => IsServer(d)
      BY <1>3, RolesAssumption DEF IsClient
    <2>3. d # Server => serverScore' = serverScore
      BY <1>1 DEF IsServer
    <2> HIDE DEF goes, op
    <2>4. KeptInv'
      <3>1. CASE d = Server /\ op.op = "set_score"
        BY <1>1, <1>2, <2>1, <2>2, <3>1, ScoreFacts DEF KeptInv, op
      <3>2. CASE d = Server /\ op.op # "set_score"
        BY <1>1, <2>1, <3>2, ScoreFacts DEF KeptInv, op
      <3>3. CASE d # Server
        BY <1>1, <2>1, <2>3, <3>3, ScoreFacts DEF KeptInv
      <3>4. QED
        BY <3>1, <3>2, <3>3
    <2>5. (\A e \in Device : CallInv(e)') /\ WroteInv'
      BY <1>1, <2>1, ScoreFacts DEF CallInv, WroteInv, Publishing
    <2>6. QED
      BY <2>4, <2>5
  <1>4. CASE ~goes
    <2>1. /\ IInv /\ UNCHANGED sending /\ call'[d][c] = NoCall
          /\ \A o \in Device, x \in Context : o # d \/ x # c => call'[o][x] = call[o][x]
      BY <1>1, <1>4, ScoreFacts, CallMade DEF MatchInv
    <2>2. linkUp /\ told => ~(d = Server)
      BY <1>4, <2>1, ScoreFacts DEF IInv, ToldInv, StateInv, IsServer
    <2>3. linkUp /\ written # Nothing /\ d = Client => op.op # "set_score"
      BY <1>4, <2>1 DEF IInv, WrittenInv, IsClient
    <2>4. d # Server => serverScore' = serverScore
      BY <1>1 DEF IsServer
    <2> HIDE DEF goes, op
    <2>5. KeptInv'
      <3>1. ASSUME NEW x \in sending'[Server], call'[Server][x].op = "set_score"
            PROVE  serverScore' = myScore'[Server]
        <4>1. /\ x \in sending[Server] /\ x \in Context /\ (d = Server => x # c)
              /\ call[Server][x].op = "set_score"
          BY <1>1, <2>1, <3>1, ScoreFacts
        <4>2. serverScore' = serverScore
          BY <1>1, <1>2, <2>4, <4>1
        <4>3. QED
          BY <1>1, <4>1, <4>2, ScoreFacts DEF KeptInv
      <3>2. ASSUME linkUp, told,
                   \A x \in Context : call'[Server][x].op = "set_score" => x \in sending[Server]
            PROVE  serverScore' = myScore'[Server]
        BY <1>1, <2>1, <2>2, <2>4, <3>2, ScoreFacts DEF KeptInv
      <3>3. QED
        BY <1>1, <2>1, <3>1, <3>2 DEF KeptInv
    <2>6. WroteInv'
      BY <1>1, <2>1, <2>3, ScoreFacts DEF WroteInv, Publishing, op
    <2>7. \A e \in Device : CallInv(e)'
      BY <1>1, <2>1, ScoreFacts DEF CallInv
    <2>8. QED
      BY <2>5, <2>6, <2>7
  <1>5. QED
    BY <1>3, <1>4

\* The stack takes a score, or a failed check stops the device.
LEMMA PublishesScores ==
    ASSUME MatchInv, NEW d \in Device, NEW c \in Context, Publishes(d, c), UNCHANGED gameVars
    PROVE  (\A e \in Device : CallInv(e)') /\ KeptInv' /\ WroteInv'
  <1> DEFINE op == call[d][c]
  <1>1. /\ told' = (told \/ (d = Server /\ op.op = "set_score" /\ HvxGoes(c)))
        /\ written' = IF d = Client /\ Usable(d) THEN op.score ELSE written
        /\ UNCHANGED myScore
    BY DEF Publishes, gameVars
  <1>2. CASE SendFaults(d, c)
    <2>1. /\ ~Usable(d) \/ (d = Server /\ ~sysAttrSet)
          /\ UNCHANGED <<call, sending, serverScore, linkUp>>
      BY <1>2 DEF SendFaults, stackVars
    <2>2. UNCHANGED <<told, written>>
      BY <1>1, <2>1, ScoreFacts DEF HvxGoes, MatchInv, IInv, Types
    <2>3. QED
      BY <1>1, <2>1, <2>2, ScoreFrame
  <1>3. CASE SendEnds(d, c) /\ c \in sending[d] /\ (d = Client => Usable(d))
    <2>1. /\ IInv /\ sending' = [sending EXCEPT ![d] = @ \ {c}]
          /\ MakeCall(d, c, NoCall) /\ UNCHANGED <<serverScore, linkUp>>
      BY <1>3 DEF SendEnds, Return, MatchInv
    <2>2. /\ call'[d][c] = NoCall
          /\ \A o \in Device, x \in Context : o # d \/ x # c => call'[o][x] = call[o][x]
      BY <2>1, ScoreFacts, CallMade
    <2>3. /\ sending'[d] = sending[d] \ {c}
          /\ \A o \in Device : o # d => sending'[o] = sending[o]
      BY <2>1, ScoreFacts
    <2>4. d = Client => written' = op.score /\ op.op = "set_score"
      BY <1>1, <1>3, <2>1 DEF IInv, StateInv
    <2> HIDE DEF op
    <2>5. \A e \in Device : CallInv(e)'
      BY <1>1, <2>2, ScoreFacts DEF CallInv
    <2>6. WroteInv'
      <3>1. CASE d = Client
        BY <1>1, <2>4, <3>1, ScoreFacts DEF WroteInv, CallInv, op
      <3>2. CASE d # Client
        BY <1>1, <2>1, <2>2, <3>2, ScoreFacts DEF WroteInv, Publishing
      <3>3. QED
        BY <3>1, <3>2
    <2>7. KeptInv'
      <3>1. CASE d = Server /\ op.op = "set_score"
        BY <1>1, <1>3, <2>1, <2>2, <2>3, <3>1, ScoreFacts DEF KeptInv, op
      <3>2. CASE d = Server /\ op.op # "set_score"
        <4>1. /\ sending'[Server] = sending[Server] \ {c} /\ (told' => told)
              /\ \A x \in Context : x # c => call'[Server][x] = call[Server][x]
              /\ call'[Server][c].op # "set_score" /\ call[Server][c].op # "set_score"
              /\ sending[Server] \subseteq Context
              /\ UNCHANGED <<serverScore, linkUp, myScore>>
          BY <1>1, <2>1, <2>2, <2>3, <3>2, ScoreFacts DEF op
        <4>2. KeptInv
          BY ScoreFacts
        <4>3. QED
          BY <4>1, <4>2 DEF KeptInv
      <3>3. CASE d # Server
        <4>1. /\ sending'[Server] = sending[Server] /\ (told' => told)
              /\ \A x \in Context : call'[Server][x] = call[Server][x]
              /\ sending[Server] \subseteq Context
              /\ UNCHANGED <<serverScore, linkUp, myScore>>
          BY <1>1, <2>1, <2>2, <2>3, <3>3, ScoreFacts
        <4>2. KeptInv
          BY ScoreFacts
        <4>3. QED
          BY <4>1, <4>2 DEF KeptInv
      <3>4. QED
        BY <3>1, <3>2, <3>3
    <2>8. QED
      BY <2>5, <2>6, <2>7
  <1>4. Server # Client
    BY RolesAssumption
  <1>5. QED
    BY <1>2, <1>3, <1>4 DEF Publishes, Send, SendIndication, DropIndication, SendWrite, Sends

\* A reset ends the link, and starts the device's scores again.
LEMMA RestartScores ==
    ASSUME MatchInv, NEW d \in Device, Restarts(d)
    PROVE  (\A e \in Device : CallInv(e)') /\ KeptInv' /\ WroteInv'
  <1>1. /\ linkUp' = FALSE /\ call' = [call EXCEPT ![d] = NoCalls]
        /\ sending' = [sending EXCEPT ![d] = {}]
        /\ d # Server => serverScore' = serverScore
        /\ myScore' = [myScore EXCEPT ![d] = 0]
    BY DEF Restarts, LinkReset, LinkEnds, G!Restart
  <1>2. \A x \in Context : NoCalls[x].op # "set_score"
    BY ScoreFacts DEF NoCalls
  <1>3. QED
    BY <1>1, <1>2, ScoreFacts DEF CallInv, KeptInv, WroteInv

-----------------------------------------------------------------------------
(***************************************************************************)
(* The invariant.                                                          *)
(***************************************************************************)
\* Both devices have just been powered on.
LEMMA MatchInvInit == MatchInit => MatchInv
  <1> SUFFICES ASSUME MatchInit PROVE MatchInv
    OBVIOUS
  <1>1. IInv
    BY InvInit DEF MatchInit
  <1>2. GameTypes
    <2>1. 0 \in Score
      BY MaxScoreAssumption DEF Score
    <2>2. QED
      BY <2>1 DEF MatchInit, GameTypes, G!GameState, G!PowerOnMain, G!MainPc
  <1>3. /\ call = [d \in Device |-> NoCalls] /\ \A c \in Context : NoCalls[c].op # "set_score"
        /\ linkUp = FALSE /\ sending = [d \in Device |-> {}]
        /\ main = [d \in Device |-> G!PowerOnMain] /\ G!PowerOnMain.pc = "loop"
    BY Calls DEF MatchInit, SessionInit, LinkInit, NoCalls, G!PowerOnMain
  <1>4. \A d \in Device : ResetInv(d) /\ CallInv(d)
    BY <1>3 DEF ResetInv, CallInv, Resetting, Context
  <1>5. KeptInv /\ WroteInv
    BY <1>3, RolesAssumption DEF KeptInv, WroteInv
  <1>6. QED
    BY <1>1, <1>2, <1>4, <1>5 DEF MatchInv

\* A step of one device keeps the other's ResetInv as well.
LEMMA AllReset ==
    ASSUME MatchInv, NEW d \in Device, ResetInv(d)',
           \/ \E expired \in BOOLEAN : G!MainStep(d, expired)
           \/ G!Button(d) \/ G!Restart(d)
           \/ \E s : G!SetStateFromPeer(d, s)
           \/ UNCHANGED gameVars /\ (UNCHANGED call \/ \E c \in Context : Return(d, c))
    PROVE  \A e \in Device : ResetInv(e)'
  <1> SUFFICES ASSUME NEW e \in Device, e # d PROVE ResetInv(e)'
    OBVIOUS
  <1>1. UNCHANGED <<gameState[e], main[e], call[e]>>
    BY OtherGame
  <1>2. QED
    BY <1>1, ScoreFacts DEF ResetInv

\* The services change no variable of the games but the calls.
LEMMA ServesCalls ==
    ASSUME NEW d \in Device, Serves(d)
    PROVE  UNCHANGED call \/ \E c \in Context : Return(d, c)
  <1>1. CASE Interrupt(d)
    BY <1>1, InterruptFrame
  <1>2. ASSUME NEW c \in Context, CallChecks(d, c)
        PROVE  UNCHANGED call \/ Return(d, c)
    BY <1>2 DEF CallChecks
  <1>3. ASSUME NEW c \in Context, Publishes(d, c)
        PROVE  UNCHANGED call \/ Return(d, c)
    BY <1>3 DEF Publishes, Send, SendIndication, DropIndication, SendWrite, SendFaults, SendEnds
  <1>4. QED
    BY <1>1, <1>2, <1>3 DEF Serves

\* Every step of the match keeps the invariant.
LEMMA MatchInvStep ==
    ASSUME MatchInv, [MatchNext]_matchVars
    PROVE  MatchInv'
  <1> DEFINE Scored == (\A e \in Device : CallInv(e)') /\ KeptInv' /\ WroteInv'
             Reset == \A e \in Device : ResetInv(e)'
  <1>1. IInv'
    <2>1. IInv /\ [SessionNext]_sessionVars
      BY SessionAllows DEF MatchInv
    <2>2. QED
      BY <2>1, InvStep
  <1>2. ASSUME UNCHANGED gameVars, UNCHANGED call
        PROVE  GameTypes' /\ Reset
    <2>1. GameTypes'
      BY <1>2, RolesAssumption, OtherTypes
    <2>2. Reset
      BY <1>2, ScoreFacts DEF ResetInv, gameVars
    <2>3. QED
      BY <2>1, <2>2
  <1>3. CASE (NewLink \/ ((LinkLoss \/ Stack) /\ UNCHANGED history)) /\ UNCHANGED gameVars
    <2>1. /\ UNCHANGED <<call, sending, serverScore, myScore>>
          /\ \/ UNCHANGED <<linkUp, told, written>>
             \/ ~linkUp'
             \/ told' = FALSE /\ written' = Nothing
      BY <1>3 DEF NewLink, Connect, LinkLoss, LinkEnds, Stack, ServerReceives, AsksForSysAttr,
         ClientReceives, appVars, stackVars, history, gameVars
    <2>2. Scored
      BY <2>1, ScoreFrame
    <2>3. QED
      BY <1>1, <1>2, <1>3, <2>1, <2>2 DEF MatchInv
  <1>4. ASSUME NEW s \in IndicatedState, Indicates(s)
        PROVE  MatchInv'
    <2>1. Client \in Device /\ G!SetStateFromPeer(Client, s) /\ Interrupt(Client)
      <3>1. Head(events[Client]).type = "hvx"
        BY <1>4 DEF Indicates, ClientGameState, Handles
      <3>2. QED
        BY <1>4, <3>1, RolesAssumption DEF Indicates, Interrupt, history
    <2>2. UNCHANGED <<call, sending, serverScore, linkUp, told, written, myScore>>
      BY <2>1, InterruptFrame DEF G!SetStateFromPeer
    <2>3. GameTypes' /\ ResetInv(Client)'
      BY <2>1, OtherTypes, OtherResets
    <2>4. Reset
      BY <2>1, <2>3, AllReset
    <2>5. Scored
      BY <2>2, ScoreFrame
    <2>6. QED
      BY <1>1, <2>3, <2>4, <2>5 DEF MatchInv
  <1>5. ASSUME NEW d \in Device, Turn(d) \/ Press(d)
        PROVE  MatchInv'
    <2>1. (\E expired \in BOOLEAN : G!MainStep(d, expired)) \/ G!Button(d)
      BY <1>5 DEF Turn, Press
    <2>2. GameTypes' /\ ResetInv(d)'
      BY <2>1, MainTypes, OtherTypes, MainResets, OtherResets
    <2>3. Reset
      BY <2>1, <2>2, AllReset
    <2>4. Scored
      BY <1>5, GameActs, ActsScores DEF Turn, Press
    <2>5. QED
      BY <1>1, <2>2, <2>3, <2>4 DEF MatchInv
  <1>6. ASSUME NEW d \in Device, Serves(d)
        PROVE  MatchInv'
    <2>1. UNCHANGED gameVars /\ (UNCHANGED call \/ \E c \in Context : Return(d, c))
      BY <1>6, ServesCalls DEF Serves
    <2>2. GameTypes'
      BY <2>1, OtherTypes
    <2>3. Reset
      <3>1. CASE UNCHANGED call
        BY <1>2, <2>1, <3>1
      <3>2. CASE \E c \in Context : Return(d, c)
        BY <2>1, <3>2, OtherResets, AllReset
      <3>3. QED
        BY <2>1, <3>1, <3>2
    <2>4. Scored
      <3>1. CASE Interrupt(d)
        BY <2>1, <3>1, InterruptFrame, ScoreFrame DEF gameVars
      <3>2. ASSUME NEW c \in Context, CallChecks(d, c) /\ UNCHANGED history
            PROVE  Scored
        BY <2>1, <3>2, ChecksScores
      <3>3. ASSUME NEW c \in Context, Publishes(d, c)
            PROVE  Scored
        BY <2>1, <3>3, PublishesScores
      <3>4. QED
        BY <1>6, <3>1, <3>2, <3>3 DEF Serves
    <2>5. QED
      BY <1>1, <2>2, <2>3, <2>4 DEF MatchInv
  <1>7. ASSUME NEW d \in Device, Restarts(d)
        PROVE  MatchInv'
    <2>1. G!Restart(d)
      BY <1>7 DEF Restarts
    <2>2. GameTypes' /\ Reset
      BY <2>1, OtherTypes, OtherResets, AllReset
    <2>3. QED
      BY <1>1, <1>7, <2>2, RestartScores DEF MatchInv
  <1>8. CASE UNCHANGED matchVars
    <2>1. /\ UNCHANGED gameVars
          /\ UNCHANGED <<call, sending, serverScore, myScore, linkUp, told, written>>
      BY <1>8 DEF matchVars, sessionVars, linkVars, appVars, stackVars, history, gameVars
    <2>2. Scored
      BY <2>1, ScoreFrame
    <2>3. QED
      BY <1>1, <1>2, <2>1, <2>2 DEF MatchInv
  <1>9. QED
    BY <1>3, <1>4, <1>5, <1>6, <1>7, <1>8 DEF MatchNext

\* Every reachable state of the match satisfies the invariant.
THEOREM MatchInvariant == MatchSpec => []MatchInv
  <1>1. MatchInit => MatchInv
    BY MatchInvInit
  <1>2. MatchInv /\ [MatchNext]_matchVars => MatchInv'
    BY MatchInvStep
  <1>3. QED
    BY <1>1, <1>2, PTL DEF MatchSpec

\* The two games make their calls in the orders that Session allows: the link of
\* a match is a Session, and what was proved of Session holds of it.
THEOREM MatchIsSession == MatchSpec => SessionInit /\ ImplementsSession
  <1>1. MatchInit => SessionInit
    BY DEF MatchInit
  <1>2. MatchInv /\ [MatchNext]_matchVars => [SessionNext]_sessionVars
    BY SessionAllows
  <1>3. QED
    BY <1>1, <1>2, MatchInvariant, PTL DEF MatchSpec, ImplementsSession

\* Once a score was published on this link and nothing is under way, each service
\* layer holds the score of the other device's game (service_client.c:144,
\* service_server.c:406).
THEOREM ScoresArrive == MatchSpec => []ScoresReachOpponent
  <1>1. ASSUME MatchInv, Quiet, \A d \in Device : call[d] = NoCalls
        PROVE  /\ told => PeerScore[Client] = myScore[Server]
               /\ written # Nothing => PeerScore[Server] = myScore[Client]
    <2>1. \A d \in Device : \A c \in Context : call[d][c].op # "set_score"
      BY <1>1, ScoreFacts DEF NoCalls
    <2>2. ~Publishing(Server) /\ ~Publishing(Client)
      BY <2>1, RolesAssumption DEF Publishing
    <2>3. QuietMeansAgreed
      BY <1>1, QuietAgreed DEF MatchInv
    <2>4. told => serverScore = myScore[Server]
      BY <1>1, <2>1, ScoreFacts DEF KeptInv, Quiet
    <2>5. written # Nothing => written = myScore[Client]
      BY <1>1, <2>2, ScoreFacts DEF WroteInv, Quiet
    <2>6. PeerScore[Client] = serverScoreView /\ PeerScore[Server] = clientScore
      BY RolesAssumption DEF PeerScore
    <2>7. QED
      BY <1>1, <2>2, <2>3, <2>4, <2>5, <2>6 DEF QuietMeansAgreed
  <1>2. MatchInv => ScoresReachOpponent
    BY <1>1 DEF ScoresReachOpponent
  <1>3. QED
    BY <1>2, MatchInvariant, PTL

\* In a match as in any session no send spins for nothing, no score is lost on its
\* way and every attribute is read.
THEOREM LinkOfMatch ==
    MatchSpec => []BusyIsBacked /\ []QuietMeansAgreed /\ []ChainIsRead
  BY MatchIsSession, BusyBacked, QuietAgreement, ChainRead, PTL DEF SessionSpec, ImplementsSession

-----------------------------------------------------------------------------
(***************************************************************************)
(* The link tells the games what Game allows.                              *)
(***************************************************************************)
\* What Game sees of the service layers follows four of their variables.
LEMMA ServiceFrame ==
    ASSUME UNCHANGED <<serverState, clientState, clientScore, serverScoreView>>
    PROVE  UNCHANGED G!serviceVars
  BY DEF G!serviceVars, Role, PeerScore, CanBe

\* The games keep their variables, and the service layers theirs.
LEMMA GameFrame ==
    ASSUME UNCHANGED gameVars, UNCHANGED call,
           UNCHANGED <<serverState, clientState, clientScore, serverScoreView>>
    PROVE  UNCHANGED G!vars
  BY ServiceFrame DEF gameVars, G!vars, G!gameVars

\* A link that comes or goes, or a stack that works, is not seen by a game yet.
LEMMA LinkUnseen ==
    ASSUME (NewLink \/ ((LinkLoss \/ Stack) /\ UNCHANGED history)) /\ UNCHANGED gameVars
    PROVE  UNCHANGED G!vars
  <1>1. UNCHANGED <<appVars, call>>
    BY DEF NewLink, Connect, LinkLoss, Stack, ServerReceives, AsksForSysAttr, ClientReceives
  <1>2. QED
    BY <1>1, GameFrame DEF appVars

\* A step of game_tasks or a press is one in Game.
LEMMA GameSteps ==
    ASSUME NEW d \in Device, Turn(d) \/ Press(d)
    PROVE  G!Next
  <1>1. UNCHANGED G!serviceVars
    BY ServiceFrame DEF Turn, Press, linkVars, appVars
  <1>2. \E expired \in BOOLEAN : G!MainStep(d, expired) \/ G!Button(d)
    BY DEF Turn, Press
  <1>3. QED
    BY <1>1, <1>2 DEF G!Next, G!GameStep

\* An indication sets a state only on a device that is the client.
LEMMA IndicationAllowed ==
    ASSUME MatchInv, NEW s \in IndicatedState, Indicates(s)
    PROVE  G!Next
  <1>1. /\ Handles(Client, "hvx") /\ UNCHANGED appVars /\ G!SetStateFromPeer(Client, s)
        /\ IInv /\ Client \in Device /\ Server # Client
    BY RolesAssumption DEF Indicates, ClientGameState, MatchInv
  <1>2. clientState = "CONNECTED"
    <2>1. /\ events[Client] \in Seq(Event) /\ events[Client] # <<>>
          /\ Head(events[Client]) \in Event /\ Head(events[Client]).type = "hvx"
      BY <1>1, Handled
    <2>2. ~Only(events[Client], None({"hvx"}))
      BY <2>1, OnlyTail DEF None
    <2>3. QED
      BY <1>1, <2>2 DEF IInv, EnabledInv
  <1>3. Role[Client] = "client"
    BY <1>1, <1>2 DEF Role
  <1>4. UNCHANGED G!serviceVars
    BY <1>1, ServiceFrame DEF appVars
  <1>5. s \in G!IndicatedState /\ TRUE \in BOOLEAN
    BY DEF IndicatedState, G!IndicatedState
  <1>6. G!PeerIndication(Client)
    BY <1>1, <1>3, <1>5 DEF G!PeerIndication
  <1>7. QED
    BY <1>1, <1>4, <1>5, <1>6 DEF G!Next, G!GameStep

\* What a service layer changes of what the game of its device sees.
LEMMA LinkChanges ==
    ASSUME IInv, IInv', NEW d \in Device,
           IF d = Server THEN UNCHANGED <<clientState, serverScoreView>>
           ELSE UNCHANGED <<serverState, clientScore>>
    PROVE  /\ \E r \in CanBe[d] \union {"none"} : Role' = [Role EXCEPT ![d] = r]
           /\ \E s \in Score : PeerScore' = [PeerScore EXCEPT ![d] = s]
           /\ UNCHANGED CanBe
  <1>1. /\ Server # Client /\ Device = {Server, Client}
        /\ clientScore' \in Score /\ serverScoreView' \in Score
    BY RolesAssumption DEF IInv, Types
  <1>2. CASE d = Server
    <2>1. Role' = [Role EXCEPT ![d] = IF serverState' = "CONNECTED" THEN "server" ELSE "none"]
      BY <1>1, <1>2 DEF Role
    <2>2. PeerScore' = [PeerScore EXCEPT ![d] = clientScore']
      BY <1>1, <1>2 DEF PeerScore
    <2>3. CanBe[d] = {"server"} /\ UNCHANGED CanBe
      BY <1>2 DEF CanBe
    <2>4. QED
      BY <1>1, <2>1, <2>2, <2>3
  <1>3. CASE d # Server
    <2>1. Role' = [Role EXCEPT ![d] = IF clientState' = "CONNECTED" THEN "client" ELSE "none"]
      BY <1>1, <1>3 DEF Role
    <2>2. PeerScore' = [PeerScore EXCEPT ![d] = serverScoreView']
      BY <1>1, <1>3 DEF PeerScore
    <2>3. CanBe[d] = {"client"} /\ UNCHANGED CanBe
      BY <1>3 DEF CanBe
    <2>4. QED
      BY <1>1, <2>1, <2>2, <2>3
  <1>4. QED
    BY <1>2, <1>3

\* Every other BLE event gives or takes the role of its device, or brings a score.
LEMMA EventAllowed ==
    ASSUME IInv, IInv', NEW d \in Device, Interrupt(d), d = Client => ClientInterrupt,
           UNCHANGED gameVars
    PROVE  G!Next
  <1>1. UNCHANGED call
    BY InterruptFrame
  <1>2. Server # Client /\ Device = {Server, Client}
    BY RolesAssumption
  <1>3. /\ InterruptIdle(d)
        /\ IF d = Server THEN UNCHANGED <<clientState, serverScoreView>>
           ELSE UNCHANGED <<serverState, clientScore>>
    <2>1. CASE d = Server
      <3>1. ServerInterrupt
        BY <2>1 DEF Interrupt
      <3>2. QED
        BY <1>2, <2>1, <3>1 DEF ServerInterrupt, ServerConnected, Disconnected, ServerRead,
           ServerWrite, ServerSysAttrMissing, Handles
    <2>2. CASE d = Client
      BY <1>2, <2>2 DEF ClientInterrupt, ClientConnected, Disconnected, ClientDiscovered,
         ClientReadInfo, ClientRead, ClientScore, Handles, appVars
    <2>3. QED
      BY <1>2, <2>1, <2>2
  <1>4. /\ \E r \in CanBe[d] \union {"none"} : Role' = [Role EXCEPT ![d] = r]
        /\ \E s \in Score : PeerScore' = [PeerScore EXCEPT ![d] = s]
        /\ UNCHANGED CanBe
    BY <1>3, LinkChanges
  <1>5. G!LinkEvent(d) /\ UNCHANGED G!gameVars
    BY <1>1, <1>3, <1>4, SameCalls DEF G!LinkEvent, G!gameVars, gameVars
  <1>6. QED
    BY <1>5 DEF G!Next

\* A call goes on unseen, or returns.
LEMMA CallAllowed ==
    ASSUME IInv, NEW d \in Device, NEW c \in Context,
           CallChecks(d, c) \/ Publishes(d, c), UNCHANGED gameVars
    PROVE  [G!Next]_(G!vars)
  <1>1. UNCHANGED <<serverState, clientState, clientScore, serverScoreView>>
    BY DEF CallChecks, Publishes, Send, SendIndication, DropIndication, SendWrite, SendFaults,
       SendEnds
  <1>2. ContextRuns(d, c) /\ call[d][c] # NoCall
    <2>1. CASE CallChecks(d, c)
      BY <2>1 DEF CallChecks
    <2>2. CASE Publishes(d, c)
      <3>1. ContextRuns(d, c) /\ c \in sending[d]
        BY <2>2 DEF Publishes, Send, SendIndication, DropIndication, SendWrite, SendFaults, Sends
      <3>2. QED
        BY <3>1 DEF IInv, StateInv
    <2>3. QED
      BY <2>1, <2>2
  <1>3. UNCHANGED call \/ Return(d, c)
    BY DEF CallChecks, Publishes, Send, SendIndication, DropIndication, SendWrite, SendFaults,
       SendEnds
  <1>4. CASE UNCHANGED call
    BY <1>1, <1>4, GameFrame
  <1>5. CASE Return(d, c)
    <2>1. UNCHANGED G!serviceVars
      BY <1>1, ServiceFrame
    <2>2. G!ServiceReturns(d, c)
      BY <1>2, <1>5, SameCalls DEF G!ServiceReturns, G!ContextRuns, ContextRuns, G!Return, Return,
         gameVars
    <2>3. c \in G!Context /\ TRUE \in BOOLEAN
      BY DEF Context, G!Context
    <2>4. QED
      BY <2>1, <2>2, <2>3 DEF G!Next, G!GameStep
  <1>6. QED
    BY <1>3, <1>4, <1>5

\* A reset of a device is one in Game, with the role its button gives it again.
LEMMA RestartAllowed ==
    ASSUME NEW d \in Device, Restarts(d)
    PROVE  G!Next
  <1>1. G!Restart(d) /\ LinkReset(d) /\ Server # Client /\ Device = {Server, Client}
    BY RolesAssumption DEF Restarts
  <1>2. CanBe' = [CanBe EXCEPT ![d] = CanBe[d]] /\ CanBe[d] \in SUBSET G!Role
    BY DEF CanBe, G!Role
  <1>3. Role' = [Role EXCEPT ![d] = "none"]
    BY <1>1 DEF Role, LinkReset
  <1>4. PeerScore' = [PeerScore EXCEPT ![d] = 0]
    BY <1>1 DEF PeerScore, LinkReset
  <1>5. QED
    BY <1>1, <1>2, <1>3, <1>4 DEF G!Next, G!Reset

\* At power on nothing is connected.
LEMMA GameInit == MatchInit => G!Init
  <1> SUFFICES ASSUME MatchInit PROVE G!Init
    OBVIOUS
  <1>1. /\ call = [d \in Device |-> G!NoCalls]
        /\ serverState = "READY" /\ clientState = "READY"
        /\ clientScore = 0 /\ serverScoreView = 0
    BY DEF MatchInit, SessionInit, LinkInit, NoCalls, G!NoCalls, NoCall, G!NoCall,
       Context, G!Context
  <1>2. CanBe \in [Device -> SUBSET G!Role]
    BY DEF CanBe, G!Role
  <1>3. Role = [d \in Device |-> "none"] /\ PeerScore = [d \in Device |-> 0]
    BY <1>1 DEF Role, PeerScore
  <1>4. QED
    BY <1>1, <1>2, <1>3 DEF MatchInit, G!Init

\* Whatever the link does, each game only meets what Game allows: the match
\* implements Game, and what was proved of Game holds of both devices.
THEOREM MatchIsGame == MatchSpec => G!Init /\ ImplementsGame
  <1>1. MatchInit => G!Init
    BY GameInit
  <1>2. ASSUME MatchInv, MatchInv', [MatchNext]_matchVars
        PROVE  [G!Next]_(G!vars)
    <2>1. IInv /\ IInv'
      BY <1>2 DEF MatchInv
    <2>2. ASSUME NEW d \in Device, Serves(d)
          PROVE  [G!Next]_(G!vars)
      <3>1. UNCHANGED gameVars
        BY <2>2 DEF Serves
      <3>2. CASE Interrupt(d) /\ (d = Client => ClientInterrupt)
        BY <2>1, <3>1, <3>2, EventAllowed
      <3>3. ASSUME NEW c \in Context, CallChecks(d, c) \/ Publishes(d, c)
            PROVE  [G!Next]_(G!vars)
        BY <2>1, <3>1, <3>3, CallAllowed
      <3>4. QED
        BY <2>2, <3>2, <3>3 DEF Serves
    <2>3. CASE UNCHANGED matchVars
      BY <2>3, GameFrame DEF matchVars, sessionVars, linkVars, appVars
    <2>4. QED
      BY <1>2, <2>2, <2>3, LinkUnseen, IndicationAllowed, GameSteps, RestartAllowed DEF MatchNext
  <1>3. MatchInv /\ MatchInv' /\ [MatchNext]_matchVars => [G!Next]_(G!vars)
    BY <1>2
  <1>4. QED
    BY <1>1, <1>3, MatchInvariant, PTL DEF MatchSpec, ImplementsGame
=============================================================================
