---------------------------- MODULE ServiceCalls ----------------------------
(***************************************************************************)
(* The interface between game.c and the service layer.  game.c publishes a  *)
(* score or (on a server) a game state by a call that may spin while the    *)
(* radio is busy.  Each device has two contexts that call: the main loop    *)
(* and the interrupt that preempts it.                                      *)
(***************************************************************************)
EXTENDS Naturals

CONSTANTS
    Device,     \* the devices
    MaxScore    \* MAX_SCORE (UINT32_MAX), the score that ends a game at once

ASSUME MaxScoreAssumption == MaxScore \in Nat \ {0}

VARIABLE call   \* per device and context, the call that has not returned

\* The states a server's indication carries (game.c:102 and game.c:119).
IndicatedState == {"INIT", "INITIALIZING_GAME"}

Context == {"main", "isr"}
Score == 0 .. MaxScore

NoCall == [op |-> "none"]
StateCall(s) == [op |-> "indicate_game_state", state |-> s]
ScoreCall(s) == [op |-> "set_score", score |-> s]
Call == {NoCall} \union {StateCall(s) : s \in IndicatedState}
                 \union {ScoreCall(s) : s \in Score}
NoCalls == [c \in Context |-> NoCall]

\* Interrupts of one priority do not preempt each other, and the main loop
\* waits for the one that runs.
InterruptIdle(d) == call[d]["isr"] = NoCall
ContextRuns(d, c) == c = "main" => InterruptIdle(d)
MainRuns(d) == InterruptIdle(d) /\ call[d]["main"] = NoCall

MakeCall(d, c, op) == call' = [call EXCEPT ![d][c] = op]
Return(d, c) == MakeCall(d, c, NoCall)
=============================================================================
