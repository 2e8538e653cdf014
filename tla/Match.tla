------------------------------- MODULE Match --------------------------------
(***************************************************************************)
(* The two devices: Game on each, over the session of ServiceLink.  A call  *)
(* of the game is now carried out by the link, a connection gives the roles,*)
(* and an indication of the server's state reaches the client's             *)
(* game_set_state.  The composition implements both of its parts, as they   *)
(* are specified with the other left open: Game with any service layer, and *)
(* Session with any game.                                                   *)
(***************************************************************************)
EXTENDS Session

VARIABLES gameState, myScore, theirScore, main, water, display    \* as in Game

gameVars == <<gameState, myScore, theirScore, main, water, display>>
matchVars == <<sessionVars, gameVars>>

\* IS_SERVICE_SERVER and IS_SERVICE_CLIENT, and the score the service layer keeps.
Role == [d \in Device |->
            IF d = Server THEN IF serverState = "CONNECTED" THEN "server" ELSE "none"
            ELSE IF clientState = "CONNECTED" THEN "client" ELSE "none"]
PeerScore == [d \in Device |-> IF d = Server THEN clientScore ELSE serverScoreView]
CanBe == [d \in Device |-> IF d = Server THEN {"server"} ELSE {"client"}]

G == INSTANCE Game WITH role <- Role, peerScore <- PeerScore, canBe <- CanBe

MatchInit ==
    /\ SessionInit
    /\ gameState = [d \in Device |-> "INIT"]
    /\ myScore = [d \in Device |-> 0] /\ theirScore = myScore
    /\ main = [d \in Device |-> G!PowerOnMain]
    /\ water = [d \in Device |-> FALSE]
    /\ display = [d \in Device |-> "blank"]

-----------------------------------------------------------------------------
\* The main loop of a device that no failed check has stopped.
Turn(d) ==
    /\ ~fault[d]
    /\ \E expired \in BOOLEAN : G!MainStep(d, expired)
    /\ UNCHANGED <<linkVars, history>>

Press(d) == ~fault[d] /\ G!Button(d) /\ UNCHANGED <<linkVars, history>>

\* A mutant: the indication carries the state at the time it is delivered.
IndicatedNow(s) ==
    /\ ClientGameState(s)
    /\ G!SetStateFromPeer(Client, gameState[Server])
    /\ UNCHANGED history

\* service_client_on_ble_evt hands an indicated state to game_set_state.
Indicates(s) ==
    /\ ClientGameState(s)
    /\ G!SetStateFromPeer(Client, s)
    /\ UNCHANGED history

\* Every other event, and the progress of a call.
Serves(d) ==
    /\ \/ Interrupt(d) /\ (d = Client => ClientInterrupt)
       \/ \E c \in Context : (CallChecks(d, c) /\ UNCHANGED history) \/ Publishes(d, c)
    /\ UNCHANGED gameVars

Restarts(d) == LinkReset(d) /\ G!Restart(d) /\ UNCHANGED history

MatchNext ==
    \/ (NewLink \/ ((LinkLoss \/ Stack) /\ UNCHANGED history)) /\ UNCHANGED gameVars
    \/ \E s \in IndicatedState : Indicates(s)
    \/ \E d \in Device : Turn(d) \/ Press(d) \/ Serves(d) \/ Restarts(d)

MatchSpec == MatchInit /\ [][MatchNext]_matchVars

-----------------------------------------------------------------------------
(***************************************************************************)
(* Properties.                                                             *)
(***************************************************************************)

\* With a real link and a real opponent each device still behaves as Game allows:
\* what holds of Game (fresh games, final verdicts) holds of the match.
ImplementsGame == [][G!Next]_(G!vars)

\* With real games the link still behaves as Session allows: the orders in which
\* game.c makes its calls are those that Session assumes - in particular no
\* interrupt publishes a score while the main loop publishes its reset.
ImplementsSession == [][SessionNext]_sessionVars

\* What a player sees of the opponent is what the opponent has: once a score was
\* published on this link and nothing is under way, the score each service layer
\* keeps is the score of the other device's game.
ScoresReachOpponent ==
    Quiet /\ (\A d \in Device : call[d] = NoCalls) =>
        /\ told => PeerScore[Client] = myScore[Server]
        /\ written # Nothing => PeerScore[Server] = myScore[Client]

=============================================================================
