------------------------------ MODULE MCMatch -------------------------------
(***************************************************************************)
(* Match on one link, with a bounded number of presses, and of link losses  *)
(* and resets together.  Both come only once the session has formed and its *)
(* games wait for a player: MCSession covers losses at every point of its   *)
(* forming, Game presses at every point of a game.                          *)
(***************************************************************************)
EXTENDS Match

CONSTANTS MaxPresses, MaxLosses

VARIABLES presses, losses    \* how many there were

Formed ==
    /\ Quiet /\ cccd = Indicated
    /\ serverState = "CONNECTED" /\ clientState = "CONNECTED"
    /\ \A d \in Device : gameState[d] = "WAITING" /\ main[d].pc = "loop"
HasFormed == presses + losses > 0 \/ Formed

MCInit == MatchInit /\ presses = 0 /\ losses = 0

MCNext ==
    \/ /\ HasFormed /\ presses < MaxPresses
       /\ \E d \in Device : Press(d)
       /\ presses' = presses + 1 /\ UNCHANGED losses
    \/ /\ HasFormed /\ losses < MaxLosses
       /\ \/ \E d \in Device : Restarts(d)
          \/ LinkLoss /\ UNCHANGED <<history, gameVars>>
       /\ losses' = losses + 1 /\ UNCHANGED presses
    \/ /\ \/ NewLink /\ losses = 0 /\ UNCHANGED gameVars
          \/ Stack /\ UNCHANGED <<history, gameVars>>
          \/ \E s \in IndicatedState : Indicates(s)
          \/ \E d \in Device : Turn(d) \/ Serves(d)
       /\ UNCHANGED <<presses, losses>>

MCSpec == MCInit /\ [][MCNext]_<<matchVars, presses, losses>>
=============================================================================
