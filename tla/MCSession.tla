----------------------------- MODULE MCSession ------------------------------
(***************************************************************************)
(* Session with a bounded number of game calls, link losses and resets, so  *)
(* that the state space is finite and small; the links themselves are made  *)
(* as often as the losses allow.                                            *)
(***************************************************************************)
EXTENDS Session

CONSTANTS MaxCalls, MaxLosses

VARIABLES calls, losses    \* how many there were

MCInit == SessionInit /\ calls = 0 /\ losses = 0

MCNext ==
    /\ SessionNext
    /\ calls' = IF \E d \in Device, c \in Context : call[d][c] = NoCall /\ call'[d][c] # NoCall
                THEN calls + 1 ELSE calls
    /\ losses' = IF (linkUp /\ ~linkUp') \/ (\E d \in Device : fault[d] /\ ~fault'[d])
                 THEN losses + 1 ELSE losses
    /\ calls' <= MaxCalls /\ losses' <= MaxLosses

MCSpec == MCInit /\ [][MCNext]_<<sessionVars, calls, losses>>
FairMCSpec == MCSpec /\ SessionFairness
=============================================================================
