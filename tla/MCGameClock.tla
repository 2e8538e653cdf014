---------------------------- MODULE MCGameClock -----------------------------
(* One device, as Game's devices do not interact.  To keep the state space of *)
(* three stamps small it has no opponent here (its calls may still hang); the *)
(* run of Game itself has the link's events.                                  *)
EXTENDS GameClock

MCInit == ClockInit /\ canBe = [d \in Device |-> {}]
MCNext == ClockNext /\ UNCHANGED <<canBe, peerScore>>
MCSpec == MCInit /\ [][MCNext]_allVars /\ Fairness
=============================================================================
