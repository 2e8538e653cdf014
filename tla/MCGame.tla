------------------------------- MODULE MCGame -------------------------------
(* One device: Game's devices do not interact, so one shows every behaviour. *)
EXTENDS Game
=============================================================================
