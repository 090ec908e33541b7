----------------------------- MODULE MCDaemons -----------------------------
(* Two daemons, on one port or on two, and a command. *)
EXTENDS Daemons, TLC

CONSTANTS old, new, command

MCProc == {old, new, command}
MCPort == {(old :> 1 @@ new :> 1), (old :> 1 @@ new :> 2)}
=============================================================================
