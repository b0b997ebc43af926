------------------------------- MODULE MCShell -------------------------------
(* Two commands, one the start of the other. *)
EXTENDS Shell

MCExit == <<"X", "E">>
MCExec == <<"X">>
=============================================================================
