----------------------------- MODULE MCInteractive ----------------------------
(* Modes for Interactive. *)
EXTENDS Interactive, TLC

Both == BOOLEAN
Plain == {FALSE}
===============================================================================
