------------------------------ MODULE MCShell ------------------------------
(* Two messages for example 5, and the padding after them.                  *)
EXTENDS Shell

MCMessages == <<"DATA", "STOP", "padding">>
===========================================================================
