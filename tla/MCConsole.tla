----------------------------- MODULE MCConsole -----------------------------
(* Console for TLC: two commands over an alphabet of two letters and CR.    *)
EXTENDS Console

CONSTANTS a, b

MCCommands == {<<a, CR>>, <<b, a, CR>>}
=============================================================================
