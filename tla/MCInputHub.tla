---------------------------- MODULE MCInputHub ----------------------------
(* Small instances of InputHub: event 2 is a button, the others are not.   *)
EXTENDS InputHub
MCButtons == {2}
=============================================================================
