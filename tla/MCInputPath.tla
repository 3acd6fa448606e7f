----------------------------- MODULE MCInputPath -----------------------------
(* One stick, one trigger and every button, at most three held at once. *)
EXTENDS InputPath

MCMovedAxes == {0, 4}
MCRawValues == {-40000, 0, 100, 32767}
MCButtons == 1..17         \* 17 is out of the range the bridge looks at
=============================================================================
