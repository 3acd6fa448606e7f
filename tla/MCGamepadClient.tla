--------------------------- MODULE MCGamepadClient ---------------------------
(* Constants of GamepadClient for TLC. *)
EXTENDS ClientRefinement

CONSTANTS d1, b1

OneDevice == {d1}
OneControl == {b1}
Bits == {0, 1}
=============================================================================
