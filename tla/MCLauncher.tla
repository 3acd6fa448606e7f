------------------------------ MODULE MCLauncher ------------------------------
(* Constants of Launcher for TLC. *)
EXTENDS Launcher

CONSTANTS s1, s2, b1, b2, b3

TwoStarters == {s1, s2}
ThreeBridges == {b1, b2, b3}
=============================================================================
