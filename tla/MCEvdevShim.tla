----------------------------- MODULE MCEvdevShim -----------------------------
(* Constants of EvdevShim for TLC. *)
EXTENDS EvdevShim

CONSTANTS t1, t2, b1

OneThread == {t1}
TwoThreads == {t1, t2}
OneControl == {b1}
Bits == {0, 1}
SomeGains == {1, 4}

\* One motor at the negative end, where the absolute value does not fit.
OneEffect == {[type |-> "condition", x |-> -2, y |-> 1]}
=============================================================================
