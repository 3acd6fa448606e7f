------------------------------ MODULE MCUdevFake ------------------------------
(* Constants of UdevFake for TLC: a controller of each profile, one of them   *)
(* without a name and with a vendor of more than 16 bits.                     *)
EXTENDS UdevFake

MCDevices ==
  {[mode |-> "xinput", vendor |-> 66654, product |-> 654, name |-> ""],
   [mode |-> "dinput", vendor |-> 1118, product |-> 654, name |-> "pad"]}
=============================================================================
