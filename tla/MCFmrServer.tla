----------------------------- MODULE MCFmrServer -----------------------------
(***************************************************************************)
(* A virtual device with three images, two of them of the same name, one   *)
(* with a state and one without functions, and packets of every class,     *)
(* with indices below, at and past the end of the list and of the table.   *)
(***************************************************************************)
EXTENDS FmrServer

CONSTANTS dac, test, other

MCNames == {dac, test, other}

MCImages ==
    <<[name |-> dac,   idx |-> UINT16_MAX, length |-> 1, state |-> "none"],
      [name |-> test,  idx |-> UINT16_MAX, length |-> 2, state |-> "initial"],
      [name |-> dac,   idx |-> UINT16_MAX, length |-> 2, state |-> "initial"],
      [name |-> other, idx |-> UINT16_MAX, length |-> 0, state |-> "none"]>>

MCInputs ==
    [magic : BOOLEAN, crc : BOOLEAN, type : Classes \cup {UnknownClass},
     module : {0, 2, 3}, function : {0, 1}, args : Carried]
==============================================================================
