---------------------------- MODULE MCFmrExchange ----------------------------
(***************************************************************************)
(* Two hosts and a device with two modules.  The value 65535, which a      *)
(* function may return, is also the index that dyld_register replaces.     *)
(***************************************************************************)
EXTENDS FmrRefinement

CONSTANTS dac, test

MCNames == {dac, test}
MCImages ==
    <<[name |-> dac,  idx |-> UINT16_MAX, length |-> 1, state |-> "none"],
      [name |-> test, idx |-> UINT16_MAX, length |-> 1, state |-> "none"]>>
==============================================================================
