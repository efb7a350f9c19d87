----------------------------- MODULE Sam4sBoot -----------------------------
(***************************************************************************)
(* main() of the ATSAM4S firmware up to its first read of uart0: the       *)
(* oscillator, PLLB and the master clock MCK, then dac_configure(), which  *)
(* moves MCK to PLLA with the functions of the ASF power management        *)
(* driver (pmc.c) and sets the converter up (dacc.c).  The clocks change   *)
(* some time after they are told to, and almost every wait for them gives  *)
(* up after a number of polls and goes on as if they had.                  *)
(*                                                                         *)
(* main() ends in uart0_read(): uart0_configure() and the modules that     *)
(* would let the receiver get anything are commented out in this tree, so  *)
(* the read never returns and neither the UART interrupt nor the scheduler *)
(* is started.                                                             *)
(***************************************************************************)
EXTENDS Naturals

VARIABLES
    pc,       \* the statement of main() or dac_configure() that is next
    pmc,      \* the clock controller
    dacc,     \* the converter: what has been switched on
    late      \* history: the waits that gave up

bootVars == <<pc, pmc, dacc, late>>

\* pmc is the clock controller: the crystal, the source of the main clock and
\* whether it is in force (MOSCSELS), the source css and prescaler pres that
\* MCKR asks for, the source mck that is in force once MCKRDY is set, and the
\* two PLLs.

\* After a reset MCK is the main clock, from the RC oscillator, or from the
\* crystal if what ran before main() has selected it, which main() tests.
BootInit ==
    /\ pc = "moscsel"
    /\ \E x \in BOOLEAN :
           pmc = [xtal |-> IF x THEN "on" ELSE "off", moscsel |-> IF x THEN "xtal" ELSE "rc",
                  moscsels |-> TRUE, css |-> "main", pres |-> 1, mck |-> "main",
                  mckrdy |-> TRUE, plla |-> "off", pllb |-> "off"]
    /\ dacc = {}
    /\ late = {}

-----------------------------------------------------------------------------
(***************************************************************************)
(* The program.                                                            *)
(***************************************************************************)
Steps(from, to) == pc = from /\ pc' = to

\* A register of the clock controller is written.
Writes(from, to, new) == Steps(from, to) /\ pmc' = new /\ UNCHANGED <<dacc, late>>

\* A wait that ends when c holds, or gives up and goes on at out.
WaitOr(from, c, to, out) ==
    /\ \/ c /\ Steps(from, to) /\ UNCHANGED late
       \/ ~c /\ Steps(from, out) /\ late' = late \union {from}
    /\ UNCHANGED <<pmc, dacc>>

\* PMC_MCKR is written; MCKRDY falls when that changes anything.
Mckr(css, pres) ==
    [pmc EXCEPT !.css = css, !.pres = pres,
                !.mckrdy = @ /\ css = pmc.css /\ pres = pmc.pres]

\* The crystal is started unless it is already the source of the main clock.
Oscillator ==
    \/ pmc.moscsel = "xtal" /\ Writes("moscsel", "select", pmc)
    \/ pmc.moscsel = "rc" /\ Writes("moscsel", "moscxts", [pmc EXCEPT !.xtal = "starting"])
    \/ WaitOr("moscxts", pmc.xtal = "on", "select", "select")

\* The crystal becomes the source of the main clock, and that of MCK.
MainClock ==
    \/ Writes("select", "moscsels",
              [pmc EXCEPT !.moscsel = "xtal", !.moscsels = @ /\ pmc.moscsel = "xtal"])
    \/ WaitOr("moscsels", pmc.moscsels, "css_main", "css_main")
    \/ Writes("css_main", "mckrdy1", Mckr("main", pmc.pres))
    \/ WaitOr("mckrdy1", pmc.mckrdy, "pllbr", "pllbr")

\* A careless main() that does not wait for PLLB.
PllB_Unlocked ==
    \/ Writes("pllbr", "pres1", [pmc EXCEPT !.pllb = "locking"])
    \/ Writes("pres1", "mckrdy2", Mckr("main", 1))
    \/ WaitOr("mckrdy2", pmc.mckrdy, "css_pllb", "css_pllb")
    \/ Writes("css_pllb", "mckrdy3", Mckr("pllb", 1))
    \/ WaitOr("mckrdy3", pmc.mckrdy, "plla_off", "plla_off")

\* PLLB is started, and becomes the source of MCK once the prescaler is set.
PllB ==
    \/ Writes("pllbr", "lockb", [pmc EXCEPT !.pllb = "locking"])
    \/ WaitOr("lockb", pmc.pllb = "locked", "pres1", "pres1")
    \/ Writes("pres1", "mckrdy2", Mckr("main", 1))
    \/ WaitOr("mckrdy2", pmc.mckrdy, "css_pllb", "css_pllb")
    \/ Writes("css_pllb", "mckrdy3", Mckr("pllb", 1))
    \/ WaitOr("mckrdy3", pmc.mckrdy, "plla_off", "plla_off")

\* pmc_enable_pllack() switches PLLA off and on again and waits for its lock
\* without a limit, and so does dac_configure() once more.
PllA ==
    \/ Writes("plla_off", "pllar", [pmc EXCEPT !.plla = "off"])
    \/ Writes("pllar", "locka", [pmc EXCEPT !.plla = "locking"])
    \/ /\ pmc.plla = "locked"
       /\ Steps("locka", "pres3")
       /\ UNCHANGED <<pmc, dacc, late>>

\* A careless pmc_switch_mck_to_pllack() that does not wait for the prescaler.
SwitchToPllA_NoWait ==
    \/ Writes("pres3", "css_plla", Mckr(pmc.css, 3))
    \/ Writes("css_plla", "mckrdy5", Mckr("plla", pmc.pres))
    \/ WaitOr("mckrdy5", pmc.mckrdy, "mckrdy6", "mckrdy6")
    \/ WaitOr("mckrdy6", pmc.mckrdy, "clock", "clock")

\* A careless one that overwrites the prescaler with the source.
SwitchToPllA_Overwrites ==
    \/ Writes("pres3", "mckrdy4", Mckr(pmc.css, 3))
    \/ WaitOr("mckrdy4", pmc.mckrdy, "css_plla", "mckrdy6")
    \/ Writes("css_plla", "mckrdy5", Mckr("plla", 1))
    \/ WaitOr("mckrdy5", pmc.mckrdy, "mckrdy6", "mckrdy6")
    \/ WaitOr("mckrdy6", pmc.mckrdy, "clock", "clock")

\* A careless one whose caller waits for MCKRDY without a limit.
SwitchToPllA_Forever ==
    \/ Writes("pres3", "mckrdy4", Mckr(pmc.css, 3))
    \/ WaitOr("mckrdy4", pmc.mckrdy, "css_plla", "mckrdy6")
    \/ Writes("css_plla", "mckrdy5", Mckr("plla", pmc.pres))
    \/ WaitOr("mckrdy5", pmc.mckrdy, "mckrdy6", "mckrdy6")
    \/ WaitOr("mckrdy6", pmc.mckrdy, "clock", "mckrdy6")

\* pmc_switch_mck_to_pllack() returns 1 when one of its waits gives up, after
\* the first without having touched the source; dac_configure() does not look
\* at what it returns.  Its own wait ends when the counter is 0, so that the
\* test inside, which would return lf_error, never holds.
SwitchToPllA ==
    \/ Writes("pres3", "mckrdy4", Mckr(pmc.css, 3))
    \/ WaitOr("mckrdy4", pmc.mckrdy, "css_plla", "mckrdy6")
    \/ Writes("css_plla", "mckrdy5", Mckr("plla", pmc.pres))
    \/ WaitOr("mckrdy5", pmc.mckrdy, "mckrdy6", "mckrdy6")
    \/ WaitOr("mckrdy6", pmc.mckrdy, "clock", "clock")

Programs(from, to, new) == Steps(from, to) /\ dacc' = new /\ UNCHANGED <<pmc, late>>

\* The converter gets its clock, is reset, gets its mode (the channel is
\* chosen by the data, a trigger starts a conversion), and may interrupt.
Converter ==
    \/ Programs("clock", "reset", dacc \union {"clock"})
    \/ Programs("reset", "mode", dacc \intersect {"clock"})
    \/ Programs("mode", "interrupt", dacc \union {"tag", "trigger"})
    \/ Programs("interrupt", "return", dacc \union {"interrupt"})
    \/ Programs("return", "read", dacc)

\* The converter is ready for data, which may be before dac_configure() has
\* returned.  DACC_Handler() is not in the vector table; dac_isr() is, whose only
\* definition is a loop.
DacInterrupt ==
    /\ "interrupt" \in dacc
    /\ Steps("return", "dac_isr") \/ Steps("read", "dac_isr")
    /\ UNCHANGED <<pmc, dacc, late>>

Program == Oscillator \/ MainClock \/ PllB \/ PllA \/ SwitchToPllA \/ Converter

-----------------------------------------------------------------------------
(***************************************************************************)
(* The clocks follow.                                                      *)
(***************************************************************************)
Becomes(new) == pmc' = new /\ UNCHANGED <<pc, dacc, late>>

LockA == pmc.plla = "locking" /\ Becomes([pmc EXCEPT !.plla = "locked"])

Clocks ==
    \/ pmc.xtal = "starting" /\ Becomes([pmc EXCEPT !.xtal = "on"])
    \/ ~pmc.moscsels /\ pmc.xtal = "on" /\ Becomes([pmc EXCEPT !.moscsels = TRUE])
    \/ pmc.pllb = "locking" /\ Becomes([pmc EXCEPT !.pllb = "locked"])
    \/ /\ ~pmc.mckrdy
       /\ pmc.css = "pllb" => pmc.pllb = "locked"
       /\ pmc.css = "plla" => pmc.plla = "locked"
       /\ Becomes([pmc EXCEPT !.mck = pmc.css, !.mckrdy = TRUE])

BootNext == Program \/ DacInterrupt \/ LockA \/ Clocks

BootSpec == BootInit /\ [][BootNext]_bootVars

\* The processor runs and PLLA locks some time; the other clocks need not do
\* what they are told.
FairBootSpec == BootSpec /\ WF_bootVars(Program) /\ WF_bootVars(LockA)

-----------------------------------------------------------------------------
\* MCK is only moved to a PLL that has locked, and its PLL is not stopped under
\* it, unless the wait for PLLB gave up: main() goes on then and asks for an
\* unlocked PLLB (main.c:74-81).
SourceLocked ==
    /\ "plla" \in {pmc.css, pmc.mck} => pmc.plla = "locked"
    /\ "pllb" \in {pmc.css, pmc.mck} => pmc.pllb = "locked" \/ "lockb" \in late

\* PMC_MCKR is never changed while an earlier change of it is under way, unless
\* a wait for MCKRDY gave up (main.c:68-82, pmc.c:232-248).
NoRashSwitch ==
    [][pmc'.css # pmc.css \/ pmc'.pres # pmc.pres
          => pmc.mckrdy \/ late \intersect {"mckrdy1", "mckrdy2", "mckrdy3", "mckrdy4"} # {}]_bootVars

\* dac_configure() gets to its end with MCK at a third of PLLA, which the timing
\* of the converter is computed from, unless one of its own waits gave up: what
\* went wrong in main() before is made good (dac.c:30-43).  Which frequency that
\* is depends on the crystal and is not part of the model.
ConfiguredClock ==
    pc \in {"return", "read", "dac_isr"} /\ late \intersect {"mckrdy4", "mckrdy5", "mckrdy6"} = {}
        => pmc.mck = "plla" /\ pmc.pres = 3 /\ pmc.mckrdy

\* Whatever the oscillator, PLLB and MCKRDY do, main() is not held up by them: it
\* gets to its read, or the converter's interrupt, once enabled, takes it for
\* good.  Only PLLA has to lock (main.c:60-82, dac.c:33, dac.c:76).
BootEnds == <>(pc \in {"read", "dac_isr"})
=============================================================================
