---------------------------- MODULE MCInterrupt -----------------------------
(* Instances of Interrupt for TLC: the timer on line 0 and two handlers    *)
(* that share line 9 of the second 8259.                                   *)
EXTENDS Interrupt, TLC

CONSTANTS t0, t1, timer, ahci, other

TwoThreads == {t0, t1}
TwoOthers  == {ahci, other}
Wiring == (timer :> 0) @@ (ahci :> 9) @@ (other :> 9)
=============================================================================
