------------------------------- MODULE MCKtime ------------------------------
(* Instances of Ktime for TLC: small words, a second of a few nanoseconds. *)
EXTENDS Ktime

CONSTANTS t1, t2, Tsc

TwoThreads == {t1, t2}
T1Only     == {t1}
TwoClocks  == {Jiffy, Tsc}

FreqOf   == [c \in Clocks |-> IF c = Jiffy THEN 2 ELSE 3]
RatingOf == [c \in Clocks |-> IF c = Jiffy THEN 1 ELSE 350]
=============================================================================
