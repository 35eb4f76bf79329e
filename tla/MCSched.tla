------------------------------- MODULE MCSched ------------------------------
(* Instances of Sched for TLC.                                             *)
EXTENDS Sched

CONSTANTS w1, w2, w3

Workers3    == {w1, w2, w3}
KinitOnly   == {Kinit}
OneWorker   == {w1}
NoThreads   == {}
=============================================================================
