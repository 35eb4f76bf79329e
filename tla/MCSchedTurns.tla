---------------------------- MODULE MCSchedTurns ----------------------------
(* A history variable over Sched: the threads each queued thread has seen  *)
(* dispatched since it last ran itself.                                    *)
EXTENDS MCSched

VARIABLE overtaken

hvars == <<vars, overtaken>>

HInit == Init /\ overtaken = [t \in Queueable |-> {}]

HNext ==
    /\ Next
    /\ overtaken' =
         IF Tick
         THEN [t \in Queueable |->
                 IF t = cpu'.self \/ t \notin added THEN {}
                 ELSE overtaken[t] \cup {cpu'.self}]
         ELSE overtaken

HFairSpec == HInit /\ [][HNext]_hvars /\ Fairness

\* Round robin is strict: between two turns of a queued thread no other
\* thread gets two, although new threads are inserted at the list's head
\* while the cursor rq.current is in its middle.
NoDoubleTurn ==
    [][Tick => \A t \in added \ {cpu'.self} : cpu'.self \notin overtaken[t]]_hvars
=============================================================================
