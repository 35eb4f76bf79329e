------------------------------- MODULE Ktime --------------------------------
(***************************************************************************)
(* Time keeping: kernel/time/time.c, tick.c and clocksource.c, with the    *)
(* spinlock of kernel/lock/spinlock.c.                                     *)
(*                                                                         *)
(* kernel_time is updated under kernel_time_lock by any thread that calls  *)
(* ktime_get (printk does) and by the timer interrupt.  The lock is taken  *)
(* with interrupts on; the interrupt handler runs with interrupts off on   *)
(* the same CPU.  ktime_get reads the two words of the time after the      *)
(* lock is released, and time_update_clocksource takes no lock at all.     *)
(***************************************************************************)
EXTENDS Integers, FiniteSets

CONSTANTS
    Threads,    \* the threads that call ktime_get
    Irq,        \* the timer interrupt handler
    Switchers,  \* the threads that also register clock sources
    Clocks,     \* the clock sources
    Jiffy,      \* the default clock source, which counts ticks
    None,       \* the null pointer
    Freq,       \* frequency of each clock source
    Rating,     \* rating of each clock source
    NSEC,       \* NSEC_PER_SEC
    Word,       \* 2^64
    MaxCount    \* bound: how far each hardware counter runs in the model

ASSUME KtimeAssumption ==
    /\ Irq \notin Threads /\ None \notin Clocks
    /\ Switchers \subseteq Threads
    /\ Jiffy \in Clocks
    /\ Freq \in [Clocks -> Nat \ {0}]
    /\ Rating \in [Clocks -> Nat]
    /\ \A c, d \in Clocks : Rating[c] = Rating[d] => c = d
    /\ NSEC \in Nat \ {0} /\ Word \in Nat \ {0} /\ MaxCount \in Nat

Ctx == Threads \cup {Irq}

VARIABLES
    counter,    \* what each clock source's read() returns
    lock,       \* kernel_time_lock
    clock,      \* kernel_time.ts.clock
    read,       \* kernel_time.ts.read, as the clock source it reads
    last,       \* kernel_time.ts.last
    frequency,  \* kernel_time.ts.frequency
    sec, nsec,  \* kernel_time.raw_time
    registered, \* clocksource_list
    current,    \* current_clocksource
    cur,        \* the thread that has the CPU, or that the tick interrupted
    inIrq,      \* is the CPU in the timer interrupt handler?
    booted,     \* has kmain enabled interrupts?
    pc,         \* where each context is
    target,     \* the argument of time_update_clocksource in each thread
    back,       \* where a thread goes when ktime_get returns
    tmp,        \* time_update: now, then offset; ktime_get: the word read first
    seen        \* history: the time when ktime_get read its first word

ts    == <<clock, read, last, frequency>>
raw   == <<sec, nsec>>
csel  == <<registered, current>>
sched == <<cur, inIrq, booted>>
vars  == <<counter, lock, clock, read, last, frequency, sec, nsec, registered, current,
           cur, inIrq, booted, pc, target, back, tmp, seen>>

Critical == {"check", "read", "last", "add", "coalesce", "unlock"}
Getting  == {"sec2", "nsec2"}
Setting  == {"select", "set1", "set2", "set3", "set4"}
PC       == {"idle", "lock", "get", "resched"} \cup Critical \cup Getting \cup Setting

\* The context that executes: interrupts are off inside the handler.
Runs(c) == IF inIrq THEN c = Irq ELSE c = cur

Goto(c, from, to) ==
    /\ Runs(c)
    /\ pc[c] = from
    /\ pc' = [pc EXCEPT ![c] = to]

\* x86_64_init to kmain's time_init: no clock source yet, interrupts off.
Init ==
    /\ counter = [c \in Clocks |-> 0]
    /\ lock = 0
    /\ clock = None /\ read = None /\ last = 0 /\ frequency = 0
    /\ sec = 0 /\ nsec = 0
    /\ registered = {} /\ current = None
    /\ cur \in Threads /\ inIrq = FALSE /\ booted = FALSE
    /\ pc = [c \in Ctx |-> "idle"]
    /\ target = [t \in Threads |-> None]
    /\ back = [t \in Threads |-> "idle"]
    /\ tmp = [c \in Ctx |-> 0]
    /\ seen = [t \in Threads |-> [sec |-> 0, nsec |-> 0]]

-----------------------------------------------------------------------------
(* time_init, with interrupts still off, and the hardware.                 *)

TimeInit ==
    /\ ~booted /\ pc[cur] = "idle"
    /\ clock' = Jiffy /\ read' = Jiffy
    /\ last' = counter[Jiffy] /\ frequency' = Freq[Jiffy]
    /\ sec' = 0 /\ nsec' = 0
    /\ booted' = TRUE
    /\ UNCHANGED <<target, counter, lock, csel, cur, inIrq, pc, back, tmp, seen>>

\* A free-running counter advances; the jiffy counter is jiffy_increase's.
CounterRuns(c) ==
    /\ c # Jiffy
    /\ counter[c] < MaxCount
    /\ counter' = [counter EXCEPT ![c] = (@ + 1) % Word]
    /\ UNCHANGED <<target, lock, ts, raw, csel, sched, pc, back, tmp, seen>>

-----------------------------------------------------------------------------
(* time_update, in a thread or in the interrupt handler.                   *)

\* Mutant: the lock word is stored, not compared and swapped.
SpinlockLock_NoTest(c) ==
    /\ Goto(c, "lock", "check")
    /\ lock' = 1
    /\ UNCHANGED <<target, counter, ts, raw, csel, sched, back, tmp, seen>>

\* spinlock_lock: the compare-and-swap that succeeds.
SpinlockLock(c) ==
    /\ Goto(c, "lock", "check")
    /\ lock = 0
    /\ lock' = 1
    /\ UNCHANGED <<target, counter, ts, raw, csel, sched, back, tmp, seen>>

\* if (!kernel_time.ts.clock) unlock and return.
CheckClock(c) ==
    /\ Goto(c, "check", IF clock = None THEN "unlock" ELSE "read")
    /\ UNCHANGED <<target, counter, lock, ts, raw, csel, sched, back, tmp, seen>>

\* now = kernel_time.ts.read().
ReadClock(c) ==
    /\ Goto(c, "read", "last")
    /\ tmp' = [tmp EXCEPT ![c] = counter[read]]
    /\ UNCHANGED <<target, counter, lock, ts, raw, csel, sched, back, seen>>

SetLast_Kept(c) ==
    /\ Goto(c, "last", "add")
    /\ tmp' = [tmp EXCEPT ![c] = (@ - last) % Word]
    /\ UNCHANGED <<target, counter, lock, ts, raw, csel, sched, back, seen>>

\* offset = now - last, an unsigned difference; last = now.
SetLast(c) ==
    /\ Goto(c, "last", "add")
    /\ tmp' = [tmp EXCEPT ![c] = (@ - last) % Word]
    /\ last' = tmp[c]
    /\ UNCHANGED <<target, counter, lock, clock, read, frequency, raw, csel, sched, back, seen>>

\* time_cycle_to_ns: cycle * NSEC_PER_SEC / frequency in 64 bits.
TimeCycleToNs(cycle, freq) == ((cycle * NSEC) % Word) \div freq

\* tv_nsec += time_cycle_to_ns(offset, frequency).
AddNsec(c) ==
    /\ Goto(c, "add", "coalesce")
    /\ nsec' = nsec + TimeCycleToNs(tmp[c], frequency)
    /\ UNCHANGED <<target, counter, lock, ts, sec, csel, sched, back, tmp, seen>>

\* Mutants: a loop that changes nothing, one that stops a nanosecond late,
\* and one that drops the second it takes off.
Coalesce_NoSubtract(c) ==
    /\ Goto(c, "coalesce", IF nsec >= NSEC THEN "coalesce" ELSE "unlock")
    /\ UNCHANGED <<target, counter, lock, ts, raw, csel, sched, back, tmp, seen>>

Coalesce_Late(c) ==
    /\ Goto(c, "coalesce", IF nsec > NSEC THEN "coalesce" ELSE "unlock")
    /\ IF nsec > NSEC THEN nsec' = nsec - NSEC /\ sec' = sec + 1 ELSE UNCHANGED raw
    /\ UNCHANGED <<target, counter, lock, ts, csel, sched, back, tmp, seen>>

Coalesce_NoCarry(c) ==
    /\ Goto(c, "coalesce", IF nsec >= NSEC THEN "coalesce" ELSE "unlock")
    /\ nsec' = IF nsec >= NSEC THEN nsec - NSEC ELSE nsec
    /\ UNCHANGED <<target, counter, lock, ts, sec, csel, sched, back, tmp, seen>>

\* while (tv_nsec >= NSEC_PER_SEC): one iteration, or the loop's exit.
Coalesce(c) ==
    /\ \/ /\ nsec >= NSEC
          /\ Goto(c, "coalesce", "coalesce")
          /\ nsec' = nsec - NSEC
          /\ sec' = sec + 1
       \/ /\ nsec < NSEC
          /\ Goto(c, "coalesce", "unlock")
          /\ UNCHANGED raw
    /\ UNCHANGED <<target, counter, lock, ts, csel, sched, back, tmp, seen>>

\* spinlock_unlock and return to ktime_get or to tick_handler.
SpinlockUnlock(c) ==
    /\ Goto(c, "unlock", IF c = Irq THEN "resched" ELSE "get")
    /\ lock' = 0
    /\ UNCHANGED <<target, counter, ts, raw, csel, sched, back, tmp, seen>>

TimeUpdate(c) ==
    \/ SpinlockLock(c) \/ CheckClock(c) \/ ReadClock(c) \/ SetLast(c)
    \/ AddNsec(c) \/ Coalesce(c) \/ SpinlockUnlock(c)

-----------------------------------------------------------------------------
(* ktime_get: time_update, then tv_sec and tv_nsec without the lock, in an *)
(* order C leaves to the compiler.                                         *)

KtimeGet(t) ==
    /\ Goto(t, "idle", "lock")
    /\ back' = [back EXCEPT ![t] = "idle"]
    /\ UNCHANGED <<target, counter, lock, ts, raw, csel, sched, tmp, seen>>

ReadFirstWord(t) ==
    /\ \/ /\ Goto(t, "get", "nsec2")
          /\ tmp' = [tmp EXCEPT ![t] = sec]
       \/ /\ Goto(t, "get", "sec2")
          /\ tmp' = [tmp EXCEPT ![t] = nsec]
    /\ seen' = [seen EXCEPT ![t] = [sec |-> sec, nsec |-> nsec]]
    /\ UNCHANGED <<target, counter, lock, ts, raw, csel, sched, back>>

\* Mutant: seconds added to nanoseconds.
KtimeResult_NoScale(t) == tmp[t] + (IF pc[t] = "nsec2" THEN nsec ELSE sec)

\* What ktime_get returns when it reads its second word now.
KtimeResult(t) ==
    IF pc[t] = "nsec2" THEN tmp[t] * NSEC + nsec ELSE sec * NSEC + tmp[t]

ReadSecondWord(t) ==
    /\ pc[t] \in Getting
    /\ Goto(t, pc[t], back[t])
    /\ UNCHANGED <<target, counter, lock, ts, raw, csel, sched, back, tmp, seen>>

-----------------------------------------------------------------------------
(* clocksource_register, clocksource_select, time_update_clocksource.      *)

\* The list insertion, then the printk.
ClocksourceRegister(t, cs) ==
    /\ t \in Switchers /\ booted
    /\ cs \in Clocks \ (registered \cup {Jiffy})
    /\ Goto(t, "idle", "lock")
    /\ registered' = registered \cup {cs}
    /\ back' = [back EXCEPT ![t] = "select"]
    /\ UNCHANGED <<target, counter, lock, ts, raw, current, sched, tmp, seen>>

\* What the loop leaves in current_clocksource.
BestClock == {cs \in registered : \A o \in registered : Rating[o] <= Rating[cs]}

\* The loop of clocksource_select, then its printk.
ClocksourceSelect(t) ==
    /\ Goto(t, "select", "lock")
    /\ current' \in BestClock
    /\ back' = [back EXCEPT ![t] = "set1"]
    /\ UNCHANGED <<target, counter, lock, ts, raw, registered, sched, tmp, seen>>

\* The four stores of time_update_clocksource(current_clocksource).
TimeUpdateClocksource(t) ==
    /\ \/ /\ Goto(t, "set1", "set2")
          /\ target' = [target EXCEPT ![t] = current]
          /\ clock' = current
          /\ UNCHANGED <<read, last, frequency>>
       \/ /\ Goto(t, "set2", "set3")
          /\ read' = target[t]
          /\ UNCHANGED <<clock, last, frequency, target>>
       \/ /\ Goto(t, "set3", "set4")
          /\ last' = counter[target[t]]
          /\ UNCHANGED <<clock, read, frequency, target>>
       \/ /\ Goto(t, "set4", "idle")
          /\ frequency' = Freq[target[t]]
          /\ UNCHANGED <<clock, read, last, target>>
    /\ UNCHANGED <<counter, lock, raw, csel, sched, back, tmp, seen>>

-----------------------------------------------------------------------------
(* The timer interrupt: tick_handler.                                      *)

\* jiffy_increase, then the call of time_update.
TickEnter ==
    /\ booted /\ ~inIrq
    /\ counter[Jiffy] < MaxCount
    /\ inIrq' = TRUE
    /\ counter' = [counter EXCEPT ![Jiffy] = (@ + 1) % Word]
    /\ pc' = [pc EXCEPT ![Irq] = "lock"]
    /\ UNCHANGED <<target, lock, ts, raw, csel, cur, booted, back, tmp, seen>>

\* sched_tick, and return to whichever thread it chose.
TickReturn ==
    /\ Goto(Irq, "resched", "idle")
    /\ inIrq' = FALSE
    /\ cur' \in Threads
    /\ UNCHANGED <<target, counter, lock, ts, raw, csel, booted, back, tmp, seen>>

IrqStep == TimeUpdate(Irq) \/ TickReturn

ThreadStep(t) ==
    \/ KtimeGet(t) \/ TimeUpdate(t) \/ ReadFirstWord(t) \/ ReadSecondWord(t)
    \/ ClocksourceSelect(t) \/ TimeUpdateClocksource(t)
    \/ \E cs \in Clocks : ClocksourceRegister(t, cs)

Next ==
    \/ TimeInit \/ TickEnter \/ IrqStep
    \/ \E c \in Clocks : CounterRuns(c)
    \/ \E t \in Threads : ThreadStep(t)

Spec == Init /\ [][Next]_vars

\* The CPU keeps executing the interrupt handler it is in.
FairSpec == Spec /\ WF_vars(IrqStep)
-----------------------------------------------------------------------------
(* Properties.                                                             *)

InCritical(c) == pc[c] \in Critical

\* The handler spins on a lock that only the code it interrupted can release.
Stuck == inIrq /\ pc[Irq] = "lock" /\ lock = 1

Total == sec * NSEC + nsec

\* Types of the variables.
TypeOK ==
    /\ counter \in [Clocks -> Nat]
    /\ lock \in {0, 1}
    /\ clock \in Clocks \cup {None} /\ read \in Clocks \cup {None}
    /\ last \in Nat /\ frequency \in Nat
    /\ sec \in Nat /\ nsec \in Nat
    /\ registered \subseteq Clocks /\ current \in Clocks \cup {None}
    /\ cur \in Threads /\ inIrq \in BOOLEAN /\ booted \in BOOLEAN
    /\ pc \in [Ctx -> PC]
    /\ target \in [Threads -> Clocks \cup {None}]
    /\ back \in [Threads -> {"idle", "select", "set1"}]
    /\ tmp \in [Ctx -> Nat]
    /\ seen \in [Threads -> [sec : Nat, nsec : Nat]]

\* time_update is mutually exclusive between threads and the tick, and a
\* thread that has lost the CPU never holds kernel_time_lock: the thread
\* that does is the running one, or the one the tick interrupted.
HolderHasCPU ==
    /\ lock = 1 <=> \E c \in Ctx : InCritical(c)
    /\ \A c, d \in Ctx : InCritical(c) /\ InCritical(d) => c = d
    /\ \A t \in Threads : InCritical(t) => t = cur

\* A tick that lands inside a thread's time_update never returns: the
\* machine stays in the handler's spinlock_lock for ever.
StuckForEver == [][Stuck => Stuck']_vars

\* tick_handler comes back to thread code unless it landed inside
\* time_update: no other state of the threads can hold it up.
TickReturns == inIrq ~> (~inIrq \/ Stuck)

\* Outside time_update the nanoseconds are below one second, which the
\* unlocked readers of ktime_get rely on.
Normalised == lock = 0 => nsec < NSEC

\* kernel_time never runs backwards, even while a clock source is being
\* replaced under a tick.
TimeMonotonic == [][booted => sec' * NSEC + nsec' >= Total]_vars

\* ktime_get reads its two words unlocked and may mix two times, but what
\* it returns is less than a second away from the interval it read in.
TornWithinASecond ==
    \A t \in Threads : Runs(t) /\ pc[t] \in Getting =>
        /\ KtimeResult(t) > seen[t].sec * NSEC + seen[t].nsec - NSEC
        /\ KtimeResult(t) < Total + NSEC

\* The pieces of kernel_time.ts belong together: the counter read, its
\* frequency and the clock.
SourceConsistent == read = clock /\ frequency = Freq[clock]

\* As long as the default clock is kept, every tick counts exactly once,
\* whether the handler or a thread it preempts folds it into the time, and
\* outside a switch of the clock the counter, its frequency and the clock
\* belong together.
TicksCountedOnce ==
    /\ booted /\ (\A t \in Threads : pc[t] \notin Setting) => SourceConsistent
    /\ lock = 0 /\ read = Jiffy => Total = last * (NSEC \div Freq[Jiffy])
=============================================================================
