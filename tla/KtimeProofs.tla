----------------------------- MODULE KtimeProofs ----------------------------
(***************************************************************************)
(* Proofs about Ktime, for any threads, clock sources, frequencies, word   *)
(* size and counter bound.                                                 *)
(***************************************************************************)
EXTENDS Ktime, TLAPS

-----------------------------------------------------------------------------
(* Arithmetic of the unsigned counters.                                    *)

\* The remainder of an integer is a natural number: what the unsigned
\* subtraction of time_update stores is never negative.
LEMMA ModNat == \A a \in Int, b \in Nat \ {0} : a % b \in Nat
OBVIOUS

\* The quotient of time_cycle_to_ns is a natural number.
LEMMA DivNat == \A a \in Nat, b \in Nat \ {0} : a \div b \in Nat
OBVIOUS

\* time_cycle_to_ns never yields a negative amount.
LEMMA CycleNat ==
    ASSUME NEW a \in Nat, NEW f \in Nat \ {0}
    PROVE  TimeCycleToNs(a, f) \in Nat
<1>1. NSEC \in Nat /\ Word \in Nat \ {0}
  BY KtimeAssumption
<1>2. a * NSEC \in Nat
  BY <1>1
<1>3. (a * NSEC) % Word \in Nat
  BY <1>1, <1>2, ModNat
<1> QED
  BY <1>3, DivNat DEF TimeCycleToNs

-----------------------------------------------------------------------------
(* Types.  The clock source is never NULL where it is used: once time_init *)
(* has set it, it is only ever replaced by another one.                    *)

SourceInv ==
    /\ clock # None => read # None /\ frequency # 0
    /\ booted => clock # None
    /\ \A c \in Ctx : pc[c] \in {"read", "last", "add", "coalesce"} => clock # None
    /\ \A t \in Threads :
         /\ back[t] # "idle" \/ pc[t] \in Setting => booted
         /\ back[t] = "set1" => current # None
         /\ pc[t] = "set1" => current # None
         /\ pc[t] \in {"set2", "set3", "set4"} => target[t] # None

TInv == TypeOK /\ SourceInv

\* Every step of the program keeps the types and never follows a null
\* clock source.
LEMMA TypeStep == TInv /\ [Next]_vars => TInv'
<1> SUFFICES ASSUME TypeOK, SourceInv, [Next]_vars
             PROVE  TypeOK' /\ SourceInv'
  BY DEF TInv
<1> USE KtimeAssumption DEF TypeOK, SourceInv, Ctx, PC, Critical, Getting, Setting
<1>1. CASE TimeInit
  BY <1>1 DEF TimeInit, csel, ts, raw
<1>2. CASE TickEnter
  <2>1. counter' \in [Clocks -> Nat]
    BY <1>2, ModNat DEF TickEnter
  <2> QED
    BY <1>2, <2>1 DEF TickEnter, csel, ts, raw
<1>3. ASSUME NEW c \in Clocks, CounterRuns(c)
      PROVE  TypeOK' /\ SourceInv'
  <2>1. counter' \in [Clocks -> Nat]
    BY <1>3, ModNat DEF CounterRuns
  <2> QED
    BY <1>3, <2>1 DEF CounterRuns, csel, ts, raw, sched
<1>4. CASE TickReturn
  BY <1>4 DEF TickReturn, Goto, csel, ts, raw
<1>5. ASSUME NEW c \in Ctx, TimeUpdate(c)
      PROVE  TypeOK' /\ SourceInv'
  <2>1. CASE SpinlockLock(c)
    BY <2>1 DEF SpinlockLock, Goto, csel, ts, raw, sched
  <2>2. CASE CheckClock(c)
    BY <2>2 DEF CheckClock, Goto, csel, ts, raw, sched
  <2>3. CASE ReadClock(c)
    BY <2>3 DEF ReadClock, Goto, csel, ts, raw, sched
  <2>4. CASE SetLast(c)
    <3>1. tmp' \in [Ctx -> Nat]
      BY <2>4, ModNat DEF SetLast
    <3> QED
      BY <2>4, <3>1 DEF SetLast, Goto, csel, ts, raw, sched
  <2>5. CASE AddNsec(c)
    <3>1. nsec' \in Nat
      BY <2>5, CycleNat DEF AddNsec, Goto
    <3> QED
      BY <2>5, <3>1 DEF AddNsec, Goto, csel, ts, raw, sched
  <2>6. CASE Coalesce(c)
    BY <2>6 DEF Coalesce, Goto, csel, ts, raw, sched
  <2>7. CASE SpinlockUnlock(c)
    BY <2>7 DEF SpinlockUnlock, Goto, csel, ts, raw, sched
  <2> QED
    BY <1>5, <2>1, <2>2, <2>3, <2>4, <2>5, <2>6, <2>7 DEF TimeUpdate
<1>6. ASSUME NEW t \in Threads, ThreadStep(t)
      PROVE  TypeOK' /\ SourceInv'
  <2>1. CASE KtimeGet(t)
    BY <2>1 DEF KtimeGet, Goto, csel, ts, raw, sched
  <2>2. CASE ReadFirstWord(t)
    <3>1. seen' \in [Threads -> [sec : Nat, nsec : Nat]]
      BY <2>2 DEF ReadFirstWord
    <3>2. tmp' \in [Ctx -> Nat]
      BY <2>2 DEF ReadFirstWord
    <3>3. pc' \in [Ctx -> PC] /\ \A c \in Ctx : pc'[c] = pc[c] \/ pc'[c] \in Getting
      BY SMTT(30), <2>2 DEF ReadFirstWord, Goto
    <3> QED
      BY <2>2, <3>1, <3>2, <3>3 DEF ReadFirstWord, csel, ts, raw, sched
  <2>3. CASE ReadSecondWord(t)
    BY <2>3 DEF ReadSecondWord, Goto, csel, ts, raw, sched
  <2>4. CASE ClocksourceSelect(t)
    BY <2>4 DEF ClocksourceSelect, BestClock, Goto, csel, ts, raw, sched
  <2>5. CASE TimeUpdateClocksource(t)
    <3>1. pc[t] \in Setting /\ pc' \in [Ctx -> PC]
      BY <2>5 DEF TimeUpdateClocksource, Goto
    <3>2. CASE pc[t] = "set1"
      <4>1. /\ pc' = [pc EXCEPT ![t] = "set2"]
            /\ target' = [target EXCEPT ![t] = current]
            /\ clock' = current
            /\ UNCHANGED <<read, last, frequency, counter, lock, sec, nsec, registered,
                           current, cur, inIrq, booted, back, tmp, seen>>
        BY <2>5, <3>2 DEF TimeUpdateClocksource, Goto, csel, raw, sched
      <4>2. current # None /\ clock # None
        BY <3>2
      <4>3. TypeOK'
        BY <3>1, <4>1
      <4> QED
        BY <3>1, <3>2, <4>1, <4>2, <4>3
    <3>3. CASE pc[t] = "set2"
      BY <2>5, <3>1, <3>3 DEF TimeUpdateClocksource, Goto, csel, raw, sched
    <3>4. CASE pc[t] = "set3"
      BY <2>5, <3>1, <3>4 DEF TimeUpdateClocksource, Goto, csel, raw, sched
    <3>5. CASE pc[t] = "set4"
      BY <2>5, <3>1, <3>5 DEF TimeUpdateClocksource, Goto, csel, raw, sched
    <3> QED
      BY <2>5, <3>2, <3>3, <3>4, <3>5 DEF TimeUpdateClocksource, Goto
  <2>6. ASSUME NEW cs \in Clocks, ClocksourceRegister(t, cs)
        PROVE  TypeOK' /\ SourceInv'
    BY <2>6 DEF ClocksourceRegister, Goto, csel, ts, raw, sched
  <2> QED
    BY <1>5, <1>6, <2>1, <2>2, <2>3, <2>4, <2>5, <2>6 DEF ThreadStep
<1>7. CASE UNCHANGED vars
  BY <1>7 DEF vars
<1> QED
  BY <1>1, <1>2, <1>3, <1>4, <1>5, <1>6, <1>7 DEF Next, IrqStep

\* time_init has not run: no clock source, and nobody uses one.
LEMMA InitTInv == Init => TInv
<1> SUFFICES ASSUME Init PROVE TInv
  OBVIOUS
<1> USE KtimeAssumption DEF Init
<1>1. seen \in [Threads -> [sec : Nat, nsec : Nat]]
  OBVIOUS
<1>2. pc \in [Ctx -> PC] /\ tmp \in [Ctx -> Nat] /\ counter \in [Clocks -> Nat]
  BY DEF Ctx, PC
<1>3. /\ target \in [Threads -> Clocks \cup {None}]
      /\ back \in [Threads -> {"idle", "select", "set1"}]
  OBVIOUS
<1>4. TypeOK
  BY <1>1, <1>2, <1>3 DEF TypeOK
<1>5. SourceInv
  BY DEF SourceInv, Ctx, Setting
<1> QED
  BY <1>4, <1>5 DEF TInv

\* The types and the non-null clock source, in every behaviour.
LEMMA TInvAlways == Spec => []TInv
BY InitTInv, TypeStep, PTL DEF Spec

\* The variables keep their types in every behaviour of the time code.
THEOREM TypeCorrect == Spec => []TypeOK
<1>1. TInv => TypeOK
  BY DEF TInv
<1> QED
  BY <1>1, TInvAlways, PTL

-----------------------------------------------------------------------------
(* The lock.  HolderHasCPU is not inductive: it needs that the handler     *)
(* past its spinlock_lock has found no thread inside time_update, so that  *)
(* a tick that switches threads leaves no holder behind.                   *)

IrqInv ==
    /\ ~inIrq => pc[Irq] = "idle"
    /\ pc[Irq] \in Critical \cup {"resched"} => \A t \in Threads : ~InCritical(t)

LInv == HolderHasCPU /\ IrqInv

\* Every step keeps the lock with the context that has the CPU.
LEMMA LockStep == TypeOK /\ LInv /\ [Next]_vars => LInv'
<1> SUFFICES ASSUME TypeOK, LInv, [Next]_vars
             PROVE  LInv'
  OBVIOUS
<1> USE KtimeAssumption DEF TypeOK, LInv, HolderHasCPU, IrqInv, InCritical, Critical, Ctx
<1>1. CASE TimeInit
  BY <1>1 DEF TimeInit
<1>2. CASE TickEnter
  BY <1>2 DEF TickEnter
<1>3. ASSUME NEW c \in Clocks, CounterRuns(c)
      PROVE  LInv'
  BY <1>3 DEF CounterRuns, sched
<1>4. CASE TickReturn
  <2>1. pc[Irq] = "resched" /\ pc' = [pc EXCEPT ![Irq] = "idle"] /\ lock' = lock
    BY <1>4 DEF TickReturn, Goto
  <2>2. \A c \in Ctx : ~InCritical(c) /\ ~InCritical(c)'
    BY <2>1
  <2> QED
    BY <1>4, <2>1, <2>2 DEF TickReturn
<1>5. ASSUME NEW c \in Ctx, TimeUpdate(c)
      PROVE  LInv'
  <2>0. (inIrq => c = Irq) /\ (~inIrq => c = cur)
    BY <1>5 DEF TimeUpdate, SpinlockLock, CheckClock, ReadClock, SetLast, AddNsec, Coalesce,
                SpinlockUnlock, Goto, Runs
  <2>1. CASE SpinlockLock(c)
    BY <2>0, <2>1 DEF SpinlockLock, Goto, sched
  <2>2. CASE CheckClock(c)
    BY <2>0, <2>2 DEF CheckClock, Goto, sched
  <2>3. CASE ReadClock(c)
    BY <2>0, <2>3 DEF ReadClock, Goto, sched
  <2>4. CASE SetLast(c)
    BY <2>0, <2>4 DEF SetLast, Goto, sched
  <2>5. CASE AddNsec(c)
    BY <2>0, <2>5 DEF AddNsec, Goto, sched
  <2>6. CASE Coalesce(c)
    BY <2>0, <2>6 DEF Coalesce, Goto, sched
  <2>7. CASE SpinlockUnlock(c)
    BY <2>0, <2>7 DEF SpinlockUnlock, Goto, sched
  <2> QED
    BY <1>5, <2>1, <2>2, <2>3, <2>4, <2>5, <2>6, <2>7 DEF TimeUpdate
<1>6. ASSUME NEW t \in Threads, ThreadStep(t)
      PROVE  LInv'
  <2>1. CASE KtimeGet(t)
    BY <2>1 DEF KtimeGet, Goto, sched
  <2>2. CASE ReadFirstWord(t)
    BY <2>2 DEF ReadFirstWord, Goto, sched
  <2>3. CASE ReadSecondWord(t)
    BY <2>3 DEF ReadSecondWord, Getting, Goto, sched
  <2>4. CASE ClocksourceSelect(t)
    BY <2>4 DEF ClocksourceSelect, Goto, sched
  <2>5. CASE TimeUpdateClocksource(t)
    BY <2>5 DEF TimeUpdateClocksource, Goto, sched
  <2>6. ASSUME NEW cs \in Clocks, ClocksourceRegister(t, cs)
        PROVE  LInv'
    BY <2>6 DEF ClocksourceRegister, Goto, sched
  <2> QED
    BY <1>5, <1>6, <2>1, <2>2, <2>3, <2>4, <2>5, <2>6 DEF ThreadStep
<1>7. CASE UNCHANGED vars
  BY <1>7 DEF vars
<1> QED
  BY <1>1, <1>2, <1>3, <1>4, <1>5, <1>6, <1>7 DEF Next, IrqStep

\* time_update is mutually exclusive, and a preempted thread never holds
\* kernel_time_lock: only the tick can ever be kept waiting for it.
THEOREM LockHolder == Spec => []HolderHasCPU
<1>1. Init => LInv
  BY KtimeAssumption DEF Init, LInv, HolderHasCPU, IrqInv, InCritical, Critical, Ctx
<1>2. LInv => HolderHasCPU
  BY DEF LInv
<1> QED
  BY <1>1, <1>2, LockStep, TypeCorrect, PTL DEF Spec

\* Nothing but the interrupted thread can release the lock the handler
\* spins on, and that thread cannot run before the handler returns.
LEMMA StuckStep == TypeOK /\ Stuck /\ [Next]_vars => Stuck'
<1> SUFFICES ASSUME TypeOK, Stuck, [Next]_vars
             PROVE  Stuck'
  OBVIOUS
<1> USE KtimeAssumption DEF TypeOK, Stuck, Ctx
<1>1. CASE TimeInit
  BY <1>1 DEF TimeInit
<1>2. CASE TickEnter
  BY <1>2 DEF TickEnter
<1>3. ASSUME NEW c \in Clocks, CounterRuns(c)
      PROVE  Stuck'
  BY <1>3 DEF CounterRuns, sched
<1>4. CASE TickReturn
  BY <1>4 DEF TickReturn, Goto
<1>5. ASSUME NEW c \in Ctx, TimeUpdate(c)
      PROVE  Stuck'
  BY <1>5 DEF TimeUpdate, SpinlockLock, CheckClock, ReadClock, SetLast, AddNsec, Coalesce,
              SpinlockUnlock, Goto, Runs
<1>6. ASSUME NEW t \in Threads, ThreadStep(t)
      PROVE  Stuck'
  <2>1. ~Runs(t)
    BY DEF Runs
  <2> QED
    BY <1>5, <1>6, <2>1 DEF ThreadStep, KtimeGet, ReadFirstWord, ReadSecondWord,
       ClocksourceSelect, TimeUpdateClocksource, ClocksourceRegister, Goto
<1>7. CASE UNCHANGED vars
  BY <1>7 DEF vars
<1> QED
  BY <1>1, <1>2, <1>3, <1>4, <1>5, <1>6, <1>7 DEF Next, IrqStep

\* A tick that lands inside time_update hangs the machine for good.
THEOREM TickHangs == Spec => StuckForEver
<1>1. TypeOK /\ [Next]_vars => [Stuck => Stuck']_vars
  BY StuckStep
<1> QED
  BY <1>1, TypeCorrect, PTL DEF Spec, StuckForEver

-----------------------------------------------------------------------------
(* The time itself.                                                        *)

\* Nanoseconds exceed a second only while some context is in the loop that
\* folds them into seconds.
NInv == (\A c \in Ctx : pc[c] # "coalesce") => nsec < NSEC

\* Every step keeps the nanoseconds below a second outside that loop.
LEMMA NormalisedStep == TypeOK /\ LInv /\ NInv /\ [Next]_vars => NInv'
<1> SUFFICES ASSUME TypeOK, LInv, NInv, [Next]_vars
             PROVE  NInv'
  OBVIOUS
<1> USE KtimeAssumption DEF TypeOK, NInv, Ctx
<1>1. CASE TimeInit
  BY <1>1 DEF TimeInit
<1>2. CASE TickEnter
  <2>1. pc[Irq] = "idle"
    BY <1>2 DEF TickEnter, LInv, IrqInv
  <2> QED
    BY <1>2, <2>1 DEF TickEnter, raw
<1>3. ASSUME NEW c \in Clocks, CounterRuns(c)
      PROVE  NInv'
  BY <1>3 DEF CounterRuns, raw
<1>4. CASE TickReturn
  BY <1>4 DEF TickReturn, Goto, raw
<1>5. ASSUME NEW c \in Ctx, TimeUpdate(c)
      PROVE  NInv'
  <2>1. CASE AddNsec(c)
    BY <2>1 DEF AddNsec, Goto
  <2>2. CASE Coalesce(c)
    BY <2>2 DEF Coalesce, Goto, raw
  <2>3. CASE SpinlockLock(c) \/ CheckClock(c) \/ ReadClock(c) \/ SetLast(c)
    BY <2>3 DEF SpinlockLock, CheckClock, ReadClock, SetLast, Goto, raw
  <2>4. CASE SpinlockUnlock(c)
    BY <2>4 DEF SpinlockUnlock, Goto, raw
  <2> QED
    BY <1>5, <2>1, <2>2, <2>3, <2>4 DEF TimeUpdate
<1>6. ASSUME NEW t \in Threads, ThreadStep(t)
      PROVE  NInv'
  <2>1. CASE TimeUpdateClocksource(t)
    BY <2>1 DEF TimeUpdateClocksource, Goto, raw
  <2>2. CASE \E cs \in Clocks : ClocksourceRegister(t, cs)
    BY <2>2 DEF ClocksourceRegister, Goto, raw
  <2>3. CASE KtimeGet(t) \/ ReadFirstWord(t) \/ ReadSecondWord(t) \/ ClocksourceSelect(t)
    BY <2>3 DEF KtimeGet, ReadFirstWord, ReadSecondWord, ClocksourceSelect, Getting, Goto, raw
  <2> QED
    BY <1>5, <1>6, <2>1, <2>2, <2>3 DEF ThreadStep
<1>7. CASE UNCHANGED vars
  BY <1>7 DEF vars
<1> QED
  BY <1>1, <1>2, <1>3, <1>4, <1>5, <1>6, <1>7 DEF Next, IrqStep

\* With the lock free, nobody is in the loop.
LEMMA NormalisedHolds == TypeOK /\ LInv /\ NInv => Normalised
BY DEF LInv, NInv, HolderHasCPU, InCritical, Critical, Normalised, Ctx

\* Whoever reads kernel_time unlocked finds a normalised pair of words.
THEOREM TimeNormalised == Spec => []Normalised
<1>1. Init => LInv /\ NInv
  BY KtimeAssumption
     DEF Init, LInv, NInv, HolderHasCPU, IrqInv, InCritical, Critical, Ctx
<1> QED
  BY <1>1, LockStep, NormalisedStep, NormalisedHolds, TypeCorrect, PTL DEF Spec

\* Adding the converted cycles and carrying a second are the only writes
\* to the time after boot, and neither lowers it.
LEMMA MonotonicStep ==
    TInv /\ booted /\ [Next]_vars =>
        /\ sec' >= sec
        /\ sec' * NSEC + nsec' >= Total
<1> SUFFICES ASSUME TInv, booted, [Next]_vars
             PROVE  sec' >= sec /\ sec' * NSEC + nsec' >= sec * NSEC + nsec
  BY DEF Total
<1> USE KtimeAssumption DEF TInv, TypeOK
<1>0. sec \in Nat /\ nsec \in Nat /\ NSEC \in Nat \ {0}
  OBVIOUS
<1>1. CASE UNCHANGED raw
  BY <1>0, <1>1 DEF raw
<1>2. ASSUME NEW c \in Ctx, AddNsec(c)
      PROVE  sec' >= sec /\ sec' * NSEC + nsec' >= sec * NSEC + nsec
  <2>1. TimeCycleToNs(tmp[c], frequency) \in Nat
    BY <1>2, CycleNat DEF AddNsec, Goto, SourceInv
  <2> QED
    BY <1>0, <1>2, <2>1 DEF AddNsec
<1>3. ASSUME NEW c \in Ctx, Coalesce(c)
      PROVE  sec' >= sec /\ sec' * NSEC + nsec' >= sec * NSEC + nsec
  <2>1. CASE UNCHANGED raw
    BY <1>1, <2>1
  <2>2. CASE sec' = sec + 1 /\ nsec' = nsec - NSEC
    <3>1. (sec + 1) * NSEC = sec * NSEC + NSEC
      BY <1>0
    <3> QED
      BY <1>0, <2>2, <3>1
  <2> QED
    BY <1>3, <2>1, <2>2 DEF Coalesce
<1>4. \/ UNCHANGED raw
      \/ \E c \in Ctx : AddNsec(c) \/ Coalesce(c)
  <2>1. ASSUME NEW c \in Ctx, TimeUpdate(c)
        PROVE  UNCHANGED raw \/ AddNsec(c) \/ Coalesce(c)
    BY <2>1 DEF TimeUpdate, SpinlockLock, CheckClock, ReadClock, SetLast, SpinlockUnlock
  <2>2. ASSUME NEW t \in Threads, ThreadStep(t)
        PROVE  UNCHANGED raw \/ TimeUpdate(t)
    BY <2>2 DEF ThreadStep, KtimeGet, ReadFirstWord, ReadSecondWord, ClocksourceSelect,
                TimeUpdateClocksource, ClocksourceRegister
  <2>3. CASE UNCHANGED vars
    BY <2>3 DEF vars, raw
  <2>4. CASE TickEnter \/ TickReturn \/ \E c \in Clocks : CounterRuns(c)
    BY <2>4 DEF TickEnter, TickReturn, CounterRuns
  <2>5. ~TimeInit
    BY DEF TimeInit
  <2> QED
    BY <2>1, <2>2, <2>3, <2>4, <2>5 DEF Next, IrqStep, Ctx
<1> QED
  BY <1>1, <1>2, <1>3, <1>4

\* kernel_time never goes back, whatever clock source is being installed.
THEOREM TimeNeverGoesBack == Spec => TimeMonotonic
<1>1. TInv /\ [Next]_vars => [booted => sec' * NSEC + nsec' >= Total]_vars
  BY MonotonicStep
<1> QED
  BY <1>1, TInvAlways, PTL DEF Spec, TimeMonotonic

-----------------------------------------------------------------------------
(* The unlocked reads of ktime_get.                                        *)

\* Before boot a single thread runs; a reader between its two words holds
\* one of the two it has seen, which were normalised and not in the future.
RInv ==
    /\ ~booted => \A t \in Threads \ {cur} : pc[t] = "idle"
    /\ ~booted => ~inIrq
    /\ \A t \in Threads : pc[t] \in Getting =>
         /\ tmp[t] = IF pc[t] = "nsec2" THEN seen[t].sec ELSE seen[t].nsec
         /\ seen[t].nsec < NSEC
         /\ seen[t].sec <= sec

\* The thread that reads outside time_update finds the lock free.
LEMMA ReaderFindsLockFree ==
    ASSUME TypeOK, LInv, NInv, NEW t \in Threads, Runs(t), ~InCritical(t)
    PROVE  nsec < NSEC
<1>1. ~inIrq /\ t = cur
  BY KtimeAssumption DEF Runs
<1>2. \A c \in Ctx : ~InCritical(c)
  BY <1>1 DEF LInv, HolderHasCPU, IrqInv, InCritical, Critical, Ctx
<1> QED
  BY <1>2 DEF NInv, InCritical, Critical

\* Every step keeps what a reader holds true of the time it has seen.
LEMMA ReaderStep == TInv /\ LInv /\ NInv /\ RInv /\ [Next]_vars => RInv'
<1> SUFFICES ASSUME TInv, LInv, NInv, RInv, [Next]_vars
             PROVE  RInv'
  OBVIOUS
<1> USE KtimeAssumption DEF Ctx
<1>0. TypeOK
  BY DEF TInv
<1>1. CASE TimeInit
  <2>1. \A t \in Threads : pc[t] = "idle"
    BY <1>1 DEF TimeInit, RInv
  <2> QED
    BY <1>1, <2>1 DEF TimeInit, RInv, Getting
<1>2. CASE TickEnter
  BY <1>0, <1>2 DEF TickEnter, RInv, raw, TypeOK
<1>3. ASSUME NEW c \in Clocks, CounterRuns(c)
      PROVE  RInv'
  BY <1>3 DEF CounterRuns, RInv, raw, sched
<1>4. CASE TickReturn
  <2>1. booted
    BY <1>4 DEF TickReturn, Goto, RInv, LInv, IrqInv
  <2> QED
    BY <1>0, <1>4, <2>1 DEF TickReturn, Goto, RInv, raw, TypeOK
<1>5. ASSUME NEW c \in Ctx, TimeUpdate(c)
      PROVE  RInv'
  <2>1. /\ Runs(c)
        /\ pc[c] \in Critical \cup {"lock"}
        /\ \A d \in Ctx \ {c} : pc'[d] = pc[d] /\ tmp'[d] = tmp[d]
        /\ pc'[c] \notin Getting
        /\ seen' = seen /\ sched' = sched
    BY <1>0, <1>5 DEF TimeUpdate, SpinlockLock, CheckClock, ReadClock, SetLast, AddNsec,
                Coalesce, SpinlockUnlock, Goto, Critical, Getting, TypeOK
  <2>2. sec' >= sec /\ sec' \in Nat
    BY <1>0, <1>5 DEF TimeUpdate, SpinlockLock, CheckClock, ReadClock, SetLast, AddNsec,
                Coalesce, SpinlockUnlock, raw, TypeOK
  <2>3. ASSUME NEW t \in Threads, pc'[t] \in Getting
        PROVE  /\ tmp'[t] = IF pc'[t] = "nsec2" THEN seen'[t].sec ELSE seen'[t].nsec
               /\ seen'[t].nsec < NSEC
               /\ seen'[t].sec <= sec'
    <3>1. t # c /\ pc'[t] = pc[t] /\ tmp'[t] = tmp[t]
      BY <2>1, <2>3
    <3> QED
      BY <1>0, <2>1, <2>2, <2>3, <3>1 DEF RInv, TypeOK
  <2>4. ~booted => c = cur
    BY <2>1 DEF Runs, RInv
  <2> QED
    BY <2>1, <2>3, <2>4 DEF RInv, sched
<1>6. ASSUME NEW t \in Threads, ThreadStep(t)
      PROVE  RInv'
  <2>1. CASE ReadFirstWord(t)
    <3>1. nsec < NSEC
      BY <1>0, <2>1, ReaderFindsLockFree DEF ReadFirstWord, Goto, InCritical, Critical
    <3>2. \A d \in Threads \ {t} : pc'[d] = pc[d] /\ tmp'[d] = tmp[d] /\ seen'[d] = seen[d]
      BY <1>0, <2>1 DEF ReadFirstWord, Goto, TypeOK
    <3>3. /\ tmp'[t] = IF pc'[t] = "nsec2" THEN sec ELSE nsec
          /\ seen'[t] = [sec |-> sec, nsec |-> nsec]
      BY <1>0, <2>1 DEF ReadFirstWord, Goto, TypeOK
    <3>4. Runs(t) /\ UNCHANGED <<sec, nsec, cur, inIrq, booted>>
      BY <2>1 DEF ReadFirstWord, Goto, raw, sched
    <3>5. ~booted => t = cur
      BY <3>4 DEF Runs, RInv
    <3>6. ASSUME NEW d \in Threads, pc'[d] \in Getting
          PROVE  /\ tmp'[d] = IF pc'[d] = "nsec2" THEN seen'[d].sec ELSE seen'[d].nsec
                 /\ seen'[d].nsec < NSEC
                 /\ seen'[d].sec <= sec'
      <4>1. CASE d = t
        BY <1>0, <3>1, <3>3, <3>4, <4>1 DEF TypeOK
      <4>2. CASE d # t
        BY <3>2, <3>4, <3>6, <4>2 DEF RInv
      <4> QED
        BY <4>1, <4>2
    <3> QED
      BY <3>2, <3>4, <3>5, <3>6 DEF RInv
  <2>2. CASE \/ KtimeGet(t) \/ ReadSecondWord(t) \/ ClocksourceSelect(t)
             \/ TimeUpdateClocksource(t)
             \/ \E cs \in Clocks : ClocksourceRegister(t, cs)
    <3>1. /\ Runs(t) /\ pc'[t] \notin Getting
          /\ \A d \in Threads \ {t} : pc'[d] = pc[d]
          /\ UNCHANGED <<tmp, seen, sec, nsec, cur, inIrq, booted>>
      <4>1. CASE KtimeGet(t) \/ ClocksourceSelect(t)
        BY <1>0, <4>1 DEF KtimeGet, ClocksourceSelect, Goto, Getting, TypeOK, raw, sched
      <4>2. CASE ReadSecondWord(t)
        BY <1>0, <4>2 DEF ReadSecondWord, Goto, Getting, TypeOK, raw, sched
      <4>3. CASE TimeUpdateClocksource(t)
        BY <1>0, <4>3 DEF TimeUpdateClocksource, Goto, Getting, TypeOK, raw, sched
      <4>4. CASE \E cs \in Clocks : ClocksourceRegister(t, cs)
        BY <1>0, <4>4 DEF ClocksourceRegister, Goto, Getting, TypeOK, raw, sched
      <4> QED
        BY <2>2, <4>1, <4>2, <4>3, <4>4
    <3>2. ~booted => t = cur
      BY <3>1 DEF Runs, RInv
    <3> QED
      BY <3>1, <3>2 DEF RInv
  <2> QED
    BY <1>5, <1>6, <2>1, <2>2 DEF ThreadStep
<1>7. CASE UNCHANGED vars
  BY <1>7 DEF vars, RInv
<1> QED
  BY <1>1, <1>2, <1>3, <1>4, <1>5, <1>6, <1>7 DEF Next, IrqStep

\* Multiplying by NSEC_PER_SEC keeps the order.
LEMMA TimesMonotone == \A a, b, n \in Nat : a <= b => a * n <= b * n
OBVIOUS

\* What the reader holds bounds what it returns.
LEMMA TornBound == TInv /\ LInv /\ NInv /\ RInv => TornWithinASecond
<1> SUFFICES ASSUME TInv, LInv, NInv, RInv,
                    NEW t \in Threads, Runs(t), pc[t] \in Getting
             PROVE  /\ KtimeResult(t) > seen[t].sec * NSEC + seen[t].nsec - NSEC
                    /\ KtimeResult(t) < Total + NSEC
  BY DEF TornWithinASecond
<1>1. nsec < NSEC
  BY ReaderFindsLockFree DEF TInv, InCritical, Getting, Critical
<1>2. /\ sec \in Nat /\ nsec \in Nat /\ NSEC \in Nat
      /\ seen[t].sec \in Nat /\ seen[t].nsec \in Nat
  BY KtimeAssumption DEF TInv, TypeOK
<1>3. /\ tmp[t] = IF pc[t] = "nsec2" THEN seen[t].sec ELSE seen[t].nsec
      /\ seen[t].nsec < NSEC
      /\ seen[t].sec <= sec
  BY DEF RInv
<1>4. /\ seen[t].sec * NSEC <= sec * NSEC
      /\ seen[t].sec * NSEC \in Nat /\ sec * NSEC \in Nat
  BY <1>2, <1>3, TimesMonotone
<1>5. KtimeResult(t) = IF pc[t] = "nsec2" THEN seen[t].sec * NSEC + nsec
                                          ELSE sec * NSEC + seen[t].nsec
  BY <1>3 DEF KtimeResult
<1> QED
  BY <1>1, <1>2, <1>3, <1>4, <1>5 DEF Total

\* A torn ktime_get is never off by as much as a second.
THEOREM TornReads == Spec => []TornWithinASecond
<1>1. Init => LInv /\ NInv /\ RInv
  BY KtimeAssumption
     DEF Init, LInv, NInv, RInv, HolderHasCPU, IrqInv, InCritical, Critical, Getting, Ctx
<1>2. TInv => TypeOK
  BY DEF TInv
<1> QED
  BY <1>1, <1>2, TInvAlways, LockStep, NormalisedStep, ReaderStep, TornBound, PTL DEF Spec

-----------------------------------------------------------------------------
(* Every tick counts once.  The tree has one thread that installs clock    *)
(* sources; two could leave the fields of kernel_time.ts from different    *)
(* ones.                                                                   *)

OneSwitcher == \A x, y \in Switchers : x = y

Replacing == {"set2", "set3", "set4"}

\* Before time_init one thread runs, and nothing is counted.
BeforeBoot ==
    ~booted => /\ ~inIrq /\ counter[Jiffy] = 0 /\ last = 0 /\ sec = 0 /\ nsec = 0
               /\ clock = None /\ read = None
               /\ \A t \in Threads : t # cur => pc[t] = "idle"

\* How far the stores of time_update_clocksource have come.
SetInv ==
    /\ Jiffy \notin registered /\ current # Jiffy
    /\ booted /\ (\A t \in Threads : pc[t] \notin Replacing) => SourceConsistent
    /\ \A t \in Threads :
         /\ back[t] # "idle" \/ pc[t] \in Setting => t \in Switchers
         /\ pc[t] \in Replacing => target[t] # Jiffy /\ clock = target[t]
         /\ pc[t] = "set2" => frequency = Freq[read]
         /\ pc[t] \in {"set3", "set4"} => read = target[t]

\* The nanoseconds of one tick.
PerTick == NSEC \div Freq[Jiffy]

\* The one tick that may not have entered the time yet is the one whose
\* handler is still on its way to do so.
TickInv ==
    booted /\ read = Jiffy =>
        /\ counter[Jiffy] = last + (IF pc[Irq] \in {"lock", "check", "read", "last"} THEN 1 ELSE 0)
        /\ \A t \in Threads : /\ pc[t] = "last" => tmp[t] = last
                              /\ pc[t] = "add" => tmp[t] = 0
        /\ pc[Irq] = "last" => tmp[Irq] = last + 1
        /\ pc[Irq] = "add" => tmp[Irq] = 1 /\ Total + PerTick = last * PerTick
        /\ pc[Irq] # "add" => Total = last * PerTick

LEMMA BeforeStep == TInv /\ LInv /\ BeforeBoot /\ [Next]_vars => BeforeBoot'
<1> SUFFICES ASSUME TInv, LInv, BeforeBoot, [Next]_vars, ~booted' PROVE BeforeBoot'
  BY DEF BeforeBoot
<1> USE KtimeAssumption DEF TInv, TypeOK, BeforeBoot, Ctx
<1>1. CASE TimeInit
  BY <1>1 DEF TimeInit
<1>2. CASE TickEnter
  BY <1>2 DEF TickEnter
<1>3. ASSUME NEW c \in Clocks, CounterRuns(c)
      PROVE  BeforeBoot'
  BY <1>3 DEF CounterRuns, sched, ts, raw
<1>4. CASE TickReturn
  BY <1>4 DEF TickReturn, Goto, Runs
<1>5. ASSUME NEW c \in Ctx, TimeUpdate(c)
      PROVE  BeforeBoot'
  <2>1. booted' = booted
    BY <1>5 DEF TimeUpdate, SpinlockLock, CheckClock, ReadClock, SetLast, AddNsec, Coalesce,
                SpinlockUnlock, sched
  <2>2. c = cur /\ clock = None /\ pc[c] \notin {"read", "last", "add", "coalesce"}
    BY <1>5, <2>1 DEF TimeUpdate, SpinlockLock, CheckClock, ReadClock, SetLast, AddNsec, Coalesce,
                      SpinlockUnlock, Goto, Runs, SourceInv
  <2>3. SpinlockLock(c) \/ CheckClock(c) \/ SpinlockUnlock(c)
    BY <1>5, <2>2 DEF TimeUpdate, ReadClock, SetLast, AddNsec, Coalesce, Goto
  <2> QED
    BY <2>1, <2>2, <2>3 DEF SpinlockLock, CheckClock, SpinlockUnlock, Goto, sched, ts, raw
<1>6. ASSUME NEW t \in Threads, ThreadStep(t)
      PROVE  BeforeBoot'
  <2>1. CASE TimeUpdateClocksource(t)
    <3>1. pc[t] \in Setting /\ booted' = booted
      BY <2>1 DEF TimeUpdateClocksource, Goto, Setting, sched
    <3> QED
      BY <3>1 DEF SourceInv
  <2>2. CASE \E cs \in Clocks : ClocksourceRegister(t, cs)
    BY <2>2 DEF ClocksourceRegister, sched
  <2>3. CASE KtimeGet(t) \/ ReadFirstWord(t) \/ ReadSecondWord(t) \/ ClocksourceSelect(t)
    BY <2>3 DEF KtimeGet, ReadFirstWord, ReadSecondWord, ClocksourceSelect, Goto, Runs, sched, ts, raw
  <2> QED
    BY <1>5, <1>6, <2>1, <2>2, <2>3 DEF ThreadStep
<1>7. CASE UNCHANGED vars
  BY <1>7 DEF vars
<1> QED
  BY <1>1, <1>2, <1>3, <1>4, <1>5, <1>6, <1>7 DEF Next, IrqStep

\* The parts of kernel_time.ts that a step leaves alone.
LEMMA SourceKept ==
    ASSUME TInv, SetInv, booted' = booted, NEW c \in Ctx, NEW to, pc' = [pc EXCEPT ![c] = to],
           pc[c] \notin Replacing, to \notin Replacing,
           c \in Threads => back'[c] \in {"idle", back[c]} /\ (to \in Setting => to = back[c]),
           \A t \in Threads : t # c => back'[t] = back[t],
           UNCHANGED <<target, clock, read, frequency, csel>>
    PROVE  SetInv'
<1> USE KtimeAssumption DEF TInv, TypeOK, SetInv, Ctx
<1>1. \A t \in Threads : pc'[t] = IF t = c THEN to ELSE pc[t]
  OBVIOUS
<1>2. \A t \in Threads : pc'[t] \in Replacing <=> pc[t] \in Replacing
  BY <1>1
<1>3. \A t \in Threads : back'[t] # "idle" \/ pc'[t] \in Setting => t \in Switchers
  BY <1>1 DEF Setting
<1>4. booted' /\ (\A t \in Threads : pc'[t] \notin Replacing) => SourceConsistent'
  BY <1>2 DEF SourceConsistent
<1>5. \A t \in Threads :
         /\ pc'[t] \in Replacing => target'[t] # Jiffy /\ clock' = target'[t]
         /\ pc'[t] = "set2" => frequency' = Freq[read']
         /\ pc'[t] \in {"set3", "set4"} => read' = target'[t]
  BY <1>1, <1>2 DEF Replacing
<1>6. Jiffy \notin registered' /\ current' # Jiffy
  BY DEF csel
<1> QED
  BY <1>3, <1>4, <1>5, <1>6

LEMMA SetStep == OneSwitcher /\ TInv /\ LInv /\ BeforeBoot /\ SetInv /\ [Next]_vars => SetInv'
<1> SUFFICES ASSUME OneSwitcher, TInv, LInv, BeforeBoot, SetInv, [Next]_vars PROVE SetInv'
  OBVIOUS
<1>0. Irq \notin Threads /\ None \notin Clocks /\ Jiffy \in Clocks /\ pc \in [Ctx -> PC]
      /\ back \in [Threads -> {"idle", "select", "set1"}]
      /\ target \in [Threads -> Clocks \cup {None}]
  BY KtimeAssumption DEF TInv, TypeOK
<1>1. CASE TimeInit
  <2>1. \A t \in Threads : pc[t] = "idle"
    BY <1>1 DEF TimeInit, BeforeBoot
  <2> QED
    BY <1>1, <2>1 DEF TimeInit, SetInv, SourceConsistent, Replacing, Setting, csel
<1>2. CASE TickEnter
  <2>1. \A t \in Threads : pc'[t] = pc[t]
    BY <1>0, <1>2 DEF TickEnter, Ctx
  <2> QED
    BY <1>2, <2>1 DEF TickEnter, SetInv, SourceConsistent, ts, csel
<1>3. ASSUME NEW c \in Clocks, CounterRuns(c)
      PROVE  SetInv'
  BY <1>3 DEF CounterRuns, SetInv, SourceConsistent, sched, ts, csel
<1>4. CASE TickReturn
  <2>1. \A t \in Threads : pc'[t] = pc[t]
    BY <1>0, <1>4 DEF TickReturn, Goto, Ctx
  <2> QED
    BY <1>4, <2>1 DEF TickReturn, SetInv, SourceConsistent, ts, csel
<1>5. ASSUME NEW c \in Ctx, TimeUpdate(c)
      PROVE  SetInv'
  <2>1. /\ booted' = booted /\ UNCHANGED <<target, clock, read, frequency, csel, back>>
        /\ \E to \in {"check", "unlock", "read", "last", "add", "coalesce", "resched", "get"} :
             pc' = [pc EXCEPT ![c] = to]
        /\ pc[c] \in Critical \cup {"lock"}
    BY <1>5 DEF TimeUpdate, SpinlockLock, CheckClock, ReadClock, SetLast, AddNsec, Coalesce,
                SpinlockUnlock, Goto, Critical, sched, ts
  <2>2. PICK to \in {"check", "unlock", "read", "last", "add", "coalesce", "resched", "get"} :
             pc' = [pc EXCEPT ![c] = to]
    BY <2>1
  <2>3. pc[c] \notin Replacing /\ to \notin Replacing /\ to \notin Setting
    BY <2>1, <2>2 DEF Critical, Replacing, Setting
  <2> QED
    BY <2>1, <2>2, <2>3, SourceKept
<1>6. ASSUME NEW t \in Threads, ThreadStep(t)
      PROVE  SetInv'
  <2>1. CASE KtimeGet(t)
    <3>1. /\ booted' = booted /\ UNCHANGED <<target, clock, read, frequency, csel>>
          /\ pc' = [pc EXCEPT ![t] = "lock"] /\ pc[t] = "idle"
          /\ back' = [back EXCEPT ![t] = "idle"]
      BY <2>1 DEF KtimeGet, Goto, sched, ts
    <3>2. back'[t] = "idle" /\ \A x \in Threads : x # t => back'[x] = back[x]
      BY <1>0, <3>1
    <3>3. pc[t] \notin Replacing /\ "lock" \notin Replacing /\ "lock" \notin Setting
      BY <3>1 DEF Replacing, Setting
    <3> QED
      BY <3>1, <3>2, <3>3, SourceKept DEF Ctx
  <2>2. CASE ReadFirstWord(t)
    <3>1. /\ booted' = booted /\ UNCHANGED <<target, clock, read, frequency, csel, back>>
          /\ \E to \in Getting : pc' = [pc EXCEPT ![t] = to]
          /\ pc[t] = "get"
      BY <2>2 DEF ReadFirstWord, Getting, Goto, sched, ts
    <3>2. PICK to \in Getting : pc' = [pc EXCEPT ![t] = to]
      BY <3>1
    <3>3. pc[t] \notin Replacing /\ to \notin Replacing /\ to \notin Setting
      BY <3>1, <3>2 DEF Replacing, Setting, Getting
    <3> QED
      BY <3>1, <3>2, <3>3, SourceKept DEF Ctx
  <2>3. CASE ReadSecondWord(t)
    <3>1. /\ booted' = booted /\ UNCHANGED <<target, clock, read, frequency, csel, back>>
          /\ pc' = [pc EXCEPT ![t] = back[t]] /\ pc[t] \in Getting
      BY <2>3 DEF ReadSecondWord, Goto, sched, ts
    <3>2. pc[t] \notin Replacing /\ back[t] \notin Replacing
      BY <1>0, <3>1 DEF Replacing, Getting
    <3> QED
      BY <3>1, <3>2, SourceKept DEF Ctx
  <2>4. CASE ClocksourceSelect(t)
    <3>1. /\ booted' = booted /\ UNCHANGED <<target, clock, read, frequency, registered>>
          /\ pc' = [pc EXCEPT ![t] = "lock"] /\ pc[t] = "select"
          /\ back' = [back EXCEPT ![t] = "set1"] /\ current' \in registered
      BY <2>4 DEF ClocksourceSelect, BestClock, Goto, sched, ts
    <3>2. t \in Switchers
      BY <3>1 DEF SetInv, Setting
    <3>3. \A x \in Threads : /\ pc'[x] = IF x = t THEN "lock" ELSE pc[x]
                             /\ back'[x] = IF x = t THEN "set1" ELSE back[x]
      BY <1>0, <3>1 DEF Ctx
    <3> QED
      BY <3>1, <3>2, <3>3 DEF SetInv, SourceConsistent, Setting, Replacing
  <2>5. ASSUME NEW cs \in Clocks, ClocksourceRegister(t, cs)
        PROVE  SetInv'
    <3>1. /\ booted' = booted /\ UNCHANGED <<target, clock, read, frequency, current>>
          /\ pc' = [pc EXCEPT ![t] = "lock"] /\ pc[t] = "idle" /\ t \in Switchers
          /\ back' = [back EXCEPT ![t] = "select"] /\ registered' = registered \cup {cs}
          /\ cs # Jiffy
      BY <2>5 DEF ClocksourceRegister, Goto, sched, ts
    <3>2. \A x \in Threads : /\ pc'[x] = IF x = t THEN "lock" ELSE pc[x]
                             /\ back'[x] = IF x = t THEN "select" ELSE back[x]
      BY <1>0, <3>1 DEF Ctx
    <3> QED
      BY <3>1, <3>2 DEF SetInv, SourceConsistent, Setting, Replacing
  <2>6. CASE TimeUpdateClocksource(t)
    <3>1. /\ booted' = booted /\ UNCHANGED <<csel, back>>
          /\ pc[t] \in Setting
      BY <2>6 DEF TimeUpdateClocksource, Goto, Setting, sched
    <3>2. t \in Switchers /\ booted /\ \A x \in Threads : x # t => pc[x] \notin Setting
      BY <3>1 DEF SetInv, OneSwitcher, TInv, SourceInv
    <3>3. \A x \in Threads : x # t => pc'[x] = pc[x]
      BY <1>0, <2>6 DEF TimeUpdateClocksource, Goto, Ctx
    <3>4. \A x \in Threads : x # t => pc[x] \notin Replacing /\ pc'[x] \notin Replacing
      BY <3>2, <3>3 DEF Setting, Replacing
    <3>5. CASE pc[t] = "set1"
      <4>1. /\ pc'[t] = "set2" /\ target'[t] = current /\ clock' = current
            /\ UNCHANGED <<read, frequency>>
        BY <1>0, <2>6, <3>5 DEF TimeUpdateClocksource, Goto, Ctx
      <4>2. SourceConsistent
        BY <3>2, <3>4, <3>5 DEF SetInv, Replacing
      <4> QED
        BY <3>1, <3>2, <3>3, <3>4, <4>1, <4>2 DEF SetInv, SourceConsistent, Setting, Replacing, csel
    <3>6. CASE pc[t] = "set2"
      <4>1. /\ pc'[t] = "set3" /\ read' = target[t]
            /\ UNCHANGED <<clock, frequency, target>>
        BY <1>0, <2>6, <3>6 DEF TimeUpdateClocksource, Goto, Ctx
      <4> QED
        BY <3>1, <3>2, <3>3, <3>4, <3>6, <4>1 DEF SetInv, Setting, Replacing, csel
    <3>7. CASE pc[t] = "set3"
      <4>1. /\ pc'[t] = "set4"
            /\ UNCHANGED <<clock, read, frequency, target>>
        BY <1>0, <2>6, <3>7 DEF TimeUpdateClocksource, Goto, Ctx
      <4> QED
        BY <3>1, <3>2, <3>3, <3>4, <3>7, <4>1 DEF SetInv, Setting, Replacing, csel
    <3>8. CASE pc[t] = "set4"
      <4>1. /\ pc'[t] = "idle" /\ frequency' = Freq[target[t]]
            /\ UNCHANGED <<clock, read, target>>
        BY <1>0, <2>6, <3>8 DEF TimeUpdateClocksource, Goto, Ctx
      <4>2. SourceConsistent'
        BY <3>8, <4>1 DEF SetInv, SourceConsistent, Replacing
      <4> QED
        BY <3>1, <3>2, <3>3, <3>4, <3>8, <4>1, <4>2 DEF SetInv, Setting, Replacing, csel
    <3> QED
      BY <2>6, <3>5, <3>6, <3>7, <3>8 DEF TimeUpdateClocksource, Goto
  <2> QED
    BY <1>5, <1>6, <2>1, <2>2, <2>3, <2>4, <2>5, <2>6 DEF ThreadStep, Ctx
<1>7. CASE UNCHANGED vars
  BY <1>7 DEF vars, SetInv, SourceConsistent
<1> QED
  BY <1>0, <1>1, <1>2, <1>3, <1>4, <1>5, <1>6, <1>7 DEF Next, IrqStep, Ctx

\* While the jiffies are read their frequency is in use.
LEMMA JiffyFrequency ==
    ASSUME SetInv, booted, read = Jiffy
    PROVE  frequency = Freq[Jiffy]
  BY DEF SetInv, SourceConsistent, Replacing

Ahead == {"lock", "check", "read", "last"}

LEMMA PerTickNat == PerTick \in Nat
  BY KtimeAssumption, DivNat DEF PerTick

\* What time_update adds for no tick and for one.
LEMMA OneTick ==
    ASSUME NSEC < Word
    PROVE  /\ TimeCycleToNs(0, Freq[Jiffy]) = 0
           /\ TimeCycleToNs(1, Freq[Jiffy]) = PerTick
<1>1. NSEC \in Nat /\ Word \in Nat \ {0} /\ Freq[Jiffy] \in Nat \ {0}
  BY KtimeAssumption
<1>2. \A n \in Nat, w \in Nat \ {0} : n < w => n % w = n
  OBVIOUS
<1>3. \A w \in Nat \ {0} : 0 \div w = 0
  OBVIOUS
<1>4. 0 * NSEC = 0 /\ 1 * NSEC = NSEC
  BY <1>1
<1>5. 0 % Word = 0 /\ NSEC % Word = NSEC
  BY <1>1, <1>2
<1> QED
  BY <1>1, <1>3, <1>4, <1>5 DEF TimeCycleToNs, PerTick

\* A step that neither counts nor adds.
LEMMA TickKept ==
    ASSUME TInv, TickInv, booted' = booted, UNCHANGED <<counter, read, last, sec, nsec>>,
           NEW c \in Ctx, NEW to, pc' = [pc EXCEPT ![c] = to],
           \A d \in Ctx : d # c => tmp'[d] = tmp[d],
           to # "last", to # "add", pc[c] # "add",
           c = Irq => (pc[c] \in Ahead <=> to \in Ahead)
    PROVE  TickInv'
<1> SUFFICES ASSUME booted, read = Jiffy PROVE TickInv'
  BY DEF TickInv
<1>1. Irq \in Ctx /\ Threads \subseteq Ctx /\ pc \in [Ctx -> PC]
  BY DEF Ctx, TInv, TypeOK
<1>2. \A d \in Ctx : pc'[d] = IF d = c THEN to ELSE pc[d]
  BY <1>1
<1>3. \A t \in Threads : /\ pc'[t] = "last" => tmp'[t] = last
                         /\ pc'[t] = "add" => tmp'[t] = 0
  BY <1>1, <1>2 DEF TickInv
<1>4. pc'[Irq] \in Ahead <=> pc[Irq] \in Ahead
  BY <1>1, <1>2
<1>5. counter'[Jiffy] = last' + (IF pc'[Irq] \in Ahead THEN 1 ELSE 0)
  BY <1>4 DEF TickInv, Ahead
<1>6. Total' = Total
  BY DEF Total
<1>7. /\ pc'[Irq] = "last" => pc[Irq] = "last" /\ tmp'[Irq] = tmp[Irq]
      /\ pc'[Irq] = "add" <=> pc[Irq] = "add"
      /\ pc'[Irq] = "add" => tmp'[Irq] = tmp[Irq]
  BY <1>1, <1>2
<1> QED
  BY <1>3, <1>5, <1>6, <1>7 DEF TickInv, Ahead

LEMMA TickStep ==
    ASSUME NSEC < Word, MaxCount < Word, OneSwitcher,
           TInv, LInv, BeforeBoot, SetInv, TickInv, [Next]_vars
    PROVE  TickInv'
<1>0. Irq \notin Threads /\ None \notin Clocks /\ Jiffy \in Clocks /\ pc \in [Ctx -> PC]
      /\ tmp \in [Ctx -> Nat] /\ counter \in [Clocks -> Nat] /\ last \in Nat
      /\ sec \in Nat /\ nsec \in Nat /\ NSEC \in Nat \ {0} /\ Word \in Nat \ {0, 1}
      /\ MaxCount \in Nat /\ Irq \in Ctx /\ Threads \subseteq Ctx
  BY KtimeAssumption DEF TInv, TypeOK, Ctx
<1>1. CASE TimeInit
  <2>1. \A t \in Threads : pc[t] = "idle"
    BY <1>1 DEF TimeInit, BeforeBoot
  <2>2. pc[Irq] = "idle" /\ counter[Jiffy] = 0
    BY <1>1 DEF TimeInit, BeforeBoot, LInv, IrqInv
  <2>3. pc' = pc /\ counter' = counter /\ last' = 0 /\ sec' = 0 /\ nsec' = 0
    BY <1>1, <2>2 DEF TimeInit
  <2>4. Total' = 0
    BY <1>0, <2>3 DEF Total
  <2> QED
    BY <2>1, <2>2, <2>3, <2>4, PerTickNat DEF TickInv
<1>2. CASE TickEnter
  <2> SUFFICES ASSUME booted, read = Jiffy PROVE TickInv'
    BY <1>2 DEF TickEnter, ts, TickInv
  <2>1. pc[Irq] = "idle" /\ counter[Jiffy] = last /\ Total = last * PerTick
    BY <1>0, <1>2 DEF TickEnter, LInv, IrqInv, TickInv
  <2>2. counter'[Jiffy] = (counter[Jiffy] + 1) % Word /\ counter[Jiffy] < MaxCount
    BY <1>0, <1>2 DEF TickEnter
  <2>3. \A n, m, w \in Nat : n < m /\ m < w => (n + 1) % w = n + 1
    OBVIOUS
  <2>4. counter'[Jiffy] = last + 1
    BY <1>0, <2>1, <2>2, <2>3
  <2>5. /\ UNCHANGED <<last, sec, nsec, tmp>> /\ pc'[Irq] = "lock"
        /\ \A t \in Threads : pc'[t] = pc[t]
    BY <1>0, <1>2 DEF TickEnter, ts, raw
  <2>6. Total' = Total
    BY <2>5 DEF Total
  <2> QED
    BY <2>1, <2>4, <2>5, <2>6 DEF TickInv
<1>3. ASSUME NEW c \in Clocks, CounterRuns(c)
      PROVE  TickInv'
  <2>1. counter'[Jiffy] = counter[Jiffy]
    BY <1>0, <1>3 DEF CounterRuns
  <2> QED
    BY <1>3, <2>1 DEF CounterRuns, TickInv, Total, sched, ts, raw
<1>4. CASE TickReturn
  <2>1. /\ pc' = [pc EXCEPT ![Irq] = "idle"] /\ pc[Irq] = "resched" /\ booted' = booted
        /\ UNCHANGED <<counter, read, last, sec, nsec, tmp>>
    BY <1>4 DEF TickReturn, Goto, ts, raw
  <2>2. "idle" # "last" /\ "idle" # "add" /\ "idle" \notin Ahead /\ "resched" \notin Ahead
    BY DEF Ahead
  <2> QED
    BY <1>0, <2>1, <2>2, TickKept
<1>5. ASSUME NEW c \in Ctx, TimeUpdate(c)
      PROVE  TickInv'
  <2> SUFFICES ASSUME booted, read = Jiffy PROVE TickInv'
    BY <1>5 DEF TimeUpdate, SpinlockLock, CheckClock, ReadClock, SetLast, AddNsec, Coalesce,
                SpinlockUnlock, sched, ts, TickInv
  <2>0. /\ c = Irq \/ (c \in Threads /\ pc[Irq] = "idle")
        /\ frequency = Freq[Jiffy] /\ clock # None
    <3>1. c = Irq \/ ~inIrq
      BY <1>5 DEF TimeUpdate, SpinlockLock, CheckClock, ReadClock, SetLast, AddNsec, Coalesce,
                  SpinlockUnlock, Goto, Runs
    <3> QED
      BY <3>1, JiffyFrequency DEF Ctx, LInv, IrqInv, TInv, SourceInv
  <2>1. CASE SpinlockLock(c) \/ CheckClock(c)
    <3>1. /\ \E to \in {"check", "read"} : pc' = [pc EXCEPT ![c] = to]
          /\ pc[c] \in {"lock", "check"} /\ booted' = booted
          /\ UNCHANGED <<counter, read, last, sec, nsec, tmp>>
      BY <2>0, <2>1 DEF SpinlockLock, CheckClock, Goto, sched, ts, raw
    <3>2. PICK to \in {"check", "read"} : pc' = [pc EXCEPT ![c] = to]
      BY <3>1
    <3>3. to # "last" /\ to # "add" /\ pc[c] # "add" /\ pc[c] \in Ahead /\ to \in Ahead
      BY <3>1, <3>2 DEF Ahead
    <3> QED
      BY <3>1, <3>2, <3>3, TickKept
  <2>2. CASE ReadClock(c)
    <3>1. /\ pc[c] = "read" /\ booted' = booted
          /\ UNCHANGED <<counter, read, last, sec, nsec>>
          /\ \A d \in Ctx : /\ pc'[d] = IF d = c THEN "last" ELSE pc[d]
                            /\ tmp'[d] = IF d = c THEN counter[Jiffy] ELSE tmp[d]
      BY <1>0, <2>2 DEF ReadClock, Goto, sched, ts, raw
    <3>2. tmp'[c] = IF c = Irq THEN last + 1 ELSE last
      BY <1>0, <2>0, <3>1 DEF TickInv
    <3>3. Total' = Total
      BY <3>1 DEF Total
    <3> QED
      BY <1>0, <2>0, <3>1, <3>2, <3>3 DEF TickInv
  <2>3. CASE SetLast(c)
    <3>1. /\ pc[c] = "last" /\ booted' = booted
          /\ UNCHANGED <<counter, read, sec, nsec>> /\ last' = tmp[c]
          /\ \A d \in Ctx : /\ pc'[d] = IF d = c THEN "add" ELSE pc[d]
                            /\ tmp'[d] = IF d = c THEN (tmp[c] - last) % Word ELSE tmp[d]
      BY <1>0, <2>3 DEF SetLast, Goto, sched, raw
    <3>2. \A n \in Nat, w \in Nat \ {0, 1} : (n - n) % w = 0 /\ (n + 1 - n) % w = 1
      OBVIOUS
    <3>3. Total' = Total
      BY <3>1 DEF Total
    <3>4. CASE c = Irq
      <4>1. tmp[c] = last + 1 /\ Total = last * PerTick /\ counter[Jiffy] = last + 1
        BY <3>1, <3>4 DEF TickInv
      <4>2. tmp'[Irq] = 1 /\ last' = last + 1
        BY <1>0, <3>1, <3>2, <3>4, <4>1
      <4>3. last * PerTick + PerTick = (last + 1) * PerTick
        BY <1>0, PerTickNat
      <4>4. \A t \in Threads : pc'[t] # "last" /\ pc'[t] # "add"
        <5>1. \A t \in Threads : ~InCritical(t)
          BY <3>1, <3>4 DEF LInv, IrqInv, Critical
        <5> QED
          BY <1>0, <3>1, <3>4, <5>1 DEF InCritical, Critical
      <4> QED
        BY <1>0, <3>1, <3>3, <3>4, <4>1, <4>2, <4>3, <4>4 DEF TickInv
    <3>5. CASE c \in Threads
      <4>1. tmp[c] = last /\ last' = last /\ pc[Irq] = "idle"
        BY <1>0, <2>0, <3>1, <3>5 DEF TickInv
      <4>2. tmp'[c] = 0
        BY <1>0, <3>1, <3>2, <4>1
      <4> QED
        BY <1>0, <3>1, <3>3, <3>5, <4>1, <4>2 DEF TickInv
    <3> QED
      BY <2>0, <3>4, <3>5
  <2>4. CASE AddNsec(c)
    <3>1. /\ pc[c] = "add" /\ booted' = booted
          /\ UNCHANGED <<counter, read, last, sec, tmp>>
          /\ nsec' = nsec + TimeCycleToNs(tmp[c], Freq[Jiffy])
          /\ \A d \in Ctx : pc'[d] = IF d = c THEN "coalesce" ELSE pc[d]
      BY <1>0, <2>0, <2>4 DEF AddNsec, Goto, sched, ts
    <3>2. CASE c = Irq
      <4>1. tmp[c] = 1 /\ Total + PerTick = last * PerTick /\ counter[Jiffy] = last
        BY <1>0, <3>1, <3>2 DEF TickInv
      <4>2. nsec' = nsec + PerTick
        BY <3>1, <4>1, OneTick
      <4>3. Total' = Total + PerTick
        BY <1>0, <3>1, <4>2, PerTickNat DEF Total
      <4> QED
        BY <1>0, <3>1, <3>2, <4>1, <4>3 DEF TickInv
    <3>3. CASE c \in Threads
      <4>1. tmp[c] = 0 /\ pc[Irq] = "idle"
        BY <1>0, <2>0, <3>1, <3>3 DEF TickInv
      <4>2. nsec' = nsec
        BY <1>0, <3>1, <4>1, OneTick
      <4>3. Total' = Total
        BY <3>1, <4>2 DEF Total
      <4> QED
        BY <1>0, <3>1, <3>3, <4>1, <4>3 DEF TickInv
    <3> QED
      BY <2>0, <3>2, <3>3
  <2>5. CASE Coalesce(c)
    <3>1. /\ pc[c] = "coalesce" /\ booted' = booted
          /\ UNCHANGED <<counter, read, last, tmp>>
          /\ \A d \in Ctx : d # c => pc'[d] = pc[d]
          /\ pc'[c] \in {"coalesce", "unlock"}
      BY <1>0, <2>5 DEF Coalesce, Goto, sched, ts
    <3>2. Total' = Total
      <4>1. (sec + 1) * NSEC = sec * NSEC + NSEC
        BY <1>0
      <4> QED
        BY <1>0, <2>5, <4>1 DEF Coalesce, Total, raw
    <3> QED
      BY <1>0, <3>1, <3>2 DEF TickInv
  <2>6. CASE SpinlockUnlock(c)
    <3>1. /\ \E to \in {"resched", "get"} : pc' = [pc EXCEPT ![c] = to]
          /\ pc[c] = "unlock" /\ booted' = booted
          /\ UNCHANGED <<counter, read, last, sec, nsec, tmp>>
      BY <2>6 DEF SpinlockUnlock, Goto, sched, ts, raw
    <3>2. PICK to \in {"resched", "get"} : pc' = [pc EXCEPT ![c] = to]
      BY <3>1
    <3>3. to # "last" /\ to # "add" /\ pc[c] # "add" /\ pc[c] \notin Ahead /\ to \notin Ahead
      BY <3>1, <3>2 DEF Ahead
    <3> QED
      BY <3>1, <3>2, <3>3, TickKept
  <2> QED
    BY <1>5, <2>1, <2>2, <2>3, <2>4, <2>5, <2>6 DEF TimeUpdate
<1>6. ASSUME NEW t \in Threads, ThreadStep(t)
      PROVE  TickInv'
  <2>1. CASE KtimeGet(t) \/ ReadFirstWord(t) \/ ReadSecondWord(t) \/ ClocksourceSelect(t)
             \/ \E cs \in Clocks : ClocksourceRegister(t, cs)
    <3>1. /\ booted' = booted /\ UNCHANGED <<counter, read, last, sec, nsec>>
          /\ pc[t] \in {"idle", "get", "select"} \cup Getting
          /\ \A d \in Ctx : d # t => tmp'[d] = tmp[d]
      BY <1>0, <2>1 DEF KtimeGet, ReadFirstWord, ReadSecondWord, ClocksourceSelect,
            ClocksourceRegister, Goto, sched, ts, raw
    <3>2. \E to \in {"lock", "sec2", "nsec2", "idle", "select", "set1"} : pc' = [pc EXCEPT ![t] = to]
      <4>1. back[t] \in {"idle", "select", "set1"}
        BY DEF TInv, TypeOK
      <4> QED
        BY <2>1, <4>1 DEF KtimeGet, ReadFirstWord, ReadSecondWord, ClocksourceSelect,
            ClocksourceRegister, Goto
    <3>3. PICK to \in {"lock", "sec2", "nsec2", "idle", "select", "set1"} :
            pc' = [pc EXCEPT ![t] = to]
      BY <3>2
    <3>4. to # "last" /\ to # "add" /\ pc[t] # "add" /\ t # Irq
      BY <1>0, <3>1, <3>3 DEF Getting
    <3> QED
      BY <1>0, <3>1, <3>3, <3>4, TickKept
  <2>2. CASE TimeUpdateClocksource(t)
    <3>1. booted' = booted /\ UNCHANGED <<counter, sec, nsec, tmp>>
      BY <2>2 DEF TimeUpdateClocksource, raw, sched
    <3>2. CASE pc[t] \in {"set1", "set4"}
      <4>1. /\ UNCHANGED <<read, last>>
            /\ \E to \in {"set2", "idle"} : pc' = [pc EXCEPT ![t] = to]
        BY <2>2, <3>2 DEF TimeUpdateClocksource, Goto
      <4>2. PICK to \in {"set2", "idle"} : pc' = [pc EXCEPT ![t] = to]
        BY <4>1
      <4>3. to # "last" /\ to # "add" /\ pc[t] # "add" /\ t # Irq
        BY <1>0, <3>2, <4>2
      <4> QED
        BY <1>0, <3>1, <4>1, <4>2, <4>3, TickKept
    <3>3. CASE pc[t] \in {"set2", "set3"}
      <4>1. read' = target[t] /\ target[t] # Jiffy
        BY <2>2, <3>3 DEF TimeUpdateClocksource, Goto, SetInv, Replacing
      <4> QED
        BY <4>1 DEF TickInv
    <3> QED
      BY <2>2, <3>2, <3>3 DEF TimeUpdateClocksource, Goto
  <2> QED
    BY <1>0, <1>5, <1>6, <2>1, <2>2 DEF ThreadStep
<1>7. CASE UNCHANGED vars
  BY <1>7 DEF vars, TickInv, Total
<1> QED
  BY <1>0, <1>1, <1>2, <1>3, <1>4, <1>5, <1>6, <1>7 DEF Next, IrqStep

\* With one thread that installs clock sources, as in the tree, every tick
\* enters kernel_time exactly once while the jiffies are the clock, however
\* threads and handlers interleave and whatever the frequency; and outside a
\* switch the clock, its counter and its frequency belong together.  The
\* hypotheses on the word hold for a second of 10^9 and 64 bits, until the
\* jiffies themselves wrap.
THEOREM TicksExact ==
    ASSUME NSEC < Word, MaxCount < Word, OneSwitcher
    PROVE  Spec => []TicksCountedOnce
<1> DEFINE Inv == LInv /\ BeforeBoot /\ SetInv /\ TickInv
<1>1. Init => Inv
  <2> SUFFICES ASSUME Init PROVE Inv
    OBVIOUS
  <2>1. LInv
    BY KtimeAssumption DEF Init, LInv, HolderHasCPU, IrqInv, InCritical, Critical, Ctx
  <2>2. BeforeBoot /\ TickInv
    BY KtimeAssumption DEF Init, BeforeBoot, TickInv, Ctx
  <2>3. SetInv
    BY KtimeAssumption DEF Init, SetInv, Replacing, Setting, Ctx
  <2> QED
    BY <2>1, <2>2, <2>3
<1>2. TInv /\ Inv /\ [Next]_vars => Inv'
  BY LockStep, BeforeStep, SetStep, TickStep DEF TInv
<1>3. TInv /\ Inv => TicksCountedOnce
  <2> SUFFICES ASSUME TInv, Inv PROVE TicksCountedOnce
    OBVIOUS
  <2>1. booted /\ (\A t \in Threads : pc[t] \notin Setting) => SourceConsistent
    BY DEF SetInv, Setting, Replacing
  <2>2. ASSUME lock = 0, read = Jiffy PROVE Total = last * (NSEC \div Freq[Jiffy])
    <3>1. pc[Irq] # "add"
      BY <2>2 DEF LInv, HolderHasCPU, InCritical, Critical, Ctx
    <3>2. booted
      BY <2>2, KtimeAssumption DEF BeforeBoot
    <3> QED
      BY <2>2, <3>1, <3>2 DEF TickInv, PerTick
  <2> QED
    BY <2>1, <2>2 DEF TicksCountedOnce
<1> HIDE DEF Inv
<1> QED
  BY <1>1, <1>2, <1>3, TInvAlways, PTL DEF Spec
=============================================================================
