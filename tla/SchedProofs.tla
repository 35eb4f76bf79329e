---------------------------- MODULE SchedProofs -----------------------------
(***************************************************************************)
(* Proofs about Sched, for any number of threads.                          *)
(***************************************************************************)
EXTENDS Sched, TLAPS

-----------------------------------------------------------------------------
(* Types and contexts, whoever creates threads and whoever exits.          *)

\* What a context of a thread in kthread_exit or in sched_add holds.
Holds(c) ==
    /\ c.pc \in ExitPCs => c.self \in exiting /\ c.arg = c.self
    /\ c.pc \in AddPCs \cup {"disable", "cli"} => c.arg \in Workers

\* Only a thread in kthread_exit runs without being current_thread.
CurrentRuns ==
    cpu.pc # "fault" => \/ currentThread = cpu.self
                        \/ currentThread = Null /\ cpu.pc \in ExitPCs

SavedOwn == \A t \in Thread : saved[t].self = t /\ saved[t].pc # "fault" /\ Holds(saved[t])

SwitchInv == TypeOK /\ SavedOwn /\ Holds(cpu) /\ CurrentRuns

\* The thread that runqueue_next returns is a thread or NULL, never the head.
LEMMA NextType == TypeOK => RunqueueNext \in Thread \cup {Null}
<1> SUFFICES ASSUME TypeOK PROVE RunqueueNext \in Thread \cup {Null}
  OBVIOUS
<1>1. Head \notin Thread /\ Idle \in Thread /\ Thread = Queueable \cup {Idle}
      /\ \A n \in Node : next[n] \in Queueable \cup {Head, Null}
  BY SchedAssumption DEF TypeOK, Thread, Node
<1>2. rqCurrent \in Queueable \cup {Idle, Null} /\ Head \in Node /\ Queueable \subseteq Node
  BY DEF TypeOK, Thread, Node
<1>3. CASE next[Head] = Head
  BY <1>1, <1>3 DEF RunqueueNext
<1>4. CASE next[Head] # Head
  <2>1. next[Head] \in Thread \cup {Null}
    BY <1>1, <1>2, <1>4
  <2>2. CASE rqCurrent \in {Null, Idle}
    BY <1>4, <2>1, <2>2 DEF RunqueueNext
  <2>3. CASE rqCurrent \notin {Null, Idle}
    <3>1. next[rqCurrent] # Head => next[rqCurrent] \in Thread \cup {Null}
      BY <1>1, <1>2, <2>3
    <3>2. RunqueueNext = IF next[rqCurrent] = Head THEN next[Head] ELSE next[rqCurrent]
      BY <1>4, <2>3 DEF RunqueueNext
    <3> QED
      BY <2>1, <3>1, <3>2
  <2> QED
    BY <2>2, <2>3
<1> QED
  BY <1>3, <1>4

LEMMA SavedType ==
    ASSUME TypeOK
    PROVE  /\ SavedContexts \in [Thread -> Context]
           /\ \A t \in Thread : SavedContexts[t] = IF t = currentThread THEN cpu ELSE saved[t]
  BY SchedAssumption DEF TypeOK, SavedContexts, Thread

\* The timer interrupt.
LEMMA TickStep == SwitchInv /\ Tick => SwitchInv'
<1> SUFFICES ASSUME SwitchInv, Tick PROVE SwitchInv'
  OBVIOUS
<1> DEFINE n == RunqueueNext
<1> DEFINE s == SavedContexts
<1>1. TypeOK
  BY DEF SwitchInv
<1>2. n \in Thread \cup {Null}
  BY <1>1, NextType
<1>3. s \in [Thread -> Context]
      /\ \A t \in Thread : s[t] = IF t = currentThread THEN cpu ELSE saved[t]
  BY <1>1, SavedType
<1>4. /\ cpu.pc # "fault" /\ rqCurrent' = n /\ currentThread' = n /\ saved' = s
      /\ cpu' = IF n \in attached THEN s[n] ELSE [cpu EXCEPT !.pc = "fault"]
      /\ UNCHANGED <<next, prev, numThreads, attached, depth, iflag, created, added, exiting>>
  BY DEF Tick, list, intr, hist
<1> HIDE DEF n, s
<1>5. cpu' \in Context /\ (n \notin attached => cpu'.pc = "fault")
  <2>1. CASE n \in attached
    BY <1>1, <1>3, <1>4, <2>1 DEF TypeOK
  <2>2. CASE n \notin attached
    BY <1>1, <1>4, <2>2 DEF TypeOK, Context, PC
  <2> QED
    BY <2>1, <2>2
<1>6. TypeOK'
  BY <1>1, <1>2, <1>3, <1>4, <1>5 DEF TypeOK
<1>7. ASSUME NEW t \in Thread
      PROVE  s[t].self = t /\ s[t].pc # "fault" /\ Holds(s[t])
  <2>1. CASE t = currentThread
    BY <1>3, <1>4, <2>1, SchedAssumption DEF SwitchInv, CurrentRuns, Thread
  <2>2. CASE t # currentThread
    BY <1>3, <2>2 DEF SwitchInv, SavedOwn
  <2> QED
    BY <2>1, <2>2
<1>8. SavedOwn'
  BY <1>4, <1>7 DEF SavedOwn, Holds
<1>9. Holds(cpu)' /\ CurrentRuns'
  <2>1. CASE n \in attached
    <3>1. cpu' = s[n] /\ n \in Thread
      BY <1>1, <1>4, <2>1 DEF TypeOK
    <3> QED
      BY <1>4, <1>7, <3>1 DEF Holds, CurrentRuns
  <2>2. CASE n \notin attached
    BY <1>4, <1>5, <2>2 DEF Holds, CurrentRuns, ExitPCs, AddPCs
  <2> QED
    BY <2>1, <2>2
<1> QED
  BY <1>6, <1>8, <1>9 DEF SwitchInv

\* A step of a thread that only moves it on, or that only changes the list.
LEMMA MoveStep ==
    ASSUME SwitchInv, NEW to \in PC, cpu.pc # "fault",
           cpu' = [cpu EXCEPT !.pc = to],
           next' \in [Node -> Node \cup {Null}], prev' \in [Node -> Node \cup {Null}],
           rqCurrent' \in Thread \cup {Null}, numThreads' \in Int, depth' \in Int,
           iflag' \in BOOLEAN, attached' \subseteq Thread, added' \subseteq Queueable,
           to \in ExitPCs => cpu.pc \in ExitPCs,
           to \in AddPCs \cup {"cli"} => cpu.pc \in AddPCs \cup {"disable", "cli"},
           to # "disable",
           \/ currentThread' = currentThread
           \/ currentThread' = Null /\ to \in ExitPCs,
           cpu.pc \in ExitPCs => to \in ExitPCs \cup {"fault"},
           UNCHANGED <<saved, created, exiting>>
    PROVE  SwitchInv'
<1>1. cpu' \in Context /\ cpu'.self = cpu.self /\ cpu'.arg = cpu.arg /\ cpu'.pc = to
  BY DEF SwitchInv, TypeOK, Context
<1>2. currentThread' \in Thread \cup {Null}
  BY DEF SwitchInv, TypeOK
<1>3. TypeOK'
  BY <1>1, <1>2 DEF SwitchInv, TypeOK
<1>4. SavedOwn'
  BY DEF SwitchInv, SavedOwn, Holds
<1>5. Holds(cpu)'
  BY <1>1 DEF SwitchInv, Holds
<1>6. CurrentRuns'
  BY <1>1 DEF SwitchInv, CurrentRuns
<1> QED
  BY <1>3, <1>4, <1>5, <1>6 DEF SwitchInv

\* kthread_create and kthread_exit start where a thread runs its function.
LEMMA CreateStep == SwitchInv /\ (\E t \in Workers : KthreadCreate(t)) => SwitchInv'
<1> SUFFICES ASSUME SwitchInv, NEW t \in Workers, KthreadCreate(t) PROVE SwitchInv'
  OBVIOUS
<1>1. /\ cpu.pc = "run" /\ created' = created \cup {t} /\ attached' = attached \cup {t}
      /\ saved' = [saved EXCEPT ![t] = FreshContext(t)]
      /\ cpu' = [cpu EXCEPT !.pc = IF Masked THEN "disable" ELSE "add1", !.arg = t]
      /\ UNCHANGED <<next, prev, rqCurrent, numThreads, currentThread, depth, iflag, added,
                     exiting>>
  BY DEF KthreadCreate, list, intr
<1>2. t \in Thread
  BY DEF Thread, Queueable
<1>3. /\ cpu' \in Context /\ cpu'.self = cpu.self /\ cpu'.arg = t
      /\ cpu'.pc \in {"disable", "add1"}
  BY <1>1, <1>2 DEF SwitchInv, TypeOK, Context, PC, AddPCs, MaskedPCs
<1>4. FreshContext(t) \in Context /\ FreshContext(t).self = t /\ FreshContext(t).pc = "run"
  BY <1>2 DEF FreshContext, Context, PC
<1>5. TypeOK'
  BY <1>1, <1>2, <1>3, <1>4 DEF SwitchInv, TypeOK
<1>6. SavedOwn'
  <2>1. ASSUME NEW u \in Thread
        PROVE  saved'[u].self = u /\ saved'[u].pc # "fault" /\ Holds(saved'[u])
    <3>1. CASE u = t
      BY <1>1, <1>4, <3>1 DEF SwitchInv, TypeOK, Holds, ExitPCs, AddPCs
    <3>2. CASE u # t
      BY <1>1, <3>2 DEF SwitchInv, TypeOK, SavedOwn
    <3> QED
      BY <3>1, <3>2
  <2> QED
    BY <1>1, <2>1 DEF SavedOwn, Holds
<1>7. Holds(cpu)' /\ CurrentRuns'
  BY <1>1, <1>3 DEF SwitchInv, CurrentRuns, Holds, ExitPCs
<1> QED
  BY <1>5, <1>6, <1>7 DEF SwitchInv

LEMMA ExitStep == SwitchInv /\ KthreadExit => SwitchInv'
<1> SUFFICES ASSUME SwitchInv, KthreadExit PROVE SwitchInv'
  OBVIOUS
<1>1. /\ cpu.pc = "run" /\ cpu.self \in Queueable
      /\ cpu' = [cpu EXCEPT !.pc = "remove1", !.arg = currentThread]
      /\ exiting' = exiting \cup {cpu.self}
      /\ UNCHANGED <<next, prev, rqCurrent, numThreads, currentThread, attached, saved, depth,
                     iflag, created, added>>
  BY SchedAssumption DEF KthreadExit, list, intr
<1>2. currentThread = cpu.self
  BY <1>1 DEF SwitchInv, CurrentRuns, ExitPCs
<1>3. cpu' \in Context /\ cpu'.self = cpu.self /\ cpu'.arg = cpu.self /\ cpu'.pc = "remove1"
  BY <1>1, <1>2 DEF SwitchInv, TypeOK, Context, PC, ExitPCs
<1>4. TypeOK'
  BY <1>1, <1>3 DEF SwitchInv, TypeOK
<1>5. SavedOwn'
  BY <1>1 DEF SwitchInv, SavedOwn, Holds
<1>6. Holds(cpu)' /\ CurrentRuns'
  BY <1>1, <1>2, <1>3 DEF CurrentRuns, Holds, ExitPCs, AddPCs
<1> QED
  BY <1>4, <1>5, <1>6 DEF SwitchInv

\* The stores to the list.
LEMMA ListTypes ==
    ASSUME SwitchInv, ListAdd \/ ListDelete
    PROVE  next' \in [Node -> Node \cup {Null}] /\ prev' \in [Node -> Node \cup {Null}]
<1>1. Head \in Node /\ Workers \subseteq Node /\ Queueable \subseteq Node
  BY DEF Node, Queueable
<1>2. next \in [Node -> Node \cup {Null}] /\ prev \in [Node -> Node \cup {Null}]
  BY DEF SwitchInv, TypeOK
<1>3. CASE ListAdd
  <2>1. cpu.pc \in AddPCs
    BY <1>3 DEF ListAdd, ListAdd1, ListAdd2, ListAdd3, ListAdd4, Goto, AddPCs
  <2>2. cpu.arg \in Node
    BY <1>1, <2>1 DEF SwitchInv, Holds
  <2> QED
    BY <1>1, <1>2, <1>3, <2>2 DEF ListAdd, ListAdd1, ListAdd2, ListAdd3, ListAdd4
<1>4. CASE ListDelete
  <2>1. cpu.pc \in ExitPCs
    BY <1>4 DEF ListDelete, ListDelete1, ListDelete2, ListDelete3, ListDelete4, Goto, ExitPCs
  <2>2. cpu.arg \in Node
    BY <1>1, <2>1 DEF SwitchInv, Holds, TypeOK
  <2> QED
    BY <1>1, <1>2, <1>4, <2>2
       DEF ListDelete, ListDelete1, ListDelete2, ListDelete3, ListDelete4
<1> QED
  BY <1>3, <1>4

LEMMA SwitchStep == SwitchInv /\ [Next]_vars => SwitchInv'
<1> SUFFICES ASSUME SwitchInv, [Next]_vars PROVE SwitchInv'
  OBVIOUS
<1>0. TypeOK
  BY DEF SwitchInv
<1> USE DEF PC, AddPCs, ExitPCs, MaskedPCs, Goto
<1>1. CASE InterruptDisable \/ InterruptEnable
  <2>1. depth' \in Int
    BY <1>0, <1>1 DEF InterruptDisable, InterruptEnable, TypeOK
  <2> QED
    BY <1>0, <1>1, <2>1, MoveStep DEF InterruptDisable, InterruptEnable, TypeOK, list, hist
<1>2. CASE Cli \/ Sti
  <2>1. iflag' \in BOOLEAN
    BY <1>2 DEF Cli, Sti
  <2> QED
    BY <1>0, <1>2, <2>1, MoveStep DEF Cli, Sti, TypeOK, list, hist
<1>3. CASE ListAdd
  <2>1. next' \in [Node -> Node \cup {Null}] /\ prev' \in [Node -> Node \cup {Null}]
    BY <1>3, ListTypes
  <2>2. PICK to \in {"add2", "add3", "add4", "add5"} :
          cpu.pc \in AddPCs /\ cpu' = [cpu EXCEPT !.pc = to]
    BY <1>3 DEF ListAdd, ListAdd1, ListAdd2, ListAdd3, ListAdd4
  <2>3. UNCHANGED <<rqCurrent, numThreads, currentThread, attached, saved, depth, iflag,
                    created, added, exiting>>
    BY <1>3 DEF ListAdd, intr, hist
  <2> QED
    BY <1>0, <2>1, <2>2, <2>3, MoveStep DEF TypeOK
<1>4. CASE RunqueueInsert
  <2>1. cpu.arg \in Workers
    BY <1>4 DEF RunqueueInsert, SwitchInv, Holds
  <2>2. numThreads' \in Int /\ added' \subseteq Queueable
    BY <1>0, <1>4, <2>1 DEF RunqueueInsert, TypeOK, Queueable
  <2> QED
    BY <1>0, <1>4, <2>2, MoveStep DEF RunqueueInsert, TypeOK, list, intr
<1>5. CASE SchedRemove
  <2>1. currentThread' = currentThread \/ currentThread' = Null
    BY <1>5 DEF SchedRemove
  <2> QED
    BY <1>0, <1>5, <2>1, MoveStep DEF SchedRemove, TypeOK, list, intr, hist
<1>6. CASE RunqueueRemove
  <2>1. rqCurrent' \in Thread \cup {Null}
    BY <1>0, <1>6 DEF RunqueueRemove, TypeOK
  <2> QED
    BY <1>0, <1>6, <2>1, MoveStep DEF RunqueueRemove, TypeOK, list, intr, hist
<1>7. CASE ListDelete
  <2>1. next' \in [Node -> Node \cup {Null}] /\ prev' \in [Node -> Node \cup {Null}]
    BY <1>7, ListTypes
  <2>2. PICK to \in {"del2", "del3", "del4", "dec", "fault"} :
          cpu.pc \in ExitPCs /\ cpu' = [cpu EXCEPT !.pc = to]
    BY <1>7 DEF ListDelete, ListDelete1, ListDelete2, ListDelete3, ListDelete4
  <2>3. UNCHANGED <<rqCurrent, numThreads, currentThread, attached, saved, depth, iflag,
                    created, added, exiting>>
    BY <1>7 DEF ListDelete, intr, hist
  <2> QED
    BY <1>0, <2>1, <2>2, <2>3, MoveStep DEF TypeOK
<1>8. CASE RunqueueRemoved
  <2>1. numThreads' \in Int
    BY <1>0, <1>8 DEF RunqueueRemoved, TypeOK
  <2> QED
    BY <1>0, <1>8, <2>1, MoveStep DEF RunqueueRemoved, TypeOK, list, intr, hist
<1>9. CASE ProcessRemoveThread
  <2>1. attached' \subseteq Thread
    BY <1>0, <1>9 DEF ProcessRemoveThread, TypeOK
  <2> QED
    BY <1>0, <1>9, <2>1, MoveStep DEF ProcessRemoveThread, TypeOK, list, intr, hist
<1>10. CASE UNCHANGED vars
  BY <1>10 DEF vars, SwitchInv, TypeOK, SavedOwn, Holds, CurrentRuns
<1> QED
  BY <1>1, <1>2, <1>3, <1>4, <1>5, <1>6, <1>7, <1>8, <1>9, <1>10, TickStep, CreateStep, ExitStep
     DEF Next, ThreadStep

LEMMA SwitchInit == Init => SwitchInv
<1> SUFFICES ASSUME Init PROVE SwitchInv
  OBVIOUS
<1> USE SchedAssumption DEF Init
<1>1. \A t \in Thread : /\ FreshContext(t) \in Context
                        /\ FreshContext(t).self = t /\ FreshContext(t).pc = "run"
  BY DEF FreshContext, Context, PC
<1>2. Kinit \in Thread /\ Idle \in Thread /\ Kinit \in Queueable /\ Kinit \in Node
      /\ Head \in Node
  BY DEF Thread, Queueable, Node
<1>3. next \in [Node -> Node \cup {Null}]
  BY <1>2
<1>4. cpu \in Context /\ saved \in [Thread -> Context] /\ iflag \in BOOLEAN
  BY <1>1, <1>2
<1>5. TypeOK
  BY <1>2, <1>3, <1>4 DEF TypeOK
<1>6. SavedOwn
  BY <1>1 DEF SavedOwn, Holds, ExitPCs, AddPCs
<1>7. Holds(cpu) /\ CurrentRuns
  BY <1>1, <1>2 DEF CurrentRuns, Holds, ExitPCs, AddPCs
<1> QED
  BY <1>5, <1>6, <1>7 DEF SwitchInv

\* Registers are never loaded into the wrong thread, whichever threads create
\* others or exit and wherever the timer interrupts them: each saved context
\* is that of its thread and current_thread is the thread that runs, until a
\* tick dereferences a thread it must not.
THEOREM ContextsKept == Spec => [](NoFault => ContextIntegrity)
<1>1. Init => SwitchInv
  BY SwitchInit
<1>2. SwitchInv => (NoFault => ContextIntegrity)
  BY DEF SwitchInv, NoFault, ContextIntegrity, CurrentRuns, SavedOwn, Holds
<1> QED
  BY <1>1, <1>2, SwitchStep, PTL DEF Spec

\* sched.c's types, as above.
THEOREM SchedTypes == Spec => []TypeOK
<1>1. Init => SwitchInv
  BY SwitchInit
<1>2. SwitchInv => TypeOK
  BY DEF SwitchInv
<1> QED
  BY <1>1, <1>2, SwitchStep, PTL DEF Spec

-----------------------------------------------------------------------------
(* Nobody exits, anybody may create: a tick finds a live thread.           *)

\* The threads whose insertion has at least begun.
Linked == {n \in Queueable : next[n] # Null}

\* In sched_add: the thread is alive, and from the second store on linked.
Alive(c) ==
    /\ c.pc \in AddPCs \cup {"disable", "cli"} => c.arg \in attached
    /\ c.pc \in {"add2", "add3", "add4", "add5"} => c.arg \in Linked

LinkInv ==
    /\ exiting = {}
    /\ next[Head] \in Linked /\ \A n \in Linked : next[n] \in Linked \cup {Head}
    /\ Linked \subseteq attached
    /\ rqCurrent \in Linked \cup {Null}
    /\ cpu.pc # "fault"
    /\ Alive(cpu) /\ \A t \in Thread : Alive(saved[t])

LEMMA LiveNext ==
    ASSUME SwitchInv, LinkInv
    PROVE  RunqueueNext \in Linked
<1>1. Head \notin Linked /\ Idle \notin Linked /\ Null \notin Linked
  BY SchedAssumption DEF Linked, Thread, Queueable
<1> QED
  BY <1>1 DEF LinkInv, RunqueueNext

LEMMA LinkStep ==
    ASSUME Exiters = {}
    PROVE  SwitchInv /\ LinkInv /\ [Next]_vars => LinkInv'
<1> SUFFICES ASSUME SwitchInv, LinkInv, [Next]_vars PROVE LinkInv'
  OBVIOUS
<1>0. /\ Head \notin Queueable /\ Workers \subseteq Queueable /\ Queueable \subseteq Node
      /\ Head \in Node /\ Queueable \subseteq Thread /\ Null \notin Node
  BY SchedAssumption DEF Node, Queueable, Thread
<1>1. /\ next \in [Node -> Node \cup {Null}] /\ saved \in [Thread -> Context]
      /\ cpu \in Context /\ currentThread \in Thread \cup {Null}
  BY DEF SwitchInv, TypeOK
<1>2. cpu.pc \notin ExitPCs /\ cpu.pc # "fault"
  BY DEF SwitchInv, Holds, LinkInv
<1>3. CASE Tick
  <2>1. /\ rqCurrent' = RunqueueNext /\ saved' = SavedContexts
        /\ cpu' = (IF RunqueueNext \in attached THEN SavedContexts[RunqueueNext]
                   ELSE [cpu EXCEPT !.pc = "fault"])
        /\ UNCHANGED <<next, attached, exiting>>
    BY <1>3 DEF Tick, list, hist
  <2>2. RunqueueNext \in Linked /\ RunqueueNext \in attached /\ RunqueueNext \in Thread
    BY <1>0, LiveNext DEF LinkInv, Linked
  <2>3. \A t \in Thread : SavedContexts[t] = IF t = currentThread THEN cpu ELSE saved[t]
    BY SavedType DEF SwitchInv
  <2>4. \A t \in Thread : Alive(SavedContexts[t]) /\ SavedContexts[t].pc # "fault"
    BY <1>2, <2>3 DEF LinkInv, SwitchInv, SavedOwn
  <2>5. /\ Linked' = Linked /\ exiting' = {}
        /\ cpu' = SavedContexts[RunqueueNext]
        /\ cpu'.pc # "fault"
    BY <2>1, <2>2, <2>4 DEF Linked, LinkInv
  <2>6. Alive(cpu)' /\ \A t \in Thread : Alive(saved[t])'
    BY <2>1, <2>2, <2>4, <2>5 DEF Alive
  <2> QED
    BY <2>1, <2>2, <2>5, <2>6 DEF LinkInv
<1>4. ASSUME NEW t \in Workers, KthreadCreate(t)
      PROVE  LinkInv'
  <2>1. /\ cpu' = [cpu EXCEPT !.pc = IF Masked THEN "disable" ELSE "add1", !.arg = t]
        /\ saved' = [saved EXCEPT ![t] = FreshContext(t)] /\ attached' = attached \cup {t}
        /\ UNCHANGED <<next, rqCurrent, exiting>>
    BY <1>4 DEF KthreadCreate, list
  <2>2. cpu'.pc \in {"disable", "add1"} /\ cpu'.arg = t
    BY <1>1, <2>1 DEF Context
  <2>3. Linked' = Linked
    BY <2>1 DEF Linked
  <2>4. Alive(cpu)'
    BY <2>1, <2>2 DEF Alive
  <2>5. ASSUME NEW u \in Thread PROVE Alive(saved[u])'
    <3>1. CASE u = t
      <4>1. saved'[u].pc = "run"
        BY <1>0, <1>1, <2>1, <3>1 DEF FreshContext
      <4> QED
        BY <4>1 DEF Alive, AddPCs
    <3>2. CASE u # t
      BY <1>1, <2>1, <2>3, <3>2 DEF Alive, LinkInv
    <3> QED
      BY <3>1, <3>2
  <2> QED
    BY <2>1, <2>2, <2>3, <2>4, <2>5 DEF LinkInv
<1>5. CASE InterruptDisable \/ Cli \/ InterruptEnable \/ Sti \/ RunqueueInsert
  <2>1. UNCHANGED <<next, rqCurrent, attached, saved, exiting>>
    BY <1>5 DEF InterruptDisable, Cli, InterruptEnable, Sti, RunqueueInsert, list, hist
  <2>2. /\ cpu'.arg = cpu.arg /\ cpu'.pc \in {"add1", "cli", "run", "enable", "sti"}
        /\ cpu'.pc \in {"add1", "cli"} => cpu.pc \in {"disable", "cli"}
    BY <1>1, <1>5 DEF InterruptDisable, Cli, InterruptEnable, Sti, RunqueueInsert, Goto, Context
  <2>3. Linked' = Linked
    BY <2>1 DEF Linked
  <2>4. Alive(cpu)' /\ \A t \in Thread : Alive(saved[t])'
    BY <2>1, <2>2, <2>3 DEF LinkInv, Alive, AddPCs
  <2> QED
    BY <2>1, <2>2, <2>3, <2>4 DEF LinkInv
<1>6. CASE ListAdd
  <2> DEFINE a == cpu.arg
  <2>1. /\ UNCHANGED <<rqCurrent, attached, saved, exiting>>
    BY <1>6 DEF ListAdd, hist
  <2>2. /\ cpu.pc \in {"add1", "add2", "add3", "add4"} /\ cpu'.arg = a
        /\ cpu'.pc \in {"add2", "add3", "add4", "add5"}
    BY <1>1, <1>6 DEF ListAdd, ListAdd1, ListAdd2, ListAdd3, ListAdd4, Goto, Context
  <2>3. a \in Workers /\ a \in attached /\ (cpu.pc # "add1" => a \in Linked)
    BY <2>2 DEF SwitchInv, Holds, LinkInv, Alive, AddPCs
  <2>4. \/ cpu.pc = "add1" /\ next' = [next EXCEPT ![a] = next[Head]]
        \/ cpu.pc # "add1" /\ next' = next
        \/ cpu.pc # "add1" /\ next' = [next EXCEPT ![Head] = a]
    BY <1>6 DEF ListAdd, ListAdd1, ListAdd2, ListAdd3, ListAdd4, Goto
  <2> HIDE DEF a
  <2>5. next[Head] \in Linked /\ next[Head] # Null
    BY <1>0 DEF LinkInv, Linked
  <2>6. /\ Linked' = Linked \cup {a} /\ next'[Head] \in Linked'
        /\ \A n \in Linked' : next'[n] \in Linked' \cup {Head}
    <3>1. CASE cpu.pc = "add1" /\ next' = [next EXCEPT ![a] = next[Head]]
      <4>1. a \in Node /\ a # Head /\ a \in Queueable
        BY <1>0, <2>3
      <4>2. next'[a] = next[Head] /\ \A n \in Node \ {a} : next'[n] = next[n]
        BY <1>1, <3>1, <4>1
      <4>3. Linked' = Linked \cup {a}
        BY <1>0, <2>5, <4>1, <4>2 DEF Linked
      <4> QED
        BY <1>0, <2>5, <4>1, <4>2, <4>3 DEF LinkInv, Linked
    <3>2. CASE cpu.pc # "add1" /\ next' = next
      BY <2>3, <3>2 DEF LinkInv, Linked
    <3>3. CASE cpu.pc # "add1" /\ next' = [next EXCEPT ![Head] = a]
      <4>1. next'[Head] = a /\ \A n \in Queueable : next'[n] = next[n]
        BY <1>0, <1>1, <3>3
      <4>2. Linked' = Linked
        BY <4>1 DEF Linked
      <4> QED
        BY <2>3, <3>3, <4>1, <4>2 DEF LinkInv, Linked
    <3> QED
      BY <2>4, <3>1, <3>2, <3>3
  <2>7. Alive(cpu)' /\ \A t \in Thread : Alive(saved[t])'
    BY <2>1, <2>2, <2>3, <2>6 DEF LinkInv, Alive, a
  <2> QED
    BY <2>1, <2>2, <2>3, <2>6, <2>7 DEF LinkInv
<1>7. CASE KthreadExit \/ SchedRemove \/ RunqueueRemove \/ ListDelete \/ RunqueueRemoved
           \/ ProcessRemoveThread
  BY <1>2, <1>7 DEF KthreadExit, SchedRemove, RunqueueRemove, ListDelete, ListDelete1,
                    ListDelete2, ListDelete3, ListDelete4, RunqueueRemoved,
                    ProcessRemoveThread, Goto, ExitPCs
<1>8. CASE UNCHANGED vars
  BY <1>8 DEF vars, LinkInv, Linked, Alive
<1> QED
  BY <1>3, <1>4, <1>5, <1>6, <1>7, <1>8 DEF Next, ThreadStep

LEMMA LinkInit == Init => LinkInv
<1> SUFFICES ASSUME Init PROVE LinkInv
  OBVIOUS
<1>0. /\ Kinit \in Queueable /\ Head \notin Queueable /\ Queueable \subseteq Node /\ Head \in Node
      /\ Null \notin Node /\ Kinit # Head /\ Kinit \in Thread
  BY SchedAssumption DEF Node, Queueable, Thread
<1>1. /\ next[Head] = Kinit /\ next[Kinit] = Head
      /\ \A n \in Node \ {Head, Kinit} : next[n] = Null
  BY <1>0 DEF Init
<1>2. Linked = {Kinit}
  BY <1>0, <1>1 DEF Linked
<1>3. Alive(cpu) /\ cpu.pc # "fault" /\ \A t \in Thread : Alive(saved[t])
  BY <1>0 DEF Init, FreshContext, Alive, AddPCs
<1> QED
  BY <1>0, <1>1, <1>2, <1>3 DEF Init, LinkInv

\* However many threads insert threads at the same time, with interrupts on,
\* no tick ever dereferences a null or dead thread and no context is mixed up
\* (sched_tick, runqueue_next, arch_thread_switch); insertions may lose
\* threads, but they never damage the ones that run.
THEOREM InsertionsNeverFault ==
    ASSUME Exiters = {}
    PROVE  Spec => [](NoFault /\ ContextIntegrity)
<1>1. Init => SwitchInv /\ LinkInv
  BY SwitchInit, LinkInit
<1>2. SwitchInv /\ LinkInv /\ [Next]_vars => (SwitchInv /\ LinkInv)'
  BY SwitchStep, LinkStep
<1>3. SwitchInv /\ LinkInv => NoFault /\ ContextIntegrity
  BY DEF SwitchInv, LinkInv, NoFault, ContextIntegrity, CurrentRuns, SavedOwn, Holds
<1> QED
  BY <1>1, <1>2, <1>3, PTL DEF Spec

-----------------------------------------------------------------------------
(* One creator, nobody exits: the queue is sound at every instant.         *)

Follows(nx, S) == nx[Head] \in S /\ \A n \in S \ {Head, Null} : nx[n] \in S

\* The threads of Q and the head are a ring, and the only one: every set
\* that a walk stays in has all of them.
IsRing(nx, Q) ==
    /\ \A n \in Q \cup {Head} : nx[n] \in Q \cup {Head}
    /\ \A S \in SUBSET (Node \cup {Null}) : Follows(nx, S) => Q \cup {Head} \subseteq S

\* A store to the links of a thread that is not in the ring.
LEMMA RingUnlinked ==
    ASSUME NEW Q \in SUBSET Queueable, NEW nx, NEW ny, IsRing(nx, Q),
           \A n \in Q \cup {Head} : ny[n] = nx[n]
    PROVE  IsRing(ny, Q)
<1>1. \A n \in Q \cup {Head} : ny[n] \in Q \cup {Head}
  BY DEF IsRing
<1>2. ASSUME NEW S \in SUBSET (Node \cup {Null}), Follows(ny, S)
      PROVE  Q \cup {Head} \subseteq S
  <2> DEFINE T == S \cap (Q \cup {Head})
  <2>1. Follows(nx, T) /\ T \in SUBSET (Node \cup {Null})
    BY <1>1, <1>2 DEF Follows
  <2> QED
    BY <2>1 DEF IsRing
<1> QED
  BY <1>1, <1>2 DEF IsRing

\* The last store of list_add.
LEMMA RingInsert ==
    ASSUME NEW Q \in SUBSET Queueable, NEW a \in Queueable \ Q, NEW nx, NEW ny, IsRing(nx, Q),
           nx[a] = nx[Head], ny[Head] = a, \A n \in Node \ {Head} : ny[n] = nx[n]
    PROVE  IsRing(ny, Q \cup {a})
<1>1. Queueable \subseteq Node /\ Head \notin Queueable /\ a # Head /\ a # Null /\ a \in Node
  BY SchedAssumption DEF Node, Queueable, Thread
<1>2. \A n \in (Q \cup {a}) \cup {Head} : ny[n] \in (Q \cup {a}) \cup {Head}
  BY <1>1 DEF IsRing
<1>3. ASSUME NEW S \in SUBSET (Node \cup {Null}), Follows(ny, S)
      PROVE  (Q \cup {a}) \cup {Head} \subseteq S
  <2>1. a \in S /\ nx[Head] \in S
    BY <1>1, <1>3 DEF Follows
  <2>2. Follows(nx, S)
    <3>1. ASSUME NEW n \in S \ {Head, Null} PROVE nx[n] \in S
      <4>1. n \in Node \ {Head} /\ ny[n] \in S
        BY <1>3 DEF Follows
      <4> QED
        BY <4>1
    <3> QED
      BY <2>1, <3>1 DEF Follows
  <2> QED
    BY <2>1, <2>2 DEF IsRing
<1> QED
  BY <1>2, <1>3 DEF IsRing

LEMMA FollowsNext ==
    \A S : /\ Followed(S) <=> Follows(next, S)
           /\ Followed(S)' <=> Follows(next', S)
  BY DEF Followed, Follows

Busy(c) == c.pc \in AddPCs \cup MaskedPCs

\* The threads that list_add has published.
PublishedBy(a, cs) == a \cup {c.arg : c \in {x \in cs : x.pc = "add5"}}
Published == PublishedBy(added, Contexts)

Others == {saved[t] : t \in Thread \ {cpu.self}}

LEMMA PublishedOne ==
    ASSUME NEW a, NEW c, NEW cs, \A x \in cs : x.pc = "run"
    PROVE  PublishedBy(a, {c} \cup cs) = a \cup (IF c.pc = "add5" THEN {c.arg} ELSE {})
<1>1. {x \in {c} \cup cs : x.pc = "add5"} = IF c.pc = "add5" THEN {c} ELSE {}
  OBVIOUS
<1> QED
  BY <1>1 DEF PublishedBy

\* Where the creator is in sched_add, and what its stores have done.
Inserting(c) ==
    /\ Busy(c) => c.self \in Creators
    /\ ~Busy(c) => c.pc = "run"
    /\ c.pc \in AddPCs \cup {"disable", "cli"} => c.arg \in created /\ c.arg \in attached
    /\ c.pc \in {"disable", "cli", "add1", "add2", "add3", "add4"} => c.arg \notin added
    /\ c.pc \in {"add2", "add3", "add4"} => next[c.arg] = next[Head]
    /\ c.pc \in {"add3", "add4"} => prev[c.arg] = Head
    /\ c.pc = "add4" => prev[next[Head]] = c.arg

BackRing ==
    /\ \A n \in Published : prev[next[n]] = n
    /\ prev[next[Head]] = Head \/ \E c \in Contexts : c.pc = "add4"

QueueInv ==
    /\ exiting = {}
    /\ \A c \in Contexts : Inserting(c)
    /\ Kinit \in added /\ Published \subseteq Queueable \cap created \cap attached
    /\ IsRing(next, Published)
    /\ BackRing
    /\ rqCurrent \in Published \cup {Null}

\* The invariant says what QueueSound asks for.
LEMMA QueueInvSound == SwitchInv /\ QueueInv => QueueSound
<1> SUFFICES ASSUME SwitchInv, QueueInv PROVE QueueSound
  OBVIOUS
<1> DEFINE Q == Published
<1>0. /\ Head \notin Queueable /\ Null \notin Queueable /\ Queueable \subseteq Node /\ Head \in Node
      /\ Q \subseteq Queueable /\ added \subseteq Q
  BY SchedAssumption DEF Node, Queueable, Thread, QueueInv, Published, PublishedBy
<1> HIDE DEF Q
<1>1. IsRing(next, Q) /\ rqCurrent \in Q \cup {Null}
  BY DEF QueueInv, Q
<1>2. OnWalk = Q \cup {Head}
  <2>1. Q \cup {Head} \subseteq OnWalk
    BY <1>0, <1>1, FollowsNext DEF OnWalk, IsRing
  <2>2. Followed(Q \cup {Head}) /\ Q \cup {Head} \in SUBSET (Node \cup {Null})
    BY <1>0, <1>1, FollowsNext DEF IsRing, Follows
  <2>3. OnWalk \subseteq Q \cup {Head}
    BY <2>2 DEF OnWalk
  <2> QED
    BY <2>1, <2>3
<1>3. OnQueue = Q
  BY <1>0, <1>2 DEF OnQueue
<1>4. TypeOK
  BY DEF SwitchInv
<1>5. NoFault
  BY DEF NoFault, QueueInv, Contexts, Inserting, Busy, AddPCs, MaskedPCs
<1>6. AllRunnableQueued
  BY <1>0, <1>3 DEF AllRunnableQueued
<1>7. CursorOnQueue
  BY <1>1, <1>2, <1>3 DEF CursorOnQueue
<1>8. BackLinks
  BY <1>3 DEF BackLinks, QueueInv, BackRing, Q
<1> QED
  BY <1>4, <1>5, <1>6, <1>7, <1>8 DEF QueueSound

\* The threads that are not running have nothing half done while the one
\* creator is in sched_add.
LEMMA Alone ==
    ASSUME SwitchInv, QueueInv, \A x, y \in Creators : x = y, Busy(cpu)
    PROVE  \A c \in Others : c.pc = "run"
<1> SUFFICES ASSUME NEW t \in Thread \ {cpu.self} PROVE saved[t].pc = "run"
  BY DEF Others
<1>1. saved[t].self = t
  BY DEF SwitchInv, SavedOwn
<1>2. Inserting(cpu) /\ Inserting(saved[t])
  BY DEF QueueInv, Contexts
<1> QED
  BY <1>1, <1>2 DEF Inserting

\* What a step of the creator leaves alone.
LEMMA BusyFrame ==
    ASSUME SwitchInv, QueueInv, \A x, y \in Creators : x = y, Busy(cpu),
           UNCHANGED <<saved, exiting>>, cpu'.self = cpu.self
    PROVE  /\ Contexts = {cpu} \cup Others /\ Contexts' = {cpu'} \cup Others
           /\ \A c \in Others : c.pc = "run"
           /\ Published = added \cup (IF cpu.pc = "add5" THEN {cpu.arg} ELSE {})
           /\ Published' = added' \cup (IF cpu'.pc = "add5" THEN {cpu'.arg} ELSE {})
           /\ Inserting(cpu)' => \A c \in Contexts' : Inserting(c)'
           /\ cpu.self \in Creators
<1>1. Contexts = {cpu} \cup Others /\ Contexts' = {cpu'} \cup Others
  BY DEF Contexts, Others
<1>2. \A c \in Others : c.pc = "run"
  BY Alone
<1>3. Published = added \cup (IF cpu.pc = "add5" THEN {cpu.arg} ELSE {})
  BY <1>1, <1>2, PublishedOne DEF Published
<1>4. Published' = added' \cup (IF cpu'.pc = "add5" THEN {cpu'.arg} ELSE {})
  <2>1. Published' = PublishedBy(added', Contexts')
    BY DEF Published, PublishedBy
  <2> QED
    BY <1>1, <1>2, <2>1, PublishedOne
<1>5. \A c \in Others : Inserting(c)'
  BY <1>2 DEF Inserting, Busy, AddPCs, MaskedPCs
<1>6. Inserting(cpu)
  BY <1>1 DEF QueueInv
<1> QED
  BY <1>1, <1>2, <1>3, <1>4, <1>5, <1>6 DEF Inserting

LEMMA MaskingStep ==
    ASSUME SwitchInv, QueueInv, \A x, y \in Creators : x = y,
           InterruptDisable \/ Cli \/ InterruptEnable \/ Sti \/ RunqueueInsert
    PROVE  QueueInv'
<1>1. /\ cpu \in Context /\ UNCHANGED <<next, prev, rqCurrent, attached, saved, created, exiting>>
  BY DEF SwitchInv, TypeOK, InterruptDisable, Cli, InterruptEnable, Sti, RunqueueInsert, list,
         hist
<1>2. /\ cpu'.self = cpu.self /\ cpu'.arg = cpu.arg
      /\ cpu.pc \in {"disable", "cli", "enable", "sti", "add5"}
      /\ cpu'.pc \in {"add1", "cli", "run", "enable", "sti"}
      /\ cpu'.pc \in {"add1", "cli"} => cpu.pc \in {"disable", "cli"}
      /\ added' = added \cup (IF cpu.pc = "add5" THEN {cpu.arg} ELSE {})
  <2>1. CASE RunqueueInsert
    BY <1>1, <2>1 DEF RunqueueInsert, Goto, Context
  <2>2. CASE InterruptDisable \/ Cli \/ InterruptEnable \/ Sti
    BY <1>1, <2>2 DEF InterruptDisable, Cli, InterruptEnable, Sti, Goto, Context, hist
  <2> QED
    BY <2>1, <2>2
<1>3. Busy(cpu)
  BY <1>2 DEF Busy, AddPCs, MaskedPCs
<1>4. /\ Contexts = {cpu} \cup Others /\ Contexts' = {cpu'} \cup Others
      /\ \A c \in Others : c.pc = "run"
      /\ Published = added \cup (IF cpu.pc = "add5" THEN {cpu.arg} ELSE {})
      /\ Published' = added' \cup (IF cpu'.pc = "add5" THEN {cpu'.arg} ELSE {})
      /\ Inserting(cpu)' => \A c \in Contexts' : Inserting(c)'
      /\ cpu.self \in Creators
  BY <1>1, <1>2, <1>3, BusyFrame
<1>5. Published' = Published
  BY <1>2, <1>4
<1>6. Inserting(cpu)
  BY <1>4 DEF QueueInv
<1>7. cpu'.pc \in {"add1", "cli"} => cpu.arg \in created /\ cpu.arg \in attached
                                     /\ cpu.arg \notin added
  BY <1>2, <1>6 DEF Inserting, AddPCs
<1>8. Inserting(cpu)'
  BY <1>1, <1>2, <1>4, <1>7 DEF Inserting, Busy, AddPCs, MaskedPCs
<1>9. BackRing'
  <2>1. \A c \in Contexts : c.pc # "add4"
    BY <1>2, <1>4
  <2> QED
    BY <1>1, <1>5, <2>1 DEF QueueInv, BackRing
<1>10. Kinit \in added'
  BY <1>2 DEF QueueInv
<1> QED
  BY <1>1, <1>4, <1>5, <1>8, <1>9, <1>10 DEF QueueInv, IsRing, Follows

LEMMA InsertStep ==
    ASSUME SwitchInv, QueueInv, \A x, y \in Creators : x = y, ListAdd
    PROVE  QueueInv'
<1> DEFINE a == cpu.arg
<1> DEFINE Q == Published
<1>0. /\ Head \notin Queueable /\ Null \notin Queueable /\ Queueable \subseteq Node /\ Head \in Node
      /\ Workers \subseteq Queueable
  BY SchedAssumption DEF Node, Queueable, Thread
<1>1. /\ cpu \in Context /\ UNCHANGED <<rqCurrent, attached, saved, created, added, exiting>>
      /\ next \in [Node -> Node \cup {Null}] /\ prev \in [Node -> Node \cup {Null}]
  BY DEF SwitchInv, TypeOK, ListAdd, hist
<1>2. /\ cpu'.self = cpu.self /\ cpu'.arg = a
      /\ \/ /\ cpu.pc = "add1" /\ cpu'.pc = "add2"
            /\ next' = [next EXCEPT ![a] = next[Head]] /\ prev' = prev
         \/ /\ cpu.pc = "add2" /\ cpu'.pc = "add3"
            /\ prev' = [prev EXCEPT ![a] = Head] /\ next' = next
         \/ /\ cpu.pc = "add3" /\ cpu'.pc = "add4"
            /\ prev' = [prev EXCEPT ![next[Head]] = a] /\ next' = next
         \/ /\ cpu.pc = "add4" /\ cpu'.pc = "add5"
            /\ next' = [next EXCEPT ![Head] = a] /\ prev' = prev
  BY <1>1 DEF ListAdd, ListAdd1, ListAdd2, ListAdd3, ListAdd4, Goto, Context
<1>3. Busy(cpu)
  BY <1>2 DEF Busy, AddPCs
<1>4. /\ Contexts = {cpu} \cup Others /\ Contexts' = {cpu'} \cup Others
      /\ \A c \in Others : c.pc = "run"
      /\ Q = added \cup (IF cpu.pc = "add5" THEN {a} ELSE {})
      /\ Published' = added' \cup (IF cpu'.pc = "add5" THEN {cpu'.arg} ELSE {})
      /\ Inserting(cpu)' => \A c \in Contexts' : Inserting(c)'
      /\ cpu.self \in Creators
  BY <1>1, <1>2, <1>3, BusyFrame
<1>5. Inserting(cpu) /\ a \in Workers
  BY <1>2, <1>4 DEF QueueInv, SwitchInv, Holds, AddPCs
<1> HIDE DEF a, Q
<1>6. /\ Q = added /\ a \notin Q /\ a \in Queueable /\ a # Head /\ a \in Node
      /\ a \in created /\ a \in attached
  BY <1>0, <1>2, <1>4, <1>5 DEF Inserting, AddPCs, a
<1>7. /\ Published' = IF cpu.pc = "add4" THEN Q \cup {a} ELSE Q
      /\ Q \subseteq Queueable \cap created \cap attached
  BY <1>1, <1>2, <1>4, <1>6 DEF QueueInv, Q
<1>8. /\ Kinit \in Q /\ IsRing(next, Q) /\ rqCurrent \in Q \cup {Null}
      /\ \A n \in Q : prev[next[n]] = n
      /\ cpu.pc # "add4" => prev[next[Head]] = Head
  <2>1. cpu.pc # "add4" => \A c \in Contexts : c.pc # "add4"
    BY <1>2, <1>4
  <2> QED
    BY <1>6, <2>1 DEF QueueInv, BackRing, Q
<1>9. \A n \in Q \cup {Head} : next[n] \in Q \cup {Head} /\ n \in Node /\ next[n] # a
  BY <1>0, <1>6, <1>7, <1>8 DEF IsRing
<1>10. next[Head] \in Q
  <2>1. next[Head] # Head
    <3>1. SUFFICES ASSUME next[Head] = Head PROVE FALSE
      OBVIOUS
    <3>2. Follows(next, {Head}) /\ {Head} \in SUBSET (Node \cup {Null})
      BY <1>0, <3>1 DEF Follows
    <3>3. Kinit \in {Head}
      BY <1>8, <3>2 DEF IsRing
    <3> QED
      BY <3>3, SchedAssumption DEF Thread, Queueable
  <2> QED
    BY <1>9, <2>1
<1>11. IsRing(next', Published') /\ BackRing' /\ Inserting(cpu)'
  <2>1. CASE cpu.pc = "add1"
    <3>1. next'[a] = next[Head] /\ \A n \in Node \ {a} : next'[n] = next[n]
      BY <1>1, <1>2, <1>6, <2>1
    <3>2. \A n \in Q \cup {Head} : next'[n] = next[n]
      BY <1>6, <1>9, <3>1
    <3>3. IsRing(next', Published')
      BY <1>7, <1>8, <2>1, <3>2, RingUnlinked
    <3>4. BackRing'
      BY <1>2, <1>7, <1>8, <2>1, <3>2 DEF BackRing
    <3>5. next'[a] = next'[Head]
      BY <3>1, <3>2
    <3> QED
      BY <1>1, <1>2, <1>4, <1>6, <2>1, <3>3, <3>4, <3>5
         DEF Inserting, Busy, AddPCs, MaskedPCs
  <2>2. CASE cpu.pc = "add2"
    <3>1. prev'[a] = Head /\ \A n \in Node \ {a} : prev'[n] = prev[n]
      BY <1>1, <1>2, <1>6, <2>2
    <3>2. \A n \in Q \cup {Head} : prev'[next[n]] = prev[next[n]]
      BY <1>0, <1>7, <1>9, <3>1
    <3>3. next' = next /\ Published' = Q
      BY <1>2, <1>7, <2>2
    <3>4. BackRing'
      BY <1>8, <2>2, <3>2, <3>3 DEF BackRing
    <3>5. next[a] = next[Head]
      BY <1>5, <2>2 DEF Inserting, a
    <3> QED
      BY <1>1, <1>2, <1>4, <1>6, <1>8, <2>2, <3>1, <3>3, <3>4, <3>5
         DEF Inserting, Busy, AddPCs, MaskedPCs
  <2>3. CASE cpu.pc = "add3"
    <3>1. prev'[next[Head]] = a /\ \A n \in Node \ {next[Head]} : prev'[n] = prev[n]
      BY <1>0, <1>1, <1>2, <1>7, <1>10, <2>3
    <3>2. next' = next /\ Published' = Q
      BY <1>2, <1>7, <2>3
    <3>3. \A n \in Q : next[n] # next[Head]
      BY <1>0, <1>7, <1>8, <2>3
    <3>4. \A n \in Q : prev'[next[n]] = n
      BY <1>0, <1>7, <1>8, <1>9, <3>1, <3>3
    <3>5. BackRing'
      BY <1>2, <1>4, <2>3, <3>2, <3>4 DEF BackRing
    <3>6. next[a] = next[Head] /\ prev[a] = Head
      BY <1>5, <2>3 DEF Inserting, a
    <3>7. prev'[a] = Head
      BY <1>6, <1>10, <3>1, <3>6
    <3> QED
      BY <1>1, <1>2, <1>4, <1>6, <1>8, <2>3, <3>1, <3>2, <3>5, <3>6, <3>7
         DEF Inserting, Busy, AddPCs, MaskedPCs
  <2>4. CASE cpu.pc = "add4"
    <3>1. next'[Head] = a /\ \A n \in Node \ {Head} : next'[n] = next[n]
      BY <1>0, <1>1, <1>2, <2>4
    <3>2. prev' = prev /\ Published' = Q \cup {a}
      BY <1>2, <1>7, <2>4
    <3>3. next[a] = next[Head] /\ prev[a] = Head /\ prev[next[Head]] = a
      BY <1>5, <2>4 DEF Inserting, a
    <3>4. IsRing(next', Q \cup {a})
      BY <1>6, <1>7, <1>8, <3>1, <3>3, RingInsert
    <3>5. \A n \in Q \cup {a} : prev[next'[n]] = n
      BY <1>0, <1>6, <1>7, <1>8, <3>1, <3>3
    <3>6. BackRing'
      BY <3>1, <3>2, <3>3, <3>5 DEF BackRing
    <3> QED
      BY <1>1, <1>2, <1>4, <1>6, <2>4, <3>2, <3>4, <3>6 DEF Inserting, Busy, AddPCs, MaskedPCs
  <2> QED
    BY <1>2, <2>1, <2>2, <2>3, <2>4
<1> QED
  BY <1>1, <1>4, <1>6, <1>7, <1>8, <1>11 DEF QueueInv

\* A tick goes on to a published thread and exchanges two contexts.
LEMMA QueueTick ==
    ASSUME SwitchInv, QueueInv, Tick
    PROVE  QueueInv'
<1> DEFINE n == RunqueueNext
<1>0. /\ Head \notin Queueable /\ Null \notin Queueable /\ Queueable \subseteq Node /\ Head \in Node
      /\ Idle \notin Queueable /\ Queueable \subseteq Thread
  BY SchedAssumption DEF Node, Queueable, Thread
<1>1. /\ rqCurrent' = n /\ saved' = SavedContexts
      /\ cpu' = (IF n \in attached THEN SavedContexts[n] ELSE [cpu EXCEPT !.pc = "fault"])
      /\ UNCHANGED <<next, prev, attached, created, added, exiting>> /\ cpu.pc # "fault"
  BY DEF Tick, list, hist
<1>2. /\ Published \subseteq Queueable \cap created \cap attached /\ IsRing(next, Published)
      /\ rqCurrent \in Published \cup {Null} /\ Kinit \in Published
  BY DEF QueueInv, Published, PublishedBy
<1>3. next[Head] \in Published
  <2>1. next[Head] # Head
    <3>1. SUFFICES ASSUME next[Head] = Head PROVE FALSE
      OBVIOUS
    <3>2. Follows(next, {Head}) /\ {Head} \in SUBSET (Node \cup {Null})
      BY <1>0, <3>1 DEF Follows
    <3>3. Kinit \in {Head}
      BY <1>2, <3>2 DEF IsRing
    <3> QED
      BY <3>3, SchedAssumption DEF Thread, Queueable
  <2> QED
    BY <1>2, <2>1 DEF IsRing
<1>4. n \in Published
  BY <1>0, <1>2, <1>3 DEF RunqueueNext, IsRing
<1>5. n \in attached /\ n \in Thread
  BY <1>0, <1>2, <1>4
<1>6. currentThread = cpu.self /\ cpu.self \in Thread
  <2>1. cpu.pc \notin ExitPCs
    BY DEF QueueInv, Contexts, Inserting, Busy, AddPCs, MaskedPCs, ExitPCs
  <2> QED
    BY <1>1, <2>1 DEF SwitchInv, CurrentRuns, TypeOK, Context
<1>7. \A t \in Thread : SavedContexts[t] = IF t = cpu.self THEN cpu ELSE saved[t]
  BY <1>6, SavedType DEF SwitchInv
<1>8. cpu' = SavedContexts[n] /\ cpu'.self = n
  <2>1. cpu' = SavedContexts[n]
    BY <1>1, <1>5
  <2> QED
    BY <1>5, <1>7, <2>1 DEF SwitchInv, SavedOwn
<1> HIDE DEF n
<1>9. Contexts' = Contexts
  <2>1. Contexts = {SavedContexts[t] : t \in Thread}
    BY <1>6, <1>7 DEF Contexts
  <2>2. Contexts' = {cpu'} \cup {saved'[t] : t \in Thread \ {cpu'.self}}
    BY DEF Contexts
  <2>3. Contexts' = {SavedContexts[n]} \cup {SavedContexts[t] : t \in Thread \ {n}}
    BY <1>1, <1>8, <2>2
  <2> QED
    BY <1>5, <2>1, <2>3
<1>10. Published' = Published
  BY <1>1, <1>9 DEF Published, PublishedBy
<1>11. \A c \in Contexts' : Inserting(c)'
  BY <1>1, <1>9 DEF QueueInv, Inserting, Busy
<1>12. BackRing'
  BY <1>1, <1>9, <1>10 DEF QueueInv, BackRing
<1> QED
  BY <1>1, <1>2, <1>4, <1>10, <1>11, <1>12 DEF QueueInv, IsRing, Follows

\* A new thread is in nobody's way.
LEMMA QueueCreate ==
    ASSUME SwitchInv, QueueInv, \A x, y \in Creators : x = y,
           NEW t \in Workers, KthreadCreate(t)
    PROVE  QueueInv'
<1>1. /\ cpu.self \in Creators /\ cpu.pc = "run" /\ t \notin created
      /\ created' = created \cup {t} /\ attached' = attached \cup {t}
      /\ saved' = [saved EXCEPT ![t] = FreshContext(t)]
      /\ cpu' = [cpu EXCEPT !.pc = IF Masked THEN "disable" ELSE "add1", !.arg = t]
      /\ UNCHANGED <<next, prev, rqCurrent, added, exiting>>
  BY DEF KthreadCreate, list
<1>2. cpu'.self = cpu.self /\ cpu'.arg = t /\ cpu'.pc \in {"disable", "add1"}
  BY <1>1 DEF SwitchInv, TypeOK, Context
<1>3. \A u \in Thread \ {cpu.self} : saved[u].pc = "run"
  <2> SUFFICES ASSUME NEW u \in Thread \ {cpu.self} PROVE saved[u].pc = "run"
    OBVIOUS
  <2>1. saved[u].self = u /\ Inserting(saved[u])
    BY DEF SwitchInv, SavedOwn, QueueInv, Contexts
  <2> QED
    BY <1>1, <2>1 DEF Inserting
<1>4. \A u \in Thread \ {cpu.self} : saved'[u].pc = "run"
  BY <1>1, <1>3 DEF SwitchInv, TypeOK, FreshContext
<1>5. Contexts = {cpu} \cup Others /\ Contexts' = {cpu'} \cup Others'
      /\ (\A c \in Others : c.pc = "run") /\ (\A c \in Others' : c.pc = "run")
  BY <1>2, <1>3, <1>4 DEF Contexts, Others
<1>6. Published = added
  <2>1. Published = PublishedBy(added, {cpu} \cup Others)
    BY <1>5 DEF Published
  <2> QED
    BY <1>1, <1>5, <2>1, PublishedOne
<1>7. Published' = added
  <2>1. Published' = PublishedBy(added', {cpu'} \cup Others')
    BY <1>5 DEF Published, PublishedBy
  <2>2. PublishedBy(added', {cpu'} \cup Others')
          = added' \cup (IF cpu'.pc = "add5" THEN {cpu'.arg} ELSE {})
    BY <1>5, PublishedOne
  <2>3. cpu'.pc # "add5" /\ added' = added
    BY <1>1, <1>2
  <2> QED
    BY <2>1, <2>2, <2>3
<1>8. added \subseteq created
  BY <1>6 DEF QueueInv
<1>9. Inserting(cpu)'
  BY <1>1, <1>2, <1>8 DEF Inserting, Busy, AddPCs, MaskedPCs
<1>10. \A c \in Contexts' : Inserting(c)'
  BY <1>5, <1>9 DEF Inserting, Busy, AddPCs, MaskedPCs
<1>11. BackRing'
  <2>1. \A c \in Contexts : c.pc # "add4"
    BY <1>1, <1>5
  <2> QED
    BY <1>1, <1>6, <1>7, <2>1 DEF QueueInv, BackRing
<1> QED
  BY <1>1, <1>6, <1>7, <1>10, <1>11 DEF QueueInv, IsRing, Follows

LEMMA QueueStep ==
    ASSUME Exiters = {}, \A x, y \in Creators : x = y
    PROVE  SwitchInv /\ QueueInv /\ [Next]_vars => QueueInv'
<1> SUFFICES ASSUME SwitchInv, QueueInv, [Next]_vars PROVE QueueInv'
  OBVIOUS
<1>1. cpu.pc \notin ExitPCs
  BY DEF QueueInv, Contexts, Inserting, Busy, AddPCs, MaskedPCs, ExitPCs
<1>2. CASE KthreadExit \/ SchedRemove \/ RunqueueRemove \/ ListDelete \/ RunqueueRemoved
           \/ ProcessRemoveThread
  BY <1>1, <1>2 DEF KthreadExit, SchedRemove, RunqueueRemove, ListDelete, ListDelete1,
                    ListDelete2, ListDelete3, ListDelete4, RunqueueRemoved,
                    ProcessRemoveThread, Goto, ExitPCs
<1>3. CASE UNCHANGED vars
  <2>1. UNCHANGED <<Contexts, Published>>
    BY <1>3 DEF vars, Contexts, Published, PublishedBy
  <2>2. /\ UNCHANGED <<next, prev, rqCurrent, attached, created, added, exiting>>
    BY <1>3 DEF vars
  <2>3. \A c \in Contexts' : Inserting(c)'
    BY <2>1, <2>2 DEF QueueInv, Inserting, Busy
  <2> QED
    BY <2>1, <2>2, <2>3 DEF QueueInv, BackRing, IsRing, Follows
<1> QED
  BY <1>2, <1>3, QueueTick, QueueCreate, MaskingStep, InsertStep DEF Next, ThreadStep

LEMMA QueueInit == Init => QueueInv
<1> SUFFICES ASSUME Init PROVE QueueInv
  OBVIOUS
<1>0. /\ Kinit \in Queueable /\ Head \notin Queueable /\ Queueable \subseteq Node /\ Head \in Node
      /\ Null \notin Node /\ Kinit # Head /\ Kinit \in Thread /\ Kinit # Null
  BY SchedAssumption DEF Node, Queueable, Thread
<1>1. next[Head] = Kinit /\ next[Kinit] = Head /\ prev[Head] = Kinit /\ prev[Kinit] = Head
  BY <1>0 DEF Init
<1>2. \A c \in Contexts : c.pc = "run"
  BY <1>0 DEF Init, Contexts, FreshContext
<1>3. Published = {Kinit}
  BY <1>2 DEF Published, PublishedBy, Init
<1>4. \A c \in Contexts : Inserting(c)
  BY <1>2 DEF Inserting, Busy, AddPCs, MaskedPCs
<1>5. IsRing(next, {Kinit})
  BY <1>0, <1>1 DEF IsRing, Follows
<1>6. BackRing
  BY <1>1, <1>3 DEF BackRing
<1>7. {Kinit} \subseteq Queueable \cap created \cap attached /\ exiting = {} /\ Kinit \in added
      /\ rqCurrent = Null
  BY <1>0 DEF Init
<1> QED
  BY <1>3, <1>4, <1>5, <1>6, <1>7 DEF QueueInv

\* With one thread that creates threads (kinit, in the tree) and none that
\* exits, a tick between any two stores of list_add meets every runnable
\* thread, comes back to the head and finds the back links right, with
\* interrupts masked around sched_add or not and for any number of threads.
THEOREM OneCreatorQueueSound ==
    ASSUME Exiters = {}, \A x, y \in Creators : x = y
    PROVE  Spec => []QueueSound
<1>1. Init => SwitchInv /\ QueueInv
  BY SwitchInit, QueueInit
<1>2. SwitchInv /\ QueueInv /\ [Next]_vars => (SwitchInv /\ QueueInv)'
  BY SwitchStep, QueueStep
<1>3. SwitchInv /\ QueueInv => QueueSound
  BY QueueInvSound
<1> QED
  BY <1>1, <1>2, <1>3, PTL DEF Spec

-----------------------------------------------------------------------------
(* One creator, which masks interrupts, and one thread that exits.         *)

\* Where a creator's section is open, and where list_delete has unlinked the
\* thread.
OpenPCs == AddPCs \cup {"cli", "enable"}
OffPCs  == {"del3", "del4", "dec", "detach", "halt"}

Live(t) == IF t = cpu.self THEN cpu ELSE saved[t]

\* What a thread in sched_add has in hand.
Adding(c) ==
    /\ Busy(c) => c.self \in Creators
    /\ c.pc \in AddPCs \cup {"disable", "cli"} => c.arg \in created /\ c.arg \in attached
    /\ c.pc \in {"disable", "cli", "add1", "add2", "add3", "add4"} => c.arg \notin added

\* What the stores of list_add have done.
Stores ==
    /\ cpu.pc \in {"add2", "add3", "add4"} => next[cpu.arg] = next[Head]
    /\ cpu.pc \in {"add3", "add4"} => prev[cpu.arg] = Head
    /\ cpu.pc = "add4" => prev[next[Head]] = cpu.arg

\* A context that a tick may load: in sched_add it is not past the cli, and
\* in kthread_exit not past the store that clears current_thread.  What a
\* thread does beyond that store is lost at the next tick, and done again.
Ready(c) == c.pc \in {"run", "disable", "cli", "remove1"} /\ Adding(c)

Parked == \A t \in Thread : t # cpu.self \/ t \in Exiters => Ready(saved[t])

\* sched_add is not interrupted.
Sections ==
    /\ cpu.pc \in AddPCs \cup {"enable", "sti"} => ~iflag
    /\ \A t \in Creators : depth = IF Live(t).pc \in OpenPCs THEN 1 ELSE 0

\* The thread that leaves.
Leaving ==
    /\ exiting \subseteq Exiters \cap added
    /\ cpu.pc \in ExitPCs \ {"remove1"} => currentThread = Null
    /\ cpu.pc = "remove1" => currentThread = cpu.self
    /\ cpu.pc \in {"del1", "del2"} => rqCurrent # cpu.self
    /\ cpu.pc = "del2" => prev[next[cpu.self]] = prev[cpu.self]

Entered == added \cup (IF cpu.pc = "add5" THEN {cpu.arg} ELSE {})

\* The queue: a ring of the threads that were added and are not unlinked.
Queued(Q) ==
    /\ IsRing(next, Q)
    /\ \A m, n \in Q \cup {Head} : next[m] = next[n] => m = n
    /\ \A n \in Q \cup {Head} : \/ n \in exiting
                                \/ n = Head /\ cpu.pc = "add4"
                                \/ prev[next[n]] = n
    /\ Kinit \in Q /\ Q \subseteq Entered /\ Entered \ exiting \subseteq Q
    /\ Q \subseteq attached
    /\ rqCurrent \in Q \cup {Null}
    /\ IF cpu.pc \in OffPCs THEN cpu.self \notin Q ELSE cpu.self \in Q

ExitInv ==
    /\ cpu.pc # "fault" /\ Adding(cpu) /\ Stores
    /\ Entered \subseteq created
    /\ Parked /\ Sections /\ Leaving
    /\ \E Q \in SUBSET Queueable : Queued(Q)

\* The threads of the theorem below.
OneExit ==
    /\ Masked
    /\ \A x, y \in Creators : x = y
    /\ \A x, y \in Exiters : x = y
    /\ Creators \cap Exiters = {} /\ Kinit \notin Exiters

\* Which of the distinguished nodes are different.
LEMMA Nodes ==
    /\ Head \notin Queueable /\ Null \notin Queueable /\ Idle \notin Queueable
    /\ Head # Null /\ Queueable \subseteq Node /\ Head \in Node /\ Null \notin Node
    /\ Queueable \subseteq Thread /\ Workers \subseteq Queueable /\ Kinit \in Queueable
    /\ Creators \subseteq Queueable /\ Exiters \subseteq Queueable
  BY SchedAssumption DEF Node, Queueable, Thread

\* The first of a queue.
LEMMA FirstQueued ==
    ASSUME NEW Q \in SUBSET Queueable, NEW nx, IsRing(nx, Q), Kinit \in Q
    PROVE  nx[Head] \in Q
<1>1. SUFFICES ASSUME nx[Head] = Head PROVE FALSE
  BY DEF IsRing
<1>2. Follows(nx, {Head}) /\ {Head} \in SUBSET (Node \cup {Null})
  BY <1>1, Nodes DEF Follows
<1>3. Kinit \in {Head}
  BY <1>2 DEF IsRing
<1> QED
  BY <1>3, Nodes

\* A tick finds a thread of the queue.
LEMMA NextQueued ==
    ASSUME NEW Q \in SUBSET Queueable, IsRing(next, Q), Kinit \in Q, rqCurrent \in Q \cup {Null}
    PROVE  RunqueueNext \in Q
<1>1. next[Head] \in Q
  BY FirstQueued
<1> QED
  BY <1>1, Nodes DEF RunqueueNext, IsRing

\* A thread of the queue has exactly one before it, which is not itself.
LEMMA Predecessor ==
    ASSUME NEW Q \in SUBSET Queueable, NEW nx, IsRing(nx, Q), NEW e \in Q,
           \A m, n \in Q \cup {Head} : nx[m] = nx[n] => m = n
    PROVE  /\ nx[e] # e
           /\ \E p \in Q \cup {Head} : /\ p # e /\ nx[p] = e
                                       /\ \A n \in Q \cup {Head} : nx[n] = e => n = p
<1>1. \E p \in Q \cup {Head} : p # e /\ nx[p] = e
  <2> SUFFICES ASSUME \A p \in Q \cup {Head} : p # e => nx[p] # e PROVE FALSE
    OBVIOUS
  <2> DEFINE S == (Q \cup {Head}) \ {e}
  <2>1. e # Head /\ S \in SUBSET (Node \cup {Null})
    BY Nodes
  <2>2. Follows(nx, S)
    BY <2>1 DEF Follows, IsRing
  <2>3. e \in S
    BY <2>1, <2>2 DEF IsRing
  <2> QED BY <2>3
<1> QED
  BY <1>1

\* The second store of list_delete.
LEMMA RingRemove ==
    ASSUME NEW Q \in SUBSET Queueable, NEW e \in Q, NEW nx, NEW ny, IsRing(nx, Q), nx[e] # e,
           NEW p \in Q \cup {Head}, p # e, nx[p] = e, \A n \in Q \cup {Head} : nx[n] = e => n = p,
           ny[p] = nx[e], \A n \in Node \ {p} : ny[n] = nx[n]
    PROVE  IsRing(ny, Q \ {e})
<1>0. e # Head /\ e \in Node /\ p \in Node /\ p # Null /\ e # Null /\ Head \in Node /\ Head # Null
      /\ Q \subseteq Node
  BY Nodes
<1>1. \A n \in (Q \ {e}) \cup {Head} : ny[n] \in (Q \ {e}) \cup {Head}
  <2> SUFFICES ASSUME NEW n \in (Q \ {e}) \cup {Head} PROVE ny[n] \in (Q \ {e}) \cup {Head}
    OBVIOUS
  <2>1. CASE n = p
    BY <2>1 DEF IsRing
  <2>2. CASE n # p
    <3>1. ny[n] = nx[n] /\ nx[n] # e
      BY <1>0, <2>2
    <3> QED BY <3>1 DEF IsRing
  <2> QED BY <2>1, <2>2
<1>2. ASSUME NEW S \in SUBSET (Node \cup {Null}), Follows(ny, S)
      PROVE  (Q \ {e}) \cup {Head} \subseteq S
  <2>0. ny[Head] \in S /\ \A n \in S \ {Head, Null} : ny[n] \in S
    BY <1>2 DEF Follows
  <2>1. CASE p \in S \cup {Head}
    <3> DEFINE T == S \cup {e}
    <3>1. nx[e] \in S
      BY <1>0, <2>0, <2>1
    <3>2. nx[Head] \in T
      BY <1>0, <2>0
    <3>3. ASSUME NEW n \in T \ {Head, Null} PROVE nx[n] \in T
      <4>1. CASE n = p
        BY <4>1
      <4>2. CASE n = e
        BY <3>1, <4>2
      <4>3. CASE n # p /\ n # e
        <5>1. n \in S \ {Head, Null} /\ n \in Node
          BY <3>3, <4>3
        <5> QED BY <2>0, <4>3, <5>1
      <4> QED BY <4>1, <4>2, <4>3
    <3>4. Follows(nx, T) /\ T \in SUBSET (Node \cup {Null})
      BY <1>0, <3>2, <3>3 DEF Follows
    <3>5. Q \cup {Head} \subseteq T
      BY <3>4 DEF IsRing
    <3> QED BY <1>0, <3>5
  <2>2. CASE p \notin S \cup {Head}
    <3>1. nx[Head] \in S
      BY <1>0, <2>0, <2>2
    <3>2. ASSUME NEW n \in S \ {Head, Null} PROVE nx[n] \in S
      <4>1. n \in Node \ {p}
        BY <2>2, <3>2
      <4> QED BY <2>0, <4>1
    <3>3. Follows(nx, S)
      BY <3>1, <3>2 DEF Follows
    <3>4. Q \cup {Head} \subseteq S
      BY <3>3 DEF IsRing
    <3> QED BY <2>2, <3>4
  <2> QED BY <2>1, <2>2
<1> QED
  BY <1>1, <1>2 DEF IsRing

\* The invariant says what QueueSound asks for.
LEMMA ExitInvSound == SwitchInv /\ ExitInv => QueueSound
<1> SUFFICES ASSUME SwitchInv, ExitInv PROVE QueueSound
  OBVIOUS
<1>1. PICK Q \in SUBSET Queueable : Queued(Q)
  BY DEF ExitInv
<1>2. /\ IsRing(next, Q) /\ rqCurrent \in Q \cup {Null} /\ added \ exiting \subseteq Q
      /\ \A n \in Q \cup {Head} : n \in exiting \/ (n = Head /\ cpu.pc = "add4") \/ prev[next[n]] = n
  BY <1>1 DEF Queued, Entered
<1>3. OnWalk = Q \cup {Head}
  <2>1. Q \cup {Head} \subseteq OnWalk
    BY <1>2, Nodes, FollowsNext DEF OnWalk, IsRing
  <2>2. Followed(Q \cup {Head}) /\ Q \cup {Head} \in SUBSET (Node \cup {Null})
    BY <1>2, Nodes, FollowsNext DEF IsRing, Follows
  <2>3. OnWalk \subseteq Q \cup {Head}
    BY <2>2 DEF OnWalk
  <2> QED BY <2>1, <2>3
<1>4. OnQueue = Q
  BY <1>3, Nodes DEF OnQueue
<1>5. TypeOK
  BY DEF SwitchInv
<1>6. NoFault
  BY DEF NoFault, ExitInv
<1>7. AllRunnableQueued
  BY <1>2, <1>4 DEF AllRunnableQueued
<1>8. CursorOnQueue
  BY <1>2, <1>3, <1>4 DEF CursorOnQueue
<1>9. BackLinks
  <2>1. cpu \in Contexts
    BY DEF Contexts
  <2> QED BY <1>2, <1>4, <2>1 DEF BackLinks
<1> QED
  BY <1>5, <1>6, <1>7, <1>8, <1>9 DEF QueueSound

\* A step that leaves the threads that do not run alone.
LEMMA ParkedKept ==
    ASSUME OneExit, SwitchInv, Parked, cpu'.self = cpu.self, UNCHANGED <<saved, created>>,
           \A t \in Creators :
               t # cpu.self /\ saved[t].pc \in {"disable", "cli"}
                   => UNCHANGED added /\ saved[t].arg \notin attached \ attached'
    PROVE  Parked'
<1> SUFFICES ASSUME NEW t \in Thread, t # cpu.self \/ t \in Exiters PROVE Ready(saved[t])'
  BY DEF Parked
<1>1. Ready(saved[t]) /\ saved[t].self = t
  BY DEF Parked, SwitchInv, SavedOwn
<1>2. CASE saved[t].pc \in {"disable", "cli"}
  <2>1. t \in Creators /\ t # cpu.self
    BY <1>1, <1>2 DEF Ready, Adding, Busy, MaskedPCs, OneExit
  <2> QED BY <1>1, <1>2, <2>1 DEF Ready, Adding, Busy, AddPCs, MaskedPCs
<1>3. CASE saved[t].pc \in {"run", "remove1"}
  BY <1>1, <1>3 DEF Ready, Adding, Busy, AddPCs, MaskedPCs
<1> QED
  BY <1>1, <1>2, <1>3 DEF Ready

\* The running creator accounts for the depth.
LEMMA DepthOf ==
    ASSUME SwitchInv, ExitInv, Busy(cpu)
    PROVE  cpu.self \in Creators /\ depth = IF cpu.pc \in OpenPCs THEN 1 ELSE 0
  BY DEF ExitInv, Adding, Sections, Live

\* Around list_add: interrupt_disable, interrupt_enable and num_threads++.
LEMMA ExitMasking ==
    ASSUME OneExit, SwitchInv, ExitInv,
           InterruptDisable \/ Cli \/ InterruptEnable \/ Sti \/ RunqueueInsert
    PROVE  ExitInv'
<1>1. /\ cpu \in Context /\ cpu.self \in Thread /\ depth \in Int
      /\ UNCHANGED <<next, prev, rqCurrent, currentThread, attached, saved, created, exiting>>
  BY DEF SwitchInv, TypeOK, InterruptDisable, Cli, InterruptEnable, Sti, RunqueueInsert, list,
         hist, Context
<1>2. /\ cpu'.self = cpu.self /\ cpu'.arg = cpu.arg
      /\ \/ /\ cpu.pc = "disable" /\ cpu'.pc = (IF depth = 0 THEN "cli" ELSE "add1")
            /\ depth' = depth + 1 /\ UNCHANGED <<iflag, added>>
         \/ /\ cpu.pc = "cli" /\ cpu'.pc = "add1" /\ iflag' = FALSE /\ UNCHANGED <<depth, added>>
         \/ /\ cpu.pc = "enable" /\ cpu'.pc = (IF depth = 1 THEN "sti" ELSE "run")
            /\ depth' = depth - 1 /\ UNCHANGED <<iflag, added>>
         \/ /\ cpu.pc = "sti" /\ cpu'.pc = "run" /\ UNCHANGED <<depth, added>>
         \/ /\ cpu.pc = "add5" /\ cpu'.pc = "enable" /\ added' = added \cup {cpu.arg}
            /\ UNCHANGED <<depth, iflag>>
  <2>1. CASE RunqueueInsert
    BY <1>1, <2>1 DEF RunqueueInsert, Goto, Context, OneExit, intr
  <2>2. CASE InterruptDisable \/ Cli \/ InterruptEnable \/ Sti
    BY <1>1, <2>2 DEF InterruptDisable, Cli, InterruptEnable, Sti, Goto, Context, hist
  <2> QED BY <2>1, <2>2
<1>3. cpu.self \in Creators /\ depth = IF cpu.pc \in OpenPCs THEN 1 ELSE 0
  <2>1. Busy(cpu)
    BY <1>2 DEF Busy, AddPCs, MaskedPCs
  <2> QED BY <2>1, DepthOf
<1>4. \A t \in Creators : t = cpu.self
  BY <1>3 DEF OneExit
<1>5. \/ cpu.pc = "disable" /\ cpu'.pc = "cli" /\ depth' = 1
      \/ cpu.pc = "cli" /\ cpu'.pc = "add1" /\ depth' = 1 /\ ~iflag'
      \/ cpu.pc = "enable" /\ cpu'.pc = "sti" /\ depth' = 0 /\ iflag' = iflag
      \/ cpu.pc = "sti" /\ cpu'.pc = "run" /\ depth' = 0
      \/ cpu.pc = "add5" /\ cpu'.pc = "enable" /\ depth' = 1 /\ iflag' = iflag
  BY <1>2, <1>3 DEF OpenPCs, AddPCs
<1>6. Sections'
  <2>1. cpu.pc \in AddPCs \cup {"enable", "sti"} => ~iflag
    BY DEF ExitInv, Sections
  <2>2. cpu'.pc \in AddPCs \cup {"enable", "sti"} => ~iflag'
    BY <1>5, <2>1 DEF AddPCs
  <2>3. \A t \in Creators : Live(t)' = cpu'
    BY <1>2, <1>4 DEF Live
  <2>4. depth' = IF cpu'.pc \in OpenPCs THEN 1 ELSE 0
    BY <1>5 DEF OpenPCs, AddPCs
  <2> QED BY <2>2, <2>3, <2>4 DEF Sections
<1>7. Parked'
  <2>1. Parked
    BY DEF ExitInv
  <2> QED BY <1>1, <1>2, <1>4, <2>1, ParkedKept
<1>8. Adding(cpu)' /\ Stores' /\ cpu'.pc # "fault"
  <2>1. Adding(cpu)
    BY DEF ExitInv
  <2>2. cpu'.pc \in {"cli", "add1"} => cpu.arg \in created /\ cpu.arg \in attached /\ cpu.arg \notin added
                                       /\ added' = added
    BY <1>2, <1>5, <2>1 DEF Adding, AddPCs
  <2> QED BY <1>1, <1>2, <1>3, <1>5, <2>2 DEF Adding, Stores, Busy, AddPCs, MaskedPCs
<1>9. Entered' = Entered /\ added \subseteq added'
  BY <1>2, <1>5 DEF Entered
<1>10. Leaving'
  BY <1>1, <1>5, <1>9 DEF ExitInv, Leaving, ExitPCs
<1>11. PICK Q \in SUBSET Queueable : Queued(Q)
  BY DEF ExitInv
<1>12. cpu.pc \notin OffPCs /\ cpu'.pc \notin OffPCs /\ cpu.pc # "add4" /\ cpu'.pc # "add4"
  BY <1>5 DEF OffPCs
<1>13. Queued(Q)'
  BY <1>1, <1>2, <1>9, <1>11, <1>12 DEF Queued, IsRing, Follows
<1> QED
  BY <1>1, <1>6, <1>7, <1>8, <1>9, <1>10, <1>13 DEF ExitInv

\* The four stores of list_add, in a queue where a deletion may have been
\* begun and given up.
LEMMA ExitInsert ==
    ASSUME OneExit, SwitchInv, ExitInv, ListAdd
    PROVE  ExitInv'
<1>0. PICK a : a = cpu.arg
  OBVIOUS
<1>1. /\ cpu \in Context /\ cpu.self \in Thread
      /\ UNCHANGED <<rqCurrent, currentThread, attached, saved, created, added, exiting, depth, iflag>>
      /\ next \in [Node -> Node \cup {Null}] /\ prev \in [Node -> Node \cup {Null}]
  BY DEF SwitchInv, TypeOK, ListAdd, hist, intr, Context
<1>2. /\ cpu'.self = cpu.self /\ cpu'.arg = a
      /\ \/ /\ cpu.pc = "add1" /\ cpu'.pc = "add2"
            /\ next' = [next EXCEPT ![a] = next[Head]] /\ prev' = prev
         \/ /\ cpu.pc = "add2" /\ cpu'.pc = "add3"
            /\ prev' = [prev EXCEPT ![a] = Head] /\ next' = next
         \/ /\ cpu.pc = "add3" /\ cpu'.pc = "add4"
            /\ prev' = [prev EXCEPT ![next[Head]] = a] /\ next' = next
         \/ /\ cpu.pc = "add4" /\ cpu'.pc = "add5"
            /\ next' = [next EXCEPT ![Head] = a] /\ prev' = prev
  BY <1>0, <1>1 DEF ListAdd, ListAdd1, ListAdd2, ListAdd3, ListAdd4, Goto, Context
<1>3. /\ cpu.pc \in {"add1", "add2", "add3", "add4"} /\ cpu'.pc \in {"add2", "add3", "add4", "add5"}
      /\ Busy(cpu) /\ cpu.pc \in OpenPCs /\ cpu'.pc \in OpenPCs
  BY <1>2 DEF Busy, AddPCs, OpenPCs
<1>4. cpu.self \in Creators /\ depth = 1 /\ \A t \in Creators : t = cpu.self
  BY <1>3, DepthOf DEF OneExit
<1>5. Sections'
  <2>1. ~iflag
    BY <1>3 DEF ExitInv, Sections, AddPCs
  <2>2. \A t \in Creators : Live(t)' = cpu'
    BY <1>2, <1>4 DEF Live
  <2> QED BY <1>1, <1>3, <1>4, <2>1, <2>2 DEF Sections
<1>6. Parked'
  <2>1. Parked
    BY DEF ExitInv
  <2> QED BY <1>1, <1>2, <1>4, <2>1, ParkedKept
<1>7. a \in Workers /\ a \in created /\ a \in attached /\ a \notin added
  <2>1. Adding(cpu) /\ Holds(cpu)
    BY DEF ExitInv, SwitchInv
  <2> QED BY <1>0, <1>3, <2>1 DEF Adding, Holds, AddPCs
<1>8. Adding(cpu)' /\ cpu'.pc # "fault"
  BY <1>1, <1>2, <1>3, <1>4, <1>7 DEF Adding, Busy, AddPCs, MaskedPCs
<1>9. Leaving'
  BY <1>1, <1>3 DEF ExitInv, Leaving, ExitPCs
<1>10. PICK Q \in SUBSET Queueable : Queued(Q)
  BY DEF ExitInv
<1>11. /\ IsRing(next, Q) /\ Kinit \in Q /\ Q \subseteq attached /\ rqCurrent \in Q \cup {Null}
       /\ \A m, n \in Q \cup {Head} : next[m] = next[n] => m = n
       /\ \A n \in Q : n \in exiting \/ prev[next[n]] = n
       /\ cpu.pc # "add4" => prev[next[Head]] = Head
       /\ Q \subseteq added /\ added \ exiting \subseteq Q /\ cpu.self \in Q
  <2>1. Head \notin exiting
    BY Nodes DEF SwitchInv, TypeOK
  <2>2. cpu.pc \notin OffPCs /\ cpu.pc # "add5"
    BY <1>3 DEF OffPCs
  <2>3. Entered = added
    BY <2>2 DEF Entered
  <2> QED BY <1>10, <2>1, <2>2, <2>3, Nodes DEF Queued
<1>12. Entered' = IF cpu.pc = "add4" THEN added \cup {a} ELSE added
  BY <1>1, <1>2, <1>3 DEF Entered
<1>13. cpu'.pc \notin OffPCs
  BY <1>3 DEF OffPCs
<1>14. /\ a \in Queueable /\ a \notin Q /\ a # Head /\ a \in Node /\ a \notin exiting
  <2>1. exiting \subseteq added
    BY DEF ExitInv, Leaving
  <2> QED BY <1>7, <1>11, <2>1, Nodes
<1>15. \A n \in Q \cup {Head} : next[n] \in Q \cup {Head} /\ n \in Node /\ next[n] # a /\ next[n] \in Node
  BY <1>11, <1>14, Nodes DEF IsRing
<1>16. next[Head] \in Q
  BY <1>11, FirstQueued
<1>17. Stores
  BY DEF ExitInv
<1>18. Entered' \subseteq created'
  BY <1>1, <1>7, <1>12 DEF ExitInv, Entered
<1>19. Stores' /\ \E P \in SUBSET Queueable : Queued(P)'
  <2>1. CASE cpu.pc = "add1"
    <3>1. next'[a] = next[Head] /\ \A n \in Node \ {a} : next'[n] = next[n]
      BY <1>1, <1>2, <1>14, <2>1
    <3>2. \A n \in Q \cup {Head} : next'[n] = next[n]
      BY <1>11, <1>14, <1>15, <3>1
    <3>3. IsRing(next', Q)
      BY <1>11, <3>2, RingUnlinked
    <3>4. cpu'.pc = "add2" /\ prev' = prev /\ cpu.pc # "add4"
      BY <1>2, <2>1
    <3>5. Queued(Q)'
      BY <1>1, <1>2, <1>11, <1>12, <1>13, <3>2, <3>3, <3>4 DEF Queued
    <3>6. Stores'
      BY <1>2, <3>1, <3>2, <3>4 DEF Stores
    <3> QED BY <3>5, <3>6
  <2>2. CASE cpu.pc = "add2"
    <3>1. prev'[a] = Head /\ \A n \in Node \ {a} : prev'[n] = prev[n]
      BY <1>1, <1>2, <1>14, <2>2
    <3>2. \A n \in Q \cup {Head} : prev'[next[n]] = prev[next[n]]
      BY <1>15, <3>1
    <3>3. cpu'.pc = "add3" /\ next' = next /\ cpu.pc # "add4"
      BY <1>2, <2>2
    <3>4. Queued(Q)'
      BY <1>1, <1>2, <1>11, <1>12, <1>13, <3>2, <3>3 DEF Queued
    <3>5. next[a] = next[Head]
      BY <1>0, <1>17, <2>2 DEF Stores
    <3>6. Stores'
      BY <1>2, <3>1, <3>3, <3>5 DEF Stores
    <3> QED BY <3>4, <3>6
  <2>3. CASE cpu.pc = "add3"
    <3>1. prev'[next[Head]] = a /\ \A n \in Node \ {next[Head]} : prev'[n] = prev[n]
      BY <1>1, <1>2, <1>15, <1>16, <2>3
    <3>2. \A n \in Q : next[n] # next[Head]
      BY <1>11, Nodes
    <3>3. \A n \in Q : prev'[next[n]] = prev[next[n]]
      BY <1>15, <3>1, <3>2
    <3>4. cpu'.pc = "add4" /\ next' = next /\ cpu.pc # "add4"
      BY <1>2, <2>3
    <3>5. Queued(Q)'
      BY <1>1, <1>2, <1>11, <1>12, <1>13, <3>3, <3>4 DEF Queued
    <3>6. next[a] = next[Head] /\ prev[a] = Head
      BY <1>0, <1>17, <2>3 DEF Stores
    <3>7. prev'[a] = Head
      BY <1>14, <1>16, <3>1, <3>6
    <3>8. Stores'
      BY <1>2, <3>1, <3>4, <3>6, <3>7 DEF Stores
    <3> QED BY <3>5, <3>8
  <2>4. CASE cpu.pc = "add4"
    <3>1. next'[Head] = a /\ \A n \in Node \ {Head} : next'[n] = next[n]
      BY <1>1, <1>2, <2>4, Nodes
    <3>2. next[a] = next[Head] /\ prev[a] = Head /\ prev[next[Head]] = a
      BY <1>0, <1>17, <2>4 DEF Stores
    <3>3. cpu'.pc = "add5" /\ prev' = prev
      BY <1>2, <2>4
    <3>4. IsRing(next', Q \cup {a})
      BY <1>11, <1>14, <3>1, <3>2, RingInsert
    <3>5. next'[a] = next[Head] /\ \A n \in Q : next'[n] = next[n] /\ n # Head
      BY <1>14, <1>15, <3>1, <3>2, Nodes
    <3>6. \A m, n \in (Q \cup {a}) \cup {Head} : next'[m] = next'[n] => m = n
      BY <1>11, <1>15, <3>1, <3>5
    <3>7. \A n \in (Q \cup {a}) \cup {Head} : n \in exiting \/ prev[next'[n]] = n
      BY <1>11, <3>1, <3>2, <3>5
    <3>8. Queued(Q \cup {a})'
      BY <1>1, <1>2, <1>7, <1>11, <1>12, <1>13, <2>4, <3>3, <3>4, <3>6, <3>7 DEF Queued
    <3>9. Stores'
      BY <3>3 DEF Stores
    <3> QED BY <1>14, <3>8, <3>9
  <2> QED BY <1>3, <2>1, <2>2, <2>3, <2>4
<1> QED
  BY <1>5, <1>6, <1>8, <1>9, <1>18, <1>19 DEF ExitInv

\* kthread_create, in front of a masked sched_add.
LEMMA ExitCreate ==
    ASSUME OneExit, SwitchInv, ExitInv, NEW t \in Workers, KthreadCreate(t)
    PROVE  ExitInv'
<1>1. /\ cpu.self \in Creators /\ cpu.pc = "run" /\ t \notin created
      /\ created' = created \cup {t} /\ attached' = attached \cup {t}
      /\ saved' = [saved EXCEPT ![t] = FreshContext(t)]
      /\ cpu' = [cpu EXCEPT !.pc = "disable", !.arg = t]
      /\ UNCHANGED <<next, prev, rqCurrent, currentThread, depth, iflag, added, exiting>>
  BY DEF KthreadCreate, list, intr, OneExit
<1>2. cpu'.self = cpu.self /\ cpu'.arg = t /\ cpu'.pc = "disable"
  BY <1>1 DEF SwitchInv, TypeOK, Context
<1>3. Entered = added /\ Entered' = added /\ added \subseteq created
  BY <1>1, <1>2 DEF Entered, ExitInv
<1>4. Adding(cpu)' /\ Stores' /\ cpu'.pc # "fault"
  BY <1>1, <1>2, <1>3 DEF Adding, Stores, Busy, AddPCs, MaskedPCs
<1>5. Parked'
  <2> SUFFICES ASSUME NEW u \in Thread, u # cpu.self \/ u \in Exiters PROVE Ready(saved[u])'
    BY <1>2 DEF Parked
  <2>1. CASE u = t
    <3>1. saved'[u].pc = "run"
      BY <1>1, <2>1 DEF SwitchInv, TypeOK, FreshContext
    <3> QED BY <3>1 DEF Ready, Adding, Busy, AddPCs, MaskedPCs
  <2>2. CASE u # t
    <3>1. saved'[u] = saved[u]
      BY <1>1, <2>2 DEF SwitchInv, TypeOK
    <3>2. Ready(saved[u])
      BY DEF ExitInv, Parked
    <3> QED BY <1>1, <3>1, <3>2 DEF Ready, Adding, Busy
  <2> QED BY <2>1, <2>2
<1>6. Sections'
  <2>1. \A u \in Creators : u = cpu.self
    BY <1>1 DEF OneExit
  <2>2. depth = 0
    BY <1>1 DEF ExitInv, Sections, Live, OpenPCs, AddPCs
  <2>3. \A u \in Creators : Live(u)' = cpu'
    BY <1>2, <2>1 DEF Live
  <2> QED BY <1>1, <1>2, <2>2, <2>3 DEF Sections, OpenPCs, AddPCs
<1>7. Leaving'
  BY <1>1, <1>2 DEF ExitInv, Leaving, ExitPCs
<1>8. PICK Q \in SUBSET Queueable : Queued(Q)
  BY DEF ExitInv
<1>9. cpu.pc \notin OffPCs /\ cpu'.pc \notin OffPCs /\ cpu.pc # "add4"
  BY <1>1, <1>2 DEF OffPCs
<1>10. Queued(Q)'
  BY <1>1, <1>2, <1>3, <1>8, <1>9 DEF Queued, IsRing, Follows
<1>11. Entered' \subseteq created'
  BY <1>1, <1>3
<1> QED
  BY <1>4, <1>5, <1>6, <1>7, <1>10, <1>11 DEF ExitInv

\* A thread's function returns.
LEMMA ExitBegin ==
    ASSUME OneExit, SwitchInv, ExitInv, KthreadExit
    PROVE  ExitInv'
<1>1. /\ cpu.self \in Exiters /\ cpu.pc = "run"
      /\ cpu' = [cpu EXCEPT !.pc = "remove1", !.arg = currentThread]
      /\ exiting' = exiting \cup {cpu.self}
      /\ UNCHANGED <<next, prev, rqCurrent, currentThread, attached, saved, depth, iflag, created,
                     added>>
  BY DEF KthreadExit, list, intr
<1>2. cpu'.self = cpu.self /\ cpu'.pc = "remove1" /\ cpu.self \notin Creators
  BY <1>1 DEF SwitchInv, TypeOK, Context, OneExit
<1>3. currentThread = cpu.self
  BY <1>1 DEF SwitchInv, CurrentRuns, ExitPCs
<1>4. Entered = added /\ Entered' = added /\ added \subseteq created
  BY <1>1, <1>2 DEF Entered, ExitInv
<1>5. Adding(cpu)' /\ Stores' /\ cpu'.pc # "fault"
  BY <1>2 DEF Adding, Stores, Busy, AddPCs, MaskedPCs
<1>6. Parked'
  <2>1. Parked
    BY DEF ExitInv
  <2> QED BY <1>1, <1>2, <2>1, ParkedKept
<1>7. Sections'
  <2>1. \A u \in Creators : Live(u) = saved[u] /\ Live(u)' = saved[u]
    BY <1>1, <1>2 DEF Live
  <2> QED BY <1>1, <1>2, <2>1 DEF ExitInv, Sections, AddPCs
<1>8. PICK Q \in SUBSET Queueable : Queued(Q)
  BY DEF ExitInv
<1>9. cpu.pc \notin OffPCs /\ cpu'.pc \notin OffPCs /\ cpu.pc # "add4"
  BY <1>1, <1>2 DEF OffPCs
<1>10. cpu.self \in added
  BY <1>4, <1>8, <1>9 DEF Queued
<1>11. Leaving'
  <2>1. exiting' \subseteq Exiters \cap added
    BY <1>1, <1>10 DEF ExitInv, Leaving
  <2> QED BY <1>1, <1>2, <1>3, <2>1 DEF Leaving
<1>12. Queued(Q)'
  BY <1>1, <1>2, <1>4, <1>8, <1>9 DEF Queued, IsRing, Follows
<1>13. Entered' \subseteq created'
  BY <1>1, <1>4
<1> QED
  BY <1>5, <1>6, <1>7, <1>11, <1>12, <1>13 DEF ExitInv

\* What no step of kthread_exit disturbs.
LEMMA ExitFrame ==
    ASSUME OneExit, SwitchInv, ExitInv, cpu.pc \in ExitPCs, cpu'.pc \in ExitPCs \ {"remove1"},
           cpu'.self = cpu.self, attached' = attached \/ attached' = attached \ {cpu.self},
           UNCHANGED <<saved, depth, iflag, created, added, exiting>>
    PROVE  /\ cpu.arg = cpu.self /\ cpu.self \in exiting /\ cpu.self \in Queueable
           /\ \A n \in exiting : n = cpu.self
           /\ Entered = added /\ Entered' = added /\ Kinit # cpu.self
           /\ cpu'.pc # "fault" /\ Adding(cpu)' /\ Stores' /\ Entered' \subseteq created'
           /\ Parked' /\ Sections'
<1>1. cpu.arg = cpu.self /\ cpu.self \in exiting
  BY DEF SwitchInv, Holds
<1>2. exiting \subseteq Exiters \cap added
  BY DEF ExitInv, Leaving
<1>3. /\ cpu.self \in Queueable /\ \A n \in exiting : n = cpu.self
      /\ cpu.self \notin Creators /\ Kinit # cpu.self
  BY <1>1, <1>2, Nodes DEF OneExit
<1>4. Entered = added /\ Entered' = added /\ added \subseteq created
  BY DEF Entered, ExitPCs, ExitInv
<1>5. cpu'.pc # "fault" /\ Adding(cpu)' /\ Stores'
  BY DEF Adding, Stores, Busy, AddPCs, MaskedPCs, ExitPCs
<1>6. Parked'
  <2>1. Parked
    BY DEF ExitInv
  <2>2. ASSUME NEW t \in Creators, t # cpu.self, saved[t].pc \in {"disable", "cli"}
        PROVE  saved[t].arg \notin attached \ attached'
    <3>1. t \in Thread
      BY Nodes
    <3>2. Ready(saved[t])
      BY <2>1, <2>2, <3>1 DEF Parked
    <3>3. saved[t].arg \notin added
      BY <2>2, <3>2 DEF Ready, Adding
    <3> QED BY <1>1, <1>2, <3>3
  <2> QED BY <2>1, <2>2, ParkedKept
<1>7. Sections'
  <2>1. \A u \in Creators : Live(u) = saved[u] /\ Live(u)' = saved[u]
    BY <1>3 DEF Live
  <2> QED BY <2>1 DEF ExitInv, Sections, AddPCs, ExitPCs
<1> QED
  BY <1>1, <1>3, <1>4, <1>5, <1>6, <1>7

\* The queue of a thread that leaves.
LEMMA ExitQueue ==
    ASSUME SwitchInv, NEW Q \in SUBSET Queueable, Queued(Q), cpu.pc \in ExitPCs,
           Entered = added, \A n \in exiting : n = cpu.self
    PROVE  /\ IsRing(next, Q) /\ Kinit \in Q /\ Q \subseteq attached /\ rqCurrent \in Q \cup {Null}
           /\ \A m, n \in Q \cup {Head} : next[m] = next[n] => m = n
           /\ \A n \in Q \cup {Head} : n = cpu.self \/ prev[next[n]] = n
           /\ Q \subseteq added /\ added \ exiting \subseteq Q
           /\ \A n \in Q \cup {Head} : next[n] \in Q \cup {Head} /\ n \in Node /\ next[n] # Null
           /\ (IF cpu.pc \in OffPCs THEN cpu.self \notin Q ELSE cpu.self \in Q)
<1>1. cpu.pc # "add4"
  BY DEF ExitPCs
<1> QED BY <1>1, Nodes DEF Queued, IsRing

\* kthread_exit outside list_delete: current_thread, rq.current, num_threads
\* and the process.
LEMMA ExitMoves ==
    ASSUME OneExit, SwitchInv, ExitInv,
           SchedRemove \/ RunqueueRemove \/ RunqueueRemoved \/ ProcessRemoveThread
    PROVE  ExitInv'
<1>0. PICK e : e = cpu.self
  OBVIOUS
<1>1. cpu \in Context /\ UNCHANGED <<next, prev, saved, depth, iflag, created, added, exiting>>
  BY DEF SwitchInv, TypeOK, SchedRemove, RunqueueRemove, RunqueueRemoved, ProcessRemoveThread,
         list, intr, hist
<1>2. cpu.pc \in ExitPCs
  BY DEF SchedRemove, RunqueueRemove, RunqueueRemoved, ProcessRemoveThread, Goto, ExitPCs
<1>3. cpu.arg = e
  BY <1>0, <1>2 DEF SwitchInv, Holds
<1>4. /\ cpu'.self = e
      /\ \/ /\ cpu.pc = "remove1" /\ cpu'.pc = "remove2"
            /\ currentThread' = (IF e = currentThread THEN Null ELSE currentThread)
            /\ UNCHANGED <<rqCurrent, attached>>
         \/ /\ cpu.pc = "remove2" /\ cpu'.pc = "del1"
            /\ rqCurrent' = (IF e = rqCurrent THEN Null ELSE rqCurrent)
            /\ UNCHANGED <<currentThread, attached>>
         \/ /\ cpu.pc = "dec" /\ cpu'.pc = "detach"
            /\ UNCHANGED <<currentThread, rqCurrent, attached>>
         \/ /\ cpu.pc = "detach" /\ cpu'.pc = "halt" /\ attached' = attached \ {e}
            /\ UNCHANGED <<currentThread, rqCurrent>>
  BY <1>0, <1>1, <1>3 DEF SchedRemove, RunqueueRemove, RunqueueRemoved, ProcessRemoveThread, Goto,
                          Context
<1>5. /\ cpu.self \in exiting /\ cpu.self \in Queueable /\ \A n \in exiting : n = cpu.self
      /\ Entered = added /\ Entered' = added /\ Kinit # cpu.self
      /\ cpu'.pc # "fault" /\ Adding(cpu)' /\ Stores' /\ Entered' \subseteq created'
      /\ Parked' /\ Sections'
  <2>1. cpu'.pc \in ExitPCs \ {"remove1"}
    BY <1>4 DEF ExitPCs
  <2>2. attached' = attached \/ attached' = attached \ {cpu.self}
    BY <1>0, <1>4
  <2> QED BY <1>0, <1>1, <1>2, <1>4, <2>1, <2>2, ExitFrame
<1>6. Leaving'
  <2>1. /\ exiting \subseteq Exiters \cap added
        /\ cpu.pc \in ExitPCs \ {"remove1"} => currentThread = Null
        /\ cpu.pc = "remove1" => currentThread = e
    BY <1>0 DEF ExitInv, Leaving
  <2>2. currentThread' = Null
    BY <1>2, <1>4, <2>1 DEF ExitPCs
  <2>3. e # Null
    BY <1>0, <1>5, Nodes
  <2>4. cpu'.pc = "del1" => rqCurrent' # e
    BY <1>4, <2>3
  <2> QED BY <1>1, <1>4, <2>1, <2>2, <2>4 DEF Leaving
<1>7. PICK Q \in SUBSET Queueable : Queued(Q)
  BY DEF ExitInv
<1>8. /\ IsRing(next, Q) /\ Kinit \in Q /\ Q \subseteq attached /\ rqCurrent \in Q \cup {Null}
      /\ \A m, n \in Q \cup {Head} : next[m] = next[n] => m = n
      /\ \A n \in Q \cup {Head} : n = cpu.self \/ prev[next[n]] = n
      /\ Q \subseteq added /\ added \ exiting \subseteq Q
      /\ IF cpu.pc \in OffPCs THEN cpu.self \notin Q ELSE cpu.self \in Q
  BY <1>2, <1>5, <1>7, ExitQueue
<1>9. /\ rqCurrent' \in Q \cup {Null} /\ Q \subseteq attached'
      /\ IF cpu'.pc \in OffPCs THEN e \notin Q ELSE e \in Q
  BY <1>0, <1>4, <1>8 DEF OffPCs
<1>10. Queued(Q)'
  BY <1>0, <1>1, <1>4, <1>5, <1>8, <1>9 DEF Queued
<1> QED
  BY <1>5, <1>6, <1>10 DEF ExitInv

\* The four stores of list_delete.  The first may have been done before, by
\* an attempt that a tick cut short.
LEMMA ExitDelete ==
    ASSUME OneExit, SwitchInv, ExitInv, ListDelete
    PROVE  ExitInv'
<1>0. PICK e : e = cpu.self
  OBVIOUS
<1>1. /\ cpu \in Context
      /\ UNCHANGED <<rqCurrent, currentThread, attached, saved, depth, iflag, created, added, exiting>>
      /\ next \in [Node -> Node \cup {Null}] /\ prev \in [Node -> Node \cup {Null}]
  BY DEF SwitchInv, TypeOK, ListDelete, intr, hist
<1>2. cpu.pc \in ExitPCs
  BY DEF ListDelete, ListDelete1, ListDelete2, ListDelete3, ListDelete4, Goto, ExitPCs
<1>3. cpu.arg = e /\ e \in exiting
  BY <1>0, <1>2 DEF SwitchInv, Holds
<1>4. /\ cpu'.self = e
      /\ \/ /\ cpu.pc = "del1" /\ cpu'.pc = (IF next[e] = Null THEN "fault" ELSE "del2")
            /\ prev' = (IF next[e] = Null THEN prev ELSE [prev EXCEPT ![next[e]] = prev[e]])
            /\ next' = next
         \/ /\ cpu.pc = "del2" /\ cpu'.pc = (IF prev[e] = Null THEN "fault" ELSE "del3")
            /\ next' = (IF prev[e] = Null THEN next ELSE [next EXCEPT ![prev[e]] = next[e]])
            /\ prev' = prev
         \/ /\ cpu.pc = "del3" /\ cpu'.pc = "del4"
            /\ next' = [next EXCEPT ![e] = Null] /\ prev' = prev
         \/ /\ cpu.pc = "del4" /\ cpu'.pc = "dec"
            /\ prev' = [prev EXCEPT ![e] = Null] /\ next' = next
  BY <1>0, <1>1, <1>3 DEF ListDelete, ListDelete1, ListDelete2, ListDelete3, ListDelete4, Goto,
                          Context
<1>5. PICK Q \in SUBSET Queueable : Queued(Q)
  BY DEF ExitInv
<1>6. /\ exiting \subseteq Exiters \cap added /\ currentThread = Null
      /\ cpu.pc \in {"del1", "del2"} => rqCurrent # e
      /\ cpu.pc = "del2" => prev[next[e]] = prev[e]
  <2>1. cpu.pc # "remove1"
    BY <1>4
  <2> QED BY <1>0, <1>2, <2>1 DEF ExitInv, Leaving
<1>7. Entered = added /\ (\A n \in exiting : n = e) /\ Kinit # e /\ e \in Queueable
  <2>1. cpu.pc # "add5"
    BY <1>4
  <2>2. \A n \in exiting : n = e
    BY <1>3, <1>6 DEF OneExit
  <2> QED BY <1>3, <1>6, <2>1, <2>2, Nodes DEF Entered, OneExit
<1>8. /\ IsRing(next, Q) /\ Kinit \in Q /\ Q \subseteq attached /\ rqCurrent \in Q \cup {Null}
      /\ \A m, n \in Q \cup {Head} : next[m] = next[n] => m = n
      /\ \A n \in Q \cup {Head} : n = e \/ prev[next[n]] = n
      /\ Q \subseteq added /\ added \ exiting \subseteq Q
      /\ \A n \in Q \cup {Head} : next[n] \in Q \cup {Head} /\ n \in Node /\ next[n] # Null
      /\ IF cpu.pc \in OffPCs THEN e \notin Q ELSE e \in Q
  BY <1>0, <1>2, <1>5, <1>7, ExitQueue
<1>9. /\ cpu'.pc \in ExitPCs \ {"remove1"}
      /\ cpu'.pc = "del2" => prev'[next'[e]] = prev'[e]
      /\ cpu'.pc # "del1"
      /\ \E P \in SUBSET Queueable :
             /\ IsRing(next', P) /\ Kinit \in P /\ P \subseteq Q /\ rqCurrent \in P \cup {Null}
             /\ \A m, n \in P \cup {Head} : next'[m] = next'[n] => m = n
             /\ \A n \in P \cup {Head} : n = e \/ prev'[next'[n]] = n
             /\ added \ exiting \subseteq P
             /\ IF cpu'.pc \in OffPCs THEN e \notin P ELSE e \in P
  <2>1. CASE cpu.pc = "del1"
    <3>1. e \in Q /\ next[e] # Null /\ next[e] \in Node
      BY <1>8, <2>1, Nodes DEF OffPCs
    <3>2. cpu'.pc = "del2" /\ next' = next /\ prev' = [prev EXCEPT ![next[e]] = prev[e]]
      BY <1>4, <2>1, <3>1
    <3>3. prev'[next[e]] = prev[e] /\ \A n \in Node \ {next[e]} : prev'[n] = prev[n]
      BY <1>1, <3>1, <3>2
    <3>4. ASSUME NEW n \in Q \cup {Head}, n # e PROVE prev'[next[n]] = n
      <4>1. next[n] # next[e] /\ next[n] \in Node
        BY <1>8, <3>1, <3>4, Nodes
      <4> QED BY <1>8, <3>3, <3>4, <4>1
    <3>5. next[e] # e
      BY <1>8, <3>1, Predecessor
    <3>6. prev'[e] = prev[e]
      BY <1>8, <3>1, <3>3, <3>5
    <3>7. IsRing(next', Q)
      BY <1>8, <3>2
    <3> QED BY <1>8, <3>1, <3>2, <3>3, <3>4, <3>6, <3>7 DEF ExitPCs, OffPCs
  <2>2. CASE cpu.pc = "del2"
    <3>1. e \in Q
      BY <1>8, <2>2 DEF OffPCs
    <3>2. PICK p \in Q \cup {Head} : /\ p # e /\ next[p] = e
                                     /\ \A n \in Q \cup {Head} : next[n] = e => n = p
      BY <1>8, <3>1, Predecessor
    <3>3. next[e] # e
      BY <1>8, <3>1, Predecessor
    <3>4. prev[e] = p /\ p # Null /\ p \in Node
      BY <1>8, <3>2, Nodes
    <3>5. cpu'.pc = "del3" /\ prev' = prev /\ next' = [next EXCEPT ![p] = next[e]]
      BY <1>4, <2>2, <3>4
    <3>6. next'[p] = next[e] /\ \A n \in Node \ {p} : next'[n] = next[n]
      BY <1>1, <3>4, <3>5
    <3>7. IsRing(next', Q \ {e})
      <4>1. IsRing(next, Q)
        BY <1>8
      <4> QED BY <3>1, <3>2, <3>3, <3>6, <4>1, RingRemove
    <3>8. \A n \in (Q \ {e}) \cup {Head} : /\ n \in Q \cup {Head} /\ n # e
                                           /\ n # p => next'[n] = next[n] /\ next[n] # next[e]
      BY <1>8, <3>1, <3>6, Nodes
    <3>9. \A m, n \in (Q \ {e}) \cup {Head} : next'[m] = next'[n] => m = n
      BY <1>8, <3>6, <3>8
    <3>10. \A n \in (Q \ {e}) \cup {Head} : prev[next'[n]] = n
      <4> SUFFICES ASSUME NEW n \in (Q \ {e}) \cup {Head} PROVE prev[next'[n]] = n
        OBVIOUS
      <4>1. CASE n = p
        BY <1>6, <2>2, <3>4, <3>6, <4>1
      <4>2. CASE n # p
        BY <1>8, <3>8, <4>2
      <4> QED BY <4>1, <4>2
    <3>11. Kinit \in Q \ {e} /\ rqCurrent \in (Q \ {e}) \cup {Null} /\ added \ exiting \subseteq Q \ {e}
      BY <1>3, <1>6, <1>7, <1>8, <2>2
    <3> QED BY <3>5, <3>7, <3>9, <3>10, <3>11 DEF ExitPCs, OffPCs
  <2>3. CASE cpu.pc \in {"del3", "del4"}
    <3>1. e \notin Q /\ e # Head
      BY <1>7, <1>8, <2>3, Nodes DEF OffPCs
    <3>2. \A n \in Q \cup {Head} : next'[n] = next[n] /\ prev'[next[n]] = prev[next[n]]
      <4> SUFFICES ASSUME NEW n \in Q \cup {Head}
                   PROVE  next'[n] = next[n] /\ prev'[next[n]] = prev[next[n]]
        OBVIOUS
      <4>1. n \in Node /\ n # e /\ next[n] \in Node /\ next[n] # e
        BY <1>8, <3>1, Nodes
      <4> QED BY <1>1, <1>4, <2>3, <4>1
    <3>3. IsRing(next', Q)
      BY <1>8, <3>2, RingUnlinked
    <3>4. cpu'.pc \in {"del4", "dec"}
      BY <1>4, <2>3
    <3>5. \A n \in Q \cup {Head} : n = e \/ prev'[next'[n]] = n
      BY <1>8, <3>2
    <3>6. \A m, n \in Q \cup {Head} : next'[m] = next'[n] => m = n
      BY <1>8, <3>2
    <3> QED BY <1>8, <3>1, <3>3, <3>4, <3>5, <3>6 DEF ExitPCs, OffPCs
  <2> QED BY <1>4, <2>1, <2>2, <2>3
<1>10. /\ Entered' = added /\ cpu'.pc # "fault" /\ Adding(cpu)' /\ Stores' /\ Entered' \subseteq created'
       /\ Parked' /\ Sections'
  BY <1>0, <1>1, <1>2, <1>4, <1>9, ExitFrame
<1>11. Leaving'
  BY <1>1, <1>4, <1>6, <1>9 DEF Leaving
<1>12. PICK P \in SUBSET Queueable :
             /\ IsRing(next', P) /\ Kinit \in P /\ P \subseteq Q /\ rqCurrent \in P \cup {Null}
             /\ \A m, n \in P \cup {Head} : next'[m] = next'[n] => m = n
             /\ \A n \in P \cup {Head} : n = e \/ prev'[next'[n]] = n
             /\ added \ exiting \subseteq P
             /\ IF cpu'.pc \in OffPCs THEN e \notin P ELSE e \in P
  BY <1>9
<1>13. Queued(P)'
  BY <1>1, <1>3, <1>4, <1>8, <1>10, <1>12 DEF Queued
<1> QED
  BY <1>10, <1>11, <1>13 DEF ExitInv

\* A tick loads a context that is ready, and saves one.
LEMMA ExitTick ==
    ASSUME OneExit, SwitchInv, ExitInv, Tick
    PROVE  ExitInv'
<1>0. PICK k : k = RunqueueNext
  OBVIOUS
<1>1. /\ iflag /\ rqCurrent' = k /\ currentThread' = k /\ saved' = SavedContexts
      /\ cpu' = (IF k \in attached THEN SavedContexts[k] ELSE [cpu EXCEPT !.pc = "fault"])
      /\ UNCHANGED <<next, prev, attached, depth, iflag, created, added, exiting>>
  BY <1>0 DEF Tick, list, intr, hist
<1>2. PICK Q \in SUBSET Queueable : Queued(Q)
  BY DEF ExitInv
<1>3. k \in Q /\ k \in attached /\ k \in Thread
  BY <1>0, <1>2, NextQueued, Nodes DEF Queued
<1>4. cpu.pc \notin AddPCs \cup {"enable", "sti"} /\ cpu.pc # "fault" /\ cpu.pc \in PC
  BY <1>1 DEF ExitInv, Sections, SwitchInv, TypeOK, Context
<1>5. \A t \in Thread : SavedContexts[t] = IF t = currentThread THEN cpu ELSE saved[t]
  BY SavedType DEF SwitchInv
<1>6. currentThread = cpu.self \/ (currentThread = Null /\ cpu.self \in Exiters)
  <2>1. exiting \subseteq Exiters
    BY DEF ExitInv, Leaving
  <2> QED BY <1>4, <2>1 DEF SwitchInv, CurrentRuns, Holds
<1>7. ASSUME NEW t \in Thread PROVE Ready(SavedContexts[t]) /\ SavedContexts[t].self = t
  <2>1. CASE t = currentThread
    <3>1. SavedContexts[t] = cpu /\ t = cpu.self /\ currentThread # Null
      BY <1>5, <1>6, <1>7, <2>1, SchedAssumption
    <3>2. cpu.pc \notin ExitPCs \ {"remove1"}
      BY <3>1 DEF ExitInv, Leaving
    <3>3. cpu.pc \in {"run", "disable", "cli", "remove1"}
      BY <1>4, <3>2 DEF PC, AddPCs, ExitPCs, MaskedPCs
    <3> QED BY <3>1, <3>3 DEF Ready, ExitInv
  <2>2. CASE t # currentThread
    <3>1. SavedContexts[t] = saved[t] /\ (t # cpu.self \/ t \in Exiters)
      BY <1>5, <1>6, <2>2
    <3> QED BY <3>1 DEF ExitInv, Parked, SwitchInv, SavedOwn
  <2> QED BY <2>1, <2>2
<1>8. /\ cpu' = SavedContexts[k] /\ cpu'.self = k /\ Ready(cpu')
      /\ cpu'.pc \in {"run", "disable", "cli", "remove1"}
  BY <1>1, <1>3, <1>7 DEF Ready
<1>9. Adding(cpu)' /\ Stores' /\ cpu'.pc # "fault"
  <2>1. Adding(cpu')
    BY <1>8 DEF Ready
  <2> QED BY <1>1, <1>8, <2>1 DEF Adding, Stores, Busy
<1>10. Entered = added /\ Entered' = added /\ added \subseteq created
  BY <1>1, <1>4, <1>8 DEF Entered, ExitInv, AddPCs
<1>11. Parked'
  <2> SUFFICES ASSUME NEW t \in Thread PROVE Ready(saved[t])'
    BY DEF Parked
  <2>1. Ready(SavedContexts[t]) /\ saved'[t] = SavedContexts[t]
    BY <1>1, <1>7
  <2> QED BY <1>1, <2>1 DEF Ready, Adding, Busy
<1>12. Sections'
  <2>1. ASSUME NEW t \in Creators PROVE Live(t)' = Live(t)
    <3>1. t \in Thread /\ t \notin Exiters
      BY Nodes DEF OneExit
    <3>2. Live(t)' = SavedContexts[t]
      BY <1>1, <1>8 DEF Live
    <3>3. t = currentThread <=> t = cpu.self
      BY <1>6, <3>1, SchedAssumption
    <3> QED BY <1>5, <3>1, <3>2, <3>3 DEF Live
  <2>2. cpu'.pc \notin AddPCs \cup {"enable", "sti"}
    BY <1>8 DEF AddPCs
  <2> QED BY <1>1, <2>1, <2>2 DEF ExitInv, Sections
<1>13. Leaving'
  BY <1>1, <1>8 DEF ExitInv, Leaving, ExitPCs
<1>14. Queued(Q)'
  <2>1. cpu.pc # "add4" /\ cpu'.pc \notin OffPCs
    BY <1>4, <1>8 DEF AddPCs, OffPCs
  <2> QED BY <1>1, <1>2, <1>3, <1>8, <1>10, <2>1 DEF Queued, IsRing, Follows
<1> QED
  BY <1>1, <1>9, <1>10, <1>11, <1>12, <1>13, <1>14 DEF ExitInv

LEMMA ExitInit == Init => ExitInv
<1> SUFFICES ASSUME Init PROVE ExitInv
  OBVIOUS
<1>1. next[Head] = Kinit /\ next[Kinit] = Head /\ prev[Head] = Kinit /\ prev[Kinit] = Head
  BY Nodes DEF Init
<1>2. cpu.pc = "run" /\ cpu.self = Kinit /\ \A t \in Thread : saved[t].pc = "run"
  BY DEF Init, FreshContext
<1>3. Adding(cpu) /\ Stores /\ Parked
  BY <1>2 DEF Adding, Stores, Parked, Ready, Busy, AddPCs, MaskedPCs
<1>4. Entered = {Kinit}
  BY <1>2 DEF Entered, Init
<1>5. Sections
  <2>1. \A t \in Creators : Live(t).pc = "run"
    BY <1>2, Nodes DEF Live
  <2> QED BY <1>2, <2>1 DEF Sections, Init, OpenPCs, AddPCs
<1>6. Leaving
  BY <1>2 DEF Leaving, Init, ExitPCs
<1>7. IsRing(next, {Kinit})
  BY <1>1, Nodes DEF IsRing, Follows
<1>8. Queued({Kinit})
  <2>1. cpu.pc \notin OffPCs
    BY <1>2 DEF OffPCs
  <2>2. Kinit # Head
    BY Nodes
  <2> QED BY <1>1, <1>2, <1>4, <1>7, <2>1, <2>2 DEF Queued, Init
<1>9. {Kinit} \in SUBSET Queueable /\ Entered \subseteq created
  BY <1>4, Nodes DEF Init
<1> QED
  BY <1>2, <1>3, <1>5, <1>6, <1>8, <1>9 DEF ExitInv

LEMMA OneExitStep ==
    ASSUME OneExit
    PROVE  SwitchInv /\ ExitInv /\ [Next]_vars => ExitInv'
<1> SUFFICES ASSUME SwitchInv, ExitInv, [Next]_vars PROVE ExitInv'
  OBVIOUS
<1>1. CASE UNCHANGED vars
  <2>1. UNCHANGED <<next, prev, rqCurrent, currentThread, attached, saved, cpu, depth, iflag,
                    created, added, exiting>>
    BY <1>1 DEF vars
  <2>2. Adding(cpu)' /\ Stores' /\ Entered' = Entered
    BY <2>1 DEF ExitInv, Adding, Stores, Busy, Entered
  <2>3. Parked'
    BY <2>1 DEF ExitInv, Parked, Ready, Adding, Busy
  <2>4. Sections' /\ Leaving'
    BY <2>1 DEF ExitInv, Sections, Leaving, Live
  <2>5. PICK Q \in SUBSET Queueable : Queued(Q)
    BY DEF ExitInv
  <2>6. Queued(Q)'
    BY <2>1, <2>2, <2>5 DEF Queued, IsRing, Follows
  <2> QED BY <2>1, <2>2, <2>3, <2>4, <2>6 DEF ExitInv
<1> QED
  BY <1>1, ExitTick, ExitCreate, ExitMasking, ExitInsert, ExitBegin, ExitMoves, ExitDelete
     DEF Next, ThreadStep

\* One thread creates the others, masking interrupts around sched_add, and
\* one returns into kthread_exit.  Wherever ticks cut kthread_exit, between
\* any two stores of sched_remove, runqueue_remove and list_delete, and
\* although what the thread has done since current_thread became NULL is then
\* done again from the start: a tick never follows a null or a dead thread,
\* meets every thread that runs on and comes back to the head, and registers
\* are never loaded into the wrong thread.
THEOREM OneExitQueueSound ==
    ASSUME Masked, \A x, y \in Creators : x = y, \A x, y \in Exiters : x = y,
           Creators \cap Exiters = {}, Kinit \notin Exiters
    PROVE  Spec => [](QueueSound /\ ContextIntegrity)
<1>1. OneExit
  BY DEF OneExit
<1>2. Init => SwitchInv /\ ExitInv
  BY SwitchInit, ExitInit
<1>3. SwitchInv /\ ExitInv /\ [Next]_vars => (SwitchInv /\ ExitInv)'
  BY <1>1, SwitchStep, OneExitStep
<1>4. SwitchInv /\ ExitInv => QueueSound /\ ContextIntegrity
  <2>1. SwitchInv /\ ExitInv => ContextIntegrity
    BY DEF SwitchInv, ExitInv, ContextIntegrity, CurrentRuns, SavedOwn, Holds
  <2> QED BY <2>1, ExitInvSound
<1> QED
  BY <1>2, <1>3, <1>4, PTL DEF Spec
=============================================================================
