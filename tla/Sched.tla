------------------------------- MODULE Sched --------------------------------
(***************************************************************************)
(* The thread scheduler: tm/sched.c, tm/thread.c, the intrusive list of    *)
(* include/lib/list.h it keeps the run queue in, the context switch of     *)
(* arch/x86_64/tm/thread.c and the interrupt depth of cpu/interrupt.c.     *)
(*                                                                         *)
(* One CPU.  Thread code runs with interrupts on, so the timer interrupt   *)
(* may arrive between any two stores of sched_add or kthread_exit; the     *)
(* handler itself runs behind an interrupt gate and is one step (Tick).    *)
(* Every store to shared state in thread code is a step of its own.        *)
(***************************************************************************)
EXTENDS Integers, FiniteSets

CONSTANTS
    Workers,    \* threads made by kthread_create while the system runs
    Kinit,      \* the boot thread, put on the run queue by sched_init
    Idle,       \* the idle thread: created by sched_init, never queued
    Head,       \* &rq.runnable, the list head
    Null,       \* the null pointer
    Creators,   \* threads whose code calls kthread_create and sched_add
    Exiters,    \* threads whose function returns into kthread_exit
    Masked      \* do callers bracket sched_add with interrupt_disable/enable?

Queueable == Workers \cup {Kinit}
Thread    == Queueable \cup {Idle}
Node      == Queueable \cup {Head}

ASSUME SchedAssumption ==
    /\ IsFiniteSet(Workers)
    /\ Kinit \notin Workers /\ Idle \notin Queueable
    /\ Head \notin Thread /\ Null \notin Thread \cup {Head}
    /\ Creators \subseteq Queueable /\ Exiters \subseteq Queueable
    /\ Masked \in BOOLEAN

VARIABLES
    next, prev,     \* the two pointers of each thread's runqueue_list
    rqCurrent,      \* rq.current
    numThreads,     \* rq.num_threads
    currentThread,  \* current_thread
    attached,       \* threads whose process field is kernel_process
    saved,          \* thread->registers of each thread
    cpu,            \* the context now in the CPU's registers
    depth,          \* interrupt_depth
    iflag,          \* the CPU's interrupt flag
    created,        \* threads kthread_create has returned so far
    added,          \* history: threads whose sched_add has returned
    exiting         \* history: threads that have entered kthread_exit

list == <<next, prev>>
intr == <<depth, iflag>>
hist == <<created, added, exiting>>
vars == <<next, prev, rqCurrent, numThreads, currentThread, attached, saved,
          cpu, depth, iflag, created, added, exiting>>

-----------------------------------------------------------------------------
(* A context is whose code runs, where it is, and the one thread pointer   *)
(* that the code there holds in a register.                                *)

AddPCs    == {"add1", "add2", "add3", "add4", "add5"}
ExitPCs   == {"remove1", "remove2", "del1", "del2", "del3", "del4", "dec",
              "detach", "halt"}
MaskedPCs == {"disable", "cli", "enable", "sti"}
PC        == {"run", "fault"} \cup AddPCs \cup ExitPCs \cup MaskedPCs

Context == [self : Thread, pc : PC, arg : Thread \cup {Null}]

\* arch_kthread_setup_registers: a new thread starts at its function.
FreshContext(t) == [self |-> t, pc |-> "run", arg |-> Null]

Goto(from, to) == cpu.pc = from /\ cpu' = [cpu EXCEPT !.pc = to]

\* sched_init: only kinit is queued; rq.current is still NULL.
Init ==
    /\ next = [n \in Node |-> CASE n = Head -> Kinit [] n = Kinit -> Head [] OTHER -> Null]
    /\ prev = next
    /\ rqCurrent = Null
    /\ numThreads = 1
    /\ currentThread = Kinit
    /\ attached = {Kinit, Idle}
    /\ saved = [t \in Thread |-> FreshContext(t)]
    /\ cpu = FreshContext(Kinit)
    /\ depth = 0
    /\ iflag = TRUE
    /\ created = {Kinit, Idle}
    /\ added = {Kinit}
    /\ exiting = {}

-----------------------------------------------------------------------------
(* Creating and queueing a thread.                                         *)

\* kthread_create, up to the caller's call of sched_add on its result.
KthreadCreate(t) ==
    /\ cpu.self \in Creators
    /\ cpu.pc = "run"
    /\ t \in Workers \ created
    /\ created' = created \cup {t}
    /\ attached' = attached \cup {t}
    /\ saved' = [saved EXCEPT ![t] = FreshContext(t)]
    /\ cpu' = [cpu EXCEPT !.pc = IF Masked THEN "disable" ELSE "add1", !.arg = t]
    /\ UNCHANGED <<list, rqCurrent, numThreads, currentThread, intr, added, exiting>>

\* interrupt_disable: the atomic increment, then cli if the depth was zero.
InterruptDisable ==
    /\ Goto("disable", IF depth = 0 THEN "cli" ELSE "add1")
    /\ depth' = depth + 1
    /\ UNCHANGED <<list, rqCurrent, numThreads, currentThread, attached, saved, iflag, hist>>

Cli ==
    /\ Goto("cli", "add1")
    /\ iflag' = FALSE
    /\ UNCHANGED <<list, rqCurrent, numThreads, currentThread, attached, saved, depth, hist>>

\* interrupt_enable: the atomic decrement, then sti if the depth was one.
InterruptEnable ==
    /\ Goto("enable", IF depth = 1 THEN "sti" ELSE "run")
    /\ depth' = depth - 1
    /\ UNCHANGED <<list, rqCurrent, numThreads, currentThread, attached, saved, iflag, hist>>

Sti ==
    /\ Goto("sti", "run")
    /\ iflag' = TRUE
    /\ UNCHANGED <<list, rqCurrent, numThreads, currentThread, attached, saved, depth, hist>>

\* Mutant of the insertion: element->next is never set.
ListAdd1_NoNext ==
    /\ Goto("add1", "add2")
    /\ UNCHANGED list

\* The four stores of list_add(&rq->runnable, &thread->runqueue_list).
ListAdd1 ==
    /\ Goto("add1", "add2")
    /\ next' = [next EXCEPT ![cpu.arg] = next[Head]]
    /\ prev' = prev

ListAdd2 ==
    /\ Goto("add2", "add3")
    /\ prev' = [prev EXCEPT ![cpu.arg] = Head]
    /\ next' = next

ListAdd3 ==
    /\ Goto("add3", "add4")
    /\ prev' = [prev EXCEPT ![next[Head]] = cpu.arg]
    /\ next' = next

ListAdd4 ==
    /\ Goto("add4", "add5")
    /\ next' = [next EXCEPT ![Head] = cpu.arg]
    /\ prev' = prev

ListAdd ==
    /\ ListAdd1 \/ ListAdd2 \/ ListAdd3 \/ ListAdd4
    /\ UNCHANGED <<rqCurrent, numThreads, currentThread, attached, saved, intr, hist>>

\* The rest of runqueue_insert: rq->num_threads++, then back to the caller.
RunqueueInsert ==
    /\ Goto("add5", IF Masked THEN "enable" ELSE "run")
    /\ numThreads' = numThreads + 1
    /\ added' = added \cup {cpu.arg}
    /\ UNCHANGED <<list, rqCurrent, currentThread, attached, saved, intr, created, exiting>>

-----------------------------------------------------------------------------
(* A thread's function returns into kthread_exit.                          *)

KthreadExit ==
    /\ cpu.self \in Exiters
    /\ cpu.pc = "run"
    /\ cpu' = [cpu EXCEPT !.pc = "remove1", !.arg = currentThread]
    /\ exiting' = exiting \cup {cpu.self}
    /\ UNCHANGED <<list, rqCurrent, numThreads, currentThread, attached, saved, intr,
                   created, added>>

\* sched_remove: if (thread == current_thread) current_thread = NULL.
SchedRemove ==
    /\ Goto("remove1", "remove2")
    /\ currentThread' = IF cpu.arg = currentThread THEN Null ELSE currentThread
    /\ UNCHANGED <<list, rqCurrent, numThreads, attached, saved, intr, hist>>

\* Mutant: the cursor stays on the thread that leaves.
RunqueueRemove_KeepCurrent ==
    /\ Goto("remove2", "del1")
    /\ rqCurrent' = rqCurrent
    /\ UNCHANGED <<list, numThreads, currentThread, attached, saved, intr, hist>>

\* runqueue_remove: if (thread == rq->current) rq->current = NULL.
RunqueueRemove ==
    /\ Goto("remove2", "del1")
    /\ rqCurrent' = IF cpu.arg = rqCurrent THEN Null ELSE rqCurrent
    /\ UNCHANGED <<list, numThreads, currentThread, attached, saved, intr, hist>>

\* The four stores of list_delete; the first two go through a pointer that
\* is NULL when the element is on no list.
ListDelete1 ==
    /\ Goto("del1", IF next[cpu.arg] = Null THEN "fault" ELSE "del2")
    /\ prev' = IF next[cpu.arg] = Null THEN prev
               ELSE [prev EXCEPT ![next[cpu.arg]] = prev[cpu.arg]]
    /\ next' = next

ListDelete2 ==
    /\ Goto("del2", IF prev[cpu.arg] = Null THEN "fault" ELSE "del3")
    /\ next' = IF prev[cpu.arg] = Null THEN next
               ELSE [next EXCEPT ![prev[cpu.arg]] = next[cpu.arg]]
    /\ prev' = prev

ListDelete3 ==
    /\ Goto("del3", "del4")
    /\ next' = [next EXCEPT ![cpu.arg] = Null]
    /\ prev' = prev

ListDelete4 ==
    /\ Goto("del4", "dec")
    /\ prev' = [prev EXCEPT ![cpu.arg] = Null]
    /\ next' = next

ListDelete ==
    /\ ListDelete1 \/ ListDelete2 \/ ListDelete3 \/ ListDelete4
    /\ UNCHANGED <<rqCurrent, numThreads, currentThread, attached, saved, intr, hist>>

\* rq->num_threads--.
RunqueueRemoved ==
    /\ Goto("dec", "detach")
    /\ numThreads' = numThreads - 1
    /\ UNCHANGED <<list, rqCurrent, currentThread, attached, saved, intr, hist>>

\* process_remove_thread; the thread then halts until the next tick.
ProcessRemoveThread ==
    /\ Goto("detach", "halt")
    /\ attached' = attached \ {cpu.arg}
    /\ UNCHANGED <<list, rqCurrent, numThreads, currentThread, saved, intr, hist>>

-----------------------------------------------------------------------------
(* The timer interrupt.                                                    *)

RunqueueNext_AlwaysFirst == IF next[Head] = Head THEN Idle ELSE next[Head]

\* Mutant: the cursor advances from the first entry only.
RunqueueNext_FirstTwo ==
    LET first == next[Head] IN
    IF first = Head THEN Idle
    ELSE IF rqCurrent # first \/ next[first] = Head THEN first
    ELSE next[first]

\* runqueue_next: round robin over the list, skipping the list head.
RunqueueNext ==
    LET first == next[Head] IN
    IF first = Head THEN Idle
    ELSE IF rqCurrent = Null THEN first
    ELSE IF rqCurrent = Idle THEN Null      \* the idle thread's links are NULL
    ELSE IF next[rqCurrent] = Head THEN first
    ELSE next[rqCurrent]

\* Mutant: the outgoing registers go to the incoming thread.
SavedContexts_IntoNext ==
    IF RunqueueNext \in Thread THEN [saved EXCEPT ![RunqueueNext] = cpu] ELSE saved

\* arch_thread_switch: save into the current thread, if there is one, then
\* load the next one.
SavedContexts ==
    IF currentThread = Null THEN saved ELSE [saved EXCEPT ![currentThread] = cpu]

\* sched_tick.  A null next thread, or one whose process field is NULL, is
\* dereferenced by thread_switch.
Tick ==
    /\ iflag
    /\ cpu.pc # "fault"
    /\ rqCurrent' = RunqueueNext
    /\ currentThread' = RunqueueNext
    /\ saved' = SavedContexts
    /\ cpu' = IF RunqueueNext \in attached THEN SavedContexts[RunqueueNext]
              ELSE [cpu EXCEPT !.pc = "fault"]
    /\ UNCHANGED <<list, numThreads, attached, intr, hist>>

ThreadStep ==
    \/ \E t \in Workers : KthreadCreate(t)
    \/ InterruptDisable \/ Cli \/ InterruptEnable \/ Sti
    \/ ListAdd \/ RunqueueInsert
    \/ KthreadExit
    \/ SchedRemove \/ RunqueueRemove \/ ListDelete \/ RunqueueRemoved
    \/ ProcessRemoveThread

Next == Tick \/ ThreadStep

\* The timer keeps interrupting, and the CPU keeps executing.
Fairness == WF_vars(Tick) /\ WF_vars(ThreadStep)

Spec     == Init /\ [][Next]_vars
FairSpec == Spec /\ Fairness
-----------------------------------------------------------------------------
(* What the tick handler sees when it walks the list forward.              *)

\* A set that holds the head's successor and, with a node, the one after it;
\* a walk stops at the head or at NULL.
Followed(S) ==
    /\ next[Head] \in S
    /\ \A n \in S \ {Head, Null} : next[n] \in S

\* The nodes that a walk meets are those of the least such set.
OnWalk  == {n \in Node \cup {Null} : \A S \in SUBSET (Node \cup {Null}) : Followed(S) => n \in S}
OnQueue == OnWalk \ {Head, Null}

\* The contexts that can still run: the CPU's and those of the threads it
\* is not running.
Contexts == {cpu} \cup {saved[t] : t \in Thread \ {cpu.self}}

\* Types of the variables.
TypeOK ==
    /\ next \in [Node -> Node \cup {Null}]
    /\ prev \in [Node -> Node \cup {Null}]
    /\ rqCurrent \in Thread \cup {Null}
    /\ numThreads \in Int
    /\ currentThread \in Thread \cup {Null}
    /\ attached \subseteq Thread
    /\ saved \in [Thread -> Context]
    /\ cpu \in Context
    /\ depth \in Int
    /\ iflag \in BOOLEAN
    /\ created \subseteq Thread
    /\ added \subseteq Queueable
    /\ exiting \subseteq Queueable

\* sched_tick never dereferences a null or dead thread, and list_delete
\* never follows a null link, wherever a tick cuts an insertion or an exit.
NoFault == cpu.pc # "fault"

\* include/tm/sched.h:38: the run queue holds all runnable tasks.  Once
\* sched_add has returned, walking the list from its head meets the thread
\* until the thread itself exits, at every instant a tick may walk it.
AllRunnableQueued == added \ exiting \subseteq OnQueue

\* The walk always comes back to the head, and rq.current, from which the
\* next walk starts, is on it (or NULL, or the idle thread of an empty
\* queue): a half-done list_add or list_delete never leads a tick astray.
CursorOnQueue ==
    /\ Head \in OnWalk
    /\ \/ rqCurrent \in OnQueue \cup {Null}
       \/ rqCurrent = Idle /\ OnQueue = {}

\* The backward links list_delete relies on mirror the forward ones,
\* except where an insertion is about to publish its thread and behind a
\* thread that is on its way out.
BackLinks ==
    \A n \in OnQueue \cup {Head} :
        \/ prev[next[n]] = n
        \/ n \in exiting
        \/ n = Head /\ \E c \in Contexts : c.pc = "add4"

\* A tick may walk the run queue at any instant, also between two stores of
\* list_add or list_delete: it meets every runnable thread, comes back to the
\* head, and dereferences nothing that is null or dead.
QueueSound == TypeOK /\ NoFault /\ AllRunnableQueued /\ CursorOnQueue /\ BackLinks

\* Registers are never loaded into the wrong thread: a saved context is
\* that of its thread, and current_thread is the thread really running
\* unless that thread has begun to exit.
ContextIntegrity ==
    /\ \A t \in Thread : saved[t].self = t
    /\ \/ currentThread = cpu.self
       \/ currentThread = Null /\ cpu.self \in exiting

\* Round robin: every thread that has been added runs again and again.
EveryThreadRuns ==
    \A t \in Queueable : []<>(t \in added => cpu.self = t)
=============================================================================
