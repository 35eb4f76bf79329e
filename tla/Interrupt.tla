----------------------------- MODULE Interrupt ------------------------------
(***************************************************************************)
(* Interrupts: the depth and the handler lists of cpu/interrupt.c (and of  *)
(* cpu/exception.c, which keeps the same lists), the controllers of        *)
(* drivers/irqchip/irqchip.c, the pair of 8259s of intel-8259.c, the gates *)
(* of arch/x86_64/cpu and the order in which kmain brings them up.         *)
(*                                                                         *)
(* Threads run with interrupts on and are preempted by the timer's         *)
(* handler.  Every store that an interrupt handler can see is a step.      *)
(***************************************************************************)
EXTENDS Integers, Sequences, SequencesExt

CONSTANTS
    Threads,        \* kernel threads
    Boot,           \* the one that runs kmain: it registers handlers
    Timer,          \* intel_8253_interrupt, the handler that switches threads
    Others,         \* handlers of device drivers
    LineOf,         \* the interrupt line of each handler
    Null,           \* the null pointer
    MaxHeld         \* bound: sections a thread has open at once

Handlers == Others \cup {Timer}
Lines    == {LineOf[h] : h \in Handlers}
Cascade  == 2       \* the line of the first 8259 that carries the second
Chained(l) == IF l > 7 THEN {l, Cascade} ELSE {l}

\* A dispatch in progress: its line, the handler to be called next and those
\* that have been called.
Dispatching == [line : Lines, h : Handlers \cup {Null}, called : Seq(Handlers)]

ASSUME InterruptAssumption ==
    /\ Boot \in Threads /\ Null \notin Handlers /\ Timer \notin Others
    /\ LineOf \in [Handlers -> 0 .. 15] /\ MaxHeld \in Nat \ {0}
    /\ IsFiniteSet(Handlers)
    /\ Null \notin Dispatching

VARIABLES
    running,        \* the thread that has the CPU
    at,             \* where each thread is
    held,           \* history: sections each thread has entered and not left
    depth,          \* interrupt_depth
    iflag,          \* the CPU's interrupt flag
    head,           \* interrupt_handlers
    next, prev,     \* the links of the handlers
    chip,           \* the 8259 as irqchip.c knows it: [set, linked, status, mask]
    pic,            \* the hardware: [irr, isr, imr]
    disp,           \* the dispatch in progress, or Null
    registered,     \* history: the handlers of each line, in order
    split,          \* history: a thread was switched out between its add and its cli
    lost,           \* history: lines whose head was removed before the others
    unowned         \* history: lines taken with no controller in use since the last reset

thr  == <<running, at, held>>
cpu  == <<depth, iflag>>
list == <<head, next, prev>>
hist == <<registered, lost, unowned>>
vars == <<thr, cpu, list, chip, pic, disp, hist, split>>

\* What a thread does next: "run" is ordinary code; the others are inside
\* interrupt_disable, interrupt_enable, a list macro or interrupt_controller_set.
At(pc, why, h) == [pc |-> pc, why |-> why, h |-> h]
Run   == At("run", "section", Null)
Goes(t, a) == at' = [at EXCEPT ![t] = a]
CanRun(t, pc) == running = t /\ disp = Null /\ at[t].pc = pc

\* kmain calls drivers (do_initcall) once it has enabled interrupts.
InInitcall == CanRun(Boot, "run") /\ held[Boot] = 0

\* x86_64_init has disabled interrupts once when it calls kmain.
Init ==
    /\ running = Boot
    /\ at = [t \in Threads |-> IF t = Boot THEN At("boot", "set", Null) ELSE Run]
    /\ held = [t \in Threads |-> IF t = Boot THEN 1 ELSE 0]
    /\ depth = 1 /\ iflag = FALSE
    /\ head = [l \in Lines |-> Null]
    /\ next = [h \in Handlers |-> Null] /\ prev = [h \in Handlers |-> Null]
    /\ chip = [set |-> FALSE, linked |-> "no", status |-> "uninitialized", mask |-> {}]
    /\ pic = [irr |-> {}, isr |-> {}, imr |-> {}]
    /\ disp = Null
    /\ registered = [l \in Lines |-> <<>>]
    /\ split = FALSE /\ lost = {} /\ unowned = {}

-----------------------------------------------------------------------------
(* interrupt_disable and interrupt_enable.                                 *)

\* What follows the disable: the caller's section, or the rest of
\* interrupt_controller_set or _panic.
Entered(t, why) ==
    /\ held' = [held EXCEPT ![t] = @ + 1]
    /\ Goes(t, IF why = "section" THEN Run ELSE At("body", why, Null))

\* The atomic increment; only the first one goes on to cli.
Add(t, why) ==
    /\ depth' = depth + 1
    /\ IF depth = 0 THEN Goes(t, At("cli", why, Null)) /\ UNCHANGED held
                    ELSE Entered(t, why)
    /\ UNCHANGED <<running, iflag, list, chip, pic, disp, hist, split>>

\* A section of its own (stacktrace), a panic, or another controller.
Disable(t, why) ==
    /\ CanRun(t, "run") /\ held[t] < MaxHeld
    /\ Add(t, why)

Cli(t) ==
    /\ CanRun(t, "cli")
    /\ iflag' = FALSE
    /\ Entered(t, at[t].why)
    /\ UNCHANGED <<running, depth, list, chip, pic, disp, hist, split>>

\* Mutant: every enable ends in sti.
LastOut_Always(d) == TRUE

LastOut(d) == d = 1

\* The atomic decrement; only the last one goes on to sti.
Sub(t) ==
    /\ depth' = depth - 1
    /\ held' = [held EXCEPT ![t] = @ - 1]
    /\ Goes(t, IF LastOut(depth) THEN At("sti", "section", Null) ELSE Run)
    /\ UNCHANGED <<running, iflag, list, chip, pic, disp, hist, split>>

Enable(t) ==
    /\ held[t] > 0
    /\ CanRun(t, "run") \/ CanRun(t, "setdone")
    /\ Sub(t)

Sti(t) ==
    /\ CanRun(t, "sti")
    /\ iflag' = TRUE
    /\ Goes(t, Run)
    /\ UNCHANGED <<running, held, depth, list, chip, pic, disp, hist, split>>

-----------------------------------------------------------------------------
(* The 8259s (external) and the controller that irqchip.c drives.          *)

\* An initialisation sequence clears masks and services and may forget requests.
PicReset(p, kept) == [irr |-> kept, isr |-> {}, imr |-> {}]

\* A controller that irqchip.c drives: it is acknowledged and can be disabled.
InUse == chip.set /\ chip.status = "enabled"

Reinitialise ==
    /\ \E kept \in SUBSET pic.irr : pic' = PicReset(pic, kept)
    /\ unowned' = {}

\* setup_arch: register_intel_8259, then interrupt_controller_set.
SetupArch ==
    /\ CanRun(Boot, "boot")
    /\ chip' = [chip EXCEPT !.linked = "once"]
    /\ depth' = depth + 1
    /\ Entered(Boot, "set")
    /\ UNCHANGED <<running, iflag, list, pic, disp, hist, split>>

\* interrupt_controller_set(IC_INTEL_8259): disable (which calls the chip's
\* enable), init if need be, enable.  After interrupt_controller_unregister
\* none of them touches the hardware: there is no controller to disable, and
\* the status still says enabled.  The loop over the mask finds irq_mask as it
\* wants it and leaves the hardware unmasked.
SetFound(t) ==
    /\ CanRun(t, "body") /\ at[t].why = "set"
    /\ chip' = [chip EXCEPT !.set = TRUE, !.status = "enabled"]
    /\ IF chip.set \/ chip.status # "enabled" THEN Reinitialise ELSE UNCHANGED <<pic, unowned>>
    /\ Goes(t, At("setdone", "set", Null))
    /\ UNCHANGED <<running, held, cpu, list, disp, registered, lost, split>>

\* With any other number: disable re-initialises an enabled chip, and then the
\* search does not end if the chip is linked twice; otherwise no controller is
\* left and the depth stays up.
SetNotFound(t) ==
    /\ CanRun(t, "body") /\ at[t].why = "setother"
    /\ IF InUse THEN Reinitialise ELSE UNCHANGED <<pic, unowned>>
    /\ chip' = [chip EXCEPT !.set = @ /\ chip.linked = "twice",
                            !.status = IF InUse THEN "disabled" ELSE @]
    /\ Goes(t, IF chip.linked = "twice" THEN At("halt", "setother", Null) ELSE Run)
    /\ UNCHANGED <<running, held, cpu, list, disp, registered, lost, split>>

\* interrupt_controller_unregister links the chip once more.
ControllerUnregister ==
    /\ InInitcall
    /\ chip' = [chip EXCEPT !.set = FALSE, !.linked = "twice"]
    /\ UNCHANGED <<thr, cpu, list, pic, disp, hist, split>>

\* interrupt_controller_mask and interrupt_controller_unmask.
Mask(l) ==
    /\ InInitcall /\ chip.set /\ l \notin chip.mask
    /\ chip' = [chip EXCEPT !.mask = @ \cup {l}]
    /\ pic' = [pic EXCEPT !.imr = IF chip.status = "enabled" THEN @ \cup {l} ELSE @]
    /\ UNCHANGED <<thr, cpu, list, disp, hist, split>>

Unmask(l) ==
    /\ InInitcall /\ chip.set /\ l \in chip.mask
    /\ chip' = [chip EXCEPT !.mask = @ \ {l}]
    /\ pic' = [pic EXCEPT !.imr = IF chip.status = "enabled" THEN @ \ {l} ELSE @]
    /\ UNCHANGED <<thr, cpu, list, disp, hist, split>>

-----------------------------------------------------------------------------
(* interrupt_handler_register: LIST_APPEND, a store at a time.             *)

Register(h) ==
    LET l == LineOf[h]
        first == head[l]
        fresh == IF first = Null THEN h ELSE first
        last  == IF first = Null THEN h ELSE prev[first]
    IN  /\ InInitcall
        /\ ~Contains(registered[l], h)
        /\ next' = [next EXCEPT ![h] = fresh]
        /\ prev' = [prev EXCEPT ![h] = last]
        /\ Goes(Boot, At(IF first = Null THEN "publish" ELSE "append", "section", h))
        /\ UNCHANGED <<running, held, cpu, head, chip, pic, disp, hist, split>>

\* head = element.
Publish(h) ==
    /\ CanRun(Boot, "publish") /\ at[Boot].h = h
    /\ head' = [head EXCEPT ![LineOf[h]] = h]
    /\ registered' = [registered EXCEPT ![LineOf[h]] = Append(@, h)]
    /\ Goes(Boot, Run)
    /\ UNCHANGED <<running, held, cpu, next, prev, chip, pic, disp, split, lost, unowned>>

\* Mutant: head->prev is moved first.
LinkLast_Late(h) == next' = [next EXCEPT ![prev[head[LineOf[h]]]] = h, ![h] = h]

LinkLast(h) == next' = [next EXCEPT ![prev[head[LineOf[h]]]] = h]

\* head->prev->next = element: from here on the handler is called.
AppendNext(h) ==
    /\ CanRun(Boot, "append") /\ at[Boot].h = h
    /\ LinkLast(h)
    /\ registered' = [registered EXCEPT ![LineOf[h]] = Append(@, h)]
    /\ Goes(Boot, At("append2", "section", h))
    /\ UNCHANGED <<running, held, cpu, head, prev, chip, pic, disp, split, lost, unowned>>

AppendPrev(h) ==
    /\ CanRun(Boot, "append2") /\ at[Boot].h = h
    /\ prev' = [prev EXCEPT ![head[LineOf[h]]] = h]
    /\ Goes(Boot, Run)
    /\ UNCHANGED <<running, held, cpu, head, next, chip, pic, disp, hist, split>>

-----------------------------------------------------------------------------
(* interrupt_handler_unregister: LIST_REMOVE.  The head does not move.     *)

Unregister(h) ==
    LET l == LineOf[h] IN
    /\ InInitcall /\ Contains(registered[l], h)
    /\ IF head[l] = h /\ next[h] = h
       THEN /\ head' = [head EXCEPT ![l] = Null]
            /\ registered' = [registered EXCEPT ![l] = <<>>]
            /\ UNCHANGED <<prev, at>>
       ELSE /\ prev' = [prev EXCEPT ![next[h]] = prev[h]]
            /\ Goes(Boot, At("remove", "section", h))
            /\ UNCHANGED <<head, registered>>
    /\ UNCHANGED <<running, held, cpu, next, chip, pic, disp, split, lost, unowned>>

Position(s, h) == CHOOSE i \in DOMAIN s : s[i] = h

RemoveNext(h) ==
    LET l == LineOf[h] IN
    /\ CanRun(Boot, "remove") /\ at[Boot].h = h
    /\ next' = [next EXCEPT ![prev[h]] = next[h]]
    /\ registered' = [registered EXCEPT ![l] = RemoveAt(@, Position(@, h))]
    /\ lost' = IF head[l] = h THEN lost \cup {l} ELSE lost
    /\ Goes(Boot, At("remove2", "section", h))
    /\ UNCHANGED <<running, held, cpu, head, prev, chip, pic, disp, split, unowned>>

RemoveSelf(h) ==
    /\ CanRun(Boot, "remove2") /\ at[Boot].h = h
    /\ next' = [next EXCEPT ![h] = h]
    /\ prev' = [prev EXCEPT ![h] = h]
    /\ Goes(Boot, Run)
    /\ UNCHANGED <<running, held, cpu, head, chip, pic, disp, hist, split>>

-----------------------------------------------------------------------------
(* An interrupt, from the gate to iretq.                                   *)

\* A device raises its line.
Raise(l) ==
    /\ l \notin pic.irr
    /\ pic' = [pic EXCEPT !.irr = @ \cup {l}]
    /\ UNCHANGED <<thr, cpu, list, chip, disp, hist, split>>

\* A request gets through unless it is masked or an equal or higher one is
\* in service; on the first 8259 the second ranks as its line 2.
GetsThrough(l) ==
    /\ l \in pic.irr
    /\ Chained(l) \cap pic.imr = {}
    /\ \A s \in pic.isr : \A c \in Chained(l) : (s > 7) = (c > 7) => c < s

\* The gate (attributes 0x8E) clears the interrupt flag; the stub and
\* x86_64_interrupt_handler hand the 0-based number to interrupt_dispatch.
TakeInterrupt(l) ==
    /\ iflag /\ disp = Null /\ GetsThrough(l)
    /\ iflag' = FALSE
    /\ pic' = [pic EXCEPT !.irr = @ \ {l}, !.isr = @ \cup Chained(l)]
    /\ disp' = [line |-> l, h |-> head[l], called |-> <<>>]
    /\ unowned' = IF InUse THEN unowned ELSE unowned \cup Chained(l)
    /\ UNCHANGED <<thr, depth, list, chip, registered, lost, split>>

\* One turn of LIST_FOR_EACH.  The timer's handler may switch threads: it
\* replaces the saved registers, so this dispatch still ends here.  (On a
\* list whose head is being removed the loop may not end: called is bounded.)
CallHandler(t) ==
    /\ disp # Null /\ disp.h # Null
    /\ (disp.h # Timer => t = running)
    /\ running' = t
    /\ split' = (split \/ (t # running /\ at[running].pc = "cli"))
    /\ disp' = [disp EXCEPT !.called = IF Len(@) > Cardinality(Handlers) THEN @
                                        ELSE Append(@, disp.h),
                            !.h = IF next[disp.h] = head[disp.line] THEN Null ELSE next[disp.h]]
    /\ UNCHANGED <<at, held, cpu, list, chip, pic, hist>>

Highest(s) == {x \in s : \A y \in s : x <= y}
Master(s)  == {x \in s : x <= 7}

\* Mutant: the second 8259 is acknowledged from line 10 on.
Eoi_OffByOne(l) ==
    pic.isr \ (Highest(Master(pic.isr))
               \cup (IF l > 9 THEN Highest(pic.isr \ Master(pic.isr)) ELSE {}))

\* ack_intel_8259: the second 8259 for lines above 7, and always the first.
Eoi(l) ==
    pic.isr \ (Highest(Master(pic.isr))
               \cup (IF l > 7 THEN Highest(pic.isr \ Master(pic.isr)) ELSE {}))

\* interrupt_controller_ack, and iretq.
Ack ==
    /\ disp # Null /\ disp.h = Null
    /\ pic' = IF InUse THEN [pic EXCEPT !.isr = Eoi(disp.line)] ELSE pic
    /\ iflag' = TRUE
    /\ disp' = Null
    /\ UNCHANGED <<thr, depth, list, chip, hist, split>>

\* The end of _panic (its stacktrace disables and enables once more), of an
\* exception without a handler and of a page fault: the CPU halts.
Halt(t) ==
    /\ CanRun(t, "body") /\ at[t].why = "panic"
    /\ Goes(t, At("halt", "panic", Null))
    /\ UNCHANGED <<running, held, cpu, list, chip, pic, disp, hist, split>>

\* An exception: its gate clears the flag before the handler adds.
Exception(t) ==
    /\ CanRun(t, "run") /\ at[t] = Run
    /\ depth' = depth + 1
    /\ iflag' = FALSE
    /\ held' = [held EXCEPT ![t] = @ + 1]
    /\ Goes(t, At("halt", "panic", Null))
    /\ UNCHANGED <<running, list, chip, pic, disp, hist, split>>

-----------------------------------------------------------------------------
ThreadStep(t) == Cli(t) \/ Enable(t) \/ Sti(t) \/ SetFound(t) \/ SetNotFound(t) \/ Halt(t)

BootStep ==
    \/ SetupArch
    \/ \E h \in Handlers : Publish(h) \/ AppendNext(h) \/ AppendPrev(h)
                           \/ RemoveNext(h) \/ RemoveSelf(h)

Dispatch == (\E t \in Threads : CallHandler(t)) \/ Ack

Next ==
    \/ BootStep \/ Dispatch \/ ControllerUnregister
    \/ \E t \in Threads : ThreadStep(t) \/ Exception(t)
    \/ \E t \in Threads, why \in {"section", "panic", "set", "setother"} :
          (why \in {"set", "setother"} => t = Boot) /\ Disable(t, why)
    \/ \E h \in Handlers : Register(h) \/ Unregister(h)
    \/ \E l \in Lines : Mask(l) \/ Unmask(l) \/ Raise(l) \/ TakeInterrupt(l)

Spec == Init /\ [][Next]_vars
-----------------------------------------------------------------------------
\* A thread inside a section, and a halted one, is not interrupted, unless
\* some thread was switched out between the increment and the cli of its
\* interrupt_disable (cpu/interrupt.c:91).
SectionsMasked ==
    ~split /\ disp = Null /\ held[running] > 0 => ~iflag

\* Every dispatch, also one in the middle of a registration or a removal,
\* calls the handlers of its line once each and in order; on a line whose
\* head was removed while others stayed it does not (cpu/interrupt.c:72).
DispatchComplete ==
    [][ Ack /\ disp.line \notin lost => disp.called = registered[disp.line] ]_vars

\* Between dispatches the lines in service are those taken while no
\* controller was in use: every other interrupt has been acknowledged to each
\* 8259 that waits for it, and no acknowledgement (a non-specific EOI, which
\* ends whatever ranks highest) has ended the service of another line.  A
\* line that was taken with no controller stays in service, and blocks
\* itself and all below it, until the 8259s are re-initialised, which
\* interrupt_controller_set does not do after interrupt_controller_unregister
\* (drivers/irqchip/irqchip.c:107).
AllAcknowledged == disp = Null => pic.isr = unowned
=============================================================================
