-------------------------- MODULE InterruptProofs ---------------------------
(***************************************************************************)
(* Proofs about Interrupt, for any threads, handlers and wiring.           *)
(***************************************************************************)
EXTENDS Interrupt, SequenceTheorems, FiniteSetTheorems, TLAPS

-----------------------------------------------------------------------------
(* Unlinking a handler, as an operation on a sequence.                     *)

\* A sequence without one of its elements.
LEMMA RemoveAtProperties ==
    ASSUME NEW S, NEW s \in Seq(S), NEW i \in 1 .. Len(s)
    PROVE  /\ RemoveAt(s, i) \in Seq(S)
           /\ Len(RemoveAt(s, i)) = Len(s) - 1
           /\ \A j \in 1 .. Len(s) - 1 : RemoveAt(s, i)[j] = IF j < i THEN s[j] ELSE s[j + 1]
<1> DEFINE u == SubSeq(s, 1, i - 1)  v == SubSeq(s, i + 1, Len(s))
<1>0. Len(s) \in Nat /\ \A j \in 1 .. Len(s) : s[j] \in S
  BY LenProperties, ElementOfSeq
<1>1. u \in Seq(S) /\ Len(u) = i - 1 /\ \A j \in 1 .. i - 1 : u[j] = s[j]
  <2>1. \A j \in 1 .. i - 1 : s[j] \in S
    BY <1>0
  <2> QED
    BY <1>0, <2>1, SubSeqProperties
<1>2. v \in Seq(S) /\ Len(v) = Len(s) - i /\ \A j \in 1 .. Len(s) - i : v[j] = s[i + j]
  <2>1. \A j \in i + 1 .. Len(s) : s[j] \in S
    BY <1>0
  <2>2. /\ v \in Seq(S)
        /\ Len(v) = IF i + 1 <= Len(s) THEN Len(s) - (i + 1) + 1 ELSE 0
        /\ \A j \in 1 .. Len(s) - (i + 1) + 1 : v[j] = s[(i + 1) + j - 1]
    BY <1>0, <2>1, SubSeqProperties
  <2> QED
    BY <1>0, <2>2
<1> HIDE DEF u, v
<1>3. /\ u \o v \in Seq(S) /\ Len(u \o v) = Len(u) + Len(v)
      /\ \A j \in 1 .. Len(u) + Len(v) : (u \o v)[j] = IF j <= Len(u) THEN u[j] ELSE v[j - Len(u)]
  BY <1>1, <1>2, ConcatProperties
<1>4. ASSUME NEW j \in 1 .. Len(s) - 1
      PROVE  (u \o v)[j] = IF j < i THEN s[j] ELSE s[j + 1]
  <2>1. CASE j < i
    BY <1>0, <1>1, <1>2, <1>3, <2>1
  <2>2. CASE ~(j < i)
    <3>1. (u \o v)[j] = v[j - (i - 1)] /\ j - (i - 1) \in 1 .. Len(s) - i
      BY <1>0, <1>1, <1>2, <1>3, <2>2
    <3>2. v[j - (i - 1)] = s[i + (j - (i - 1))] /\ i + (j - (i - 1)) = j + 1
      BY <1>0, <1>2, <3>1
    <3> QED
      BY <2>2, <3>1, <3>2
  <2> QED
    BY <2>1, <2>2
<1>5. RemoveAt(s, i) = u \o v
  BY DEF RemoveAt, u, v
<1>6. Len(u \o v) = Len(s) - 1
  BY <1>0, <1>1, <1>2, <1>3
<1> QED
  BY <1>3, <1>4, <1>5, <1>6

-----------------------------------------------------------------------------
(* Types, a group of variables at a time.                                  *)

Why   == {"section", "panic", "set", "setother"}
PCs   == {"run", "boot", "cli", "sti", "body", "setdone", "halt", "publish", "append",
          "append2", "remove", "remove2"}
Place == [pc : PCs, why : Why, h : Handlers \cup {Null}]

ThreadType ==
    /\ running \in Threads
    /\ at \in [Threads -> Place]
    /\ held \in [Threads -> Nat]
    /\ depth \in Int
    /\ iflag \in BOOLEAN
    /\ split \in BOOLEAN

ChipType ==
    /\ chip \in [set : BOOLEAN, linked : {"no", "once", "twice"},
                 status : {"uninitialized", "enabled", "disabled"}, mask : SUBSET Lines]
    /\ pic \in [irr : SUBSET Lines, isr : SUBSET (Lines \cup {Cascade}), imr : SUBSET Lines]

ListType ==
    /\ head \in [Lines -> Handlers \cup {Null}]
    /\ next \in [Handlers -> Handlers \cup {Null}]
    /\ prev \in [Handlers -> Handlers \cup {Null}]
    /\ disp \in Dispatching \cup {Null}
    /\ registered \in [Lines -> Seq(Handlers)]
    /\ lost \in SUBSET Lines

\* What LIST_REMOVE is taking out is still in the list.
Removing == at[Boot].pc = "remove" =>
    LET h == at[Boot].h
    IN  h \in Handlers /\ \E i \in DOMAIN registered[LineOf[h]] : registered[LineOf[h]][i] = h

TypeInv == ThreadType /\ ChipType /\ ListType /\ Removing

\* The lines are those of the two 8259s.
LEMMA LinesType == Lines \subseteq 0 .. 15 /\ \A h \in Handlers : LineOf[h] \in Lines
  BY InterruptAssumption DEF Lines

LEMMA ChainedType == \A l \in Lines : Chained(l) \subseteq Lines \cup {Cascade}
  BY DEF Chained

LEMMA PositionType ==
    ASSUME NEW S, NEW s \in Seq(S), NEW h, \E i \in DOMAIN s : s[i] = h
    PROVE  Position(s, h) \in 1 .. Len(s) /\ s[Position(s, h)] = h
  BY LenProperties DEF Position

LEMMA PlaceType ==
    /\ Run \in Place
    /\ \A pc \in PCs, why \in Why, h \in Handlers \cup {Null} : At(pc, why, h) \in Place
  BY DEF Place, PCs, Why, Run, At

\* A dispatch that starts or goes on is not the null pointer.
LEMMA DispatchingType ==
    ASSUME ListType,
           (\E t \in Threads : CallHandler(t)) \/ (\E l \in Lines : TakeInterrupt(l))
    PROVE  disp' \in Dispatching /\ disp' # Null
<1>1. ASSUME NEW t \in Threads, CallHandler(t)
      PROVE  disp' \in Dispatching
  <2>1. disp \in Dispatching /\ disp.h \in Handlers
    BY <1>1 DEF CallHandler, Dispatching, ListType
  <2>2. next[disp.h] \in Handlers \cup {Null} /\ Append(disp.called, disp.h) \in Seq(Handlers)
    BY <2>1, AppendProperties DEF ListType, Dispatching
  <2> QED
    BY <1>1, <2>1, <2>2 DEF CallHandler, Dispatching
<1>2. ASSUME NEW l \in Lines, TakeInterrupt(l)
      PROVE  disp' \in Dispatching
  <2>1. head[l] \in Handlers \cup {Null} /\ << >> \in Seq(Handlers)
    BY DEF ListType
  <2> QED
    BY <1>2, <2>1 DEF TakeInterrupt, Dispatching
<1> QED
  BY <1>1, <1>2, InterruptAssumption

\* Where a thread goes is a place.
LEMMA ThreadTypeStep == ThreadType /\ [Next]_vars => ThreadType'
<1> SUFFICES ASSUME ThreadType, [Next]_vars PROVE ThreadType'
  OBVIOUS
<1> USE InterruptAssumption, PlaceType DEF ThreadType, Why, PCs
<1>1. ASSUME NEW t \in Threads, NEW a \in Place, Goes(t, a)
      PROVE  at' \in [Threads -> Place]
  BY <1>1 DEF Goes
<1>2. ASSUME NEW t \in Threads, NEW why \in Why, Entered(t, why)
      PROVE  at' \in [Threads -> Place] /\ held' \in [Threads -> Nat]
  BY <1>1, <1>2 DEF Entered
<1>3. CASE SetupArch
  BY <1>2, <1>3 DEF SetupArch
<1>4. ASSUME NEW h \in Handlers, Publish(h) \/ AppendNext(h) \/ AppendPrev(h)
      PROVE  ThreadType'
  BY <1>1, <1>4 DEF Publish, AppendNext, AppendPrev, cpu
<1>5. ASSUME NEW h \in Handlers, RemoveNext(h) \/ RemoveSelf(h)
      PROVE  ThreadType'
  BY <1>1, <1>5 DEF RemoveNext, RemoveSelf, cpu
<1>6. ASSUME NEW t \in Threads, CallHandler(t)
      PROVE  ThreadType'
  <2>1. split' \in BOOLEAN
    BY <1>6 DEF CallHandler
  <2> QED
    BY <1>6, <2>1 DEF CallHandler, cpu
<1>7. CASE Ack
  BY <1>7 DEF Ack, thr
<1>8. CASE ControllerUnregister
  BY <1>8 DEF ControllerUnregister, thr, cpu
<1>9. ASSUME NEW t \in Threads, ThreadStep(t)
      PROVE  ThreadType'
  <2>1. CASE Cli(t)
    <3>1. at[t].why \in Why
      BY DEF Place
    <3> QED
      BY <1>2, <2>1, <3>1 DEF Cli
  <2>2. CASE Enable(t)
    <3>1. held' \in [Threads -> Nat] /\ depth' \in Int
      BY <2>2 DEF Enable, Sub
    <3> QED
      BY <1>1, <2>2, <3>1 DEF Enable, Sub
  <2>3. CASE Sti(t)
    BY <1>1, <2>3 DEF Sti
  <2>4. CASE SetFound(t) \/ SetNotFound(t) \/ Halt(t)
    BY <1>1, <2>4 DEF SetFound, SetNotFound, Halt, cpu
  <2> QED
    BY <1>9, <2>1, <2>2, <2>3, <2>4 DEF ThreadStep
<1>10. ASSUME NEW t \in Threads, Exception(t)
       PROVE  ThreadType'
  <2>1. at' \in [Threads -> Place]
    BY <1>1, <1>10 DEF Exception
  <2>2. held' \in [Threads -> Nat] /\ depth' \in Int
    BY <1>10 DEF Exception
  <2> QED
    BY <1>10, <2>1, <2>2 DEF Exception
<1>11. ASSUME NEW t \in Threads, NEW why \in Why, Disable(t, why)
       PROVE  ThreadType'
  BY <1>1, <1>2, <1>11 DEF Disable, Add
<1>12. ASSUME NEW h \in Handlers, Register(h) \/ Unregister(h)
       PROVE  ThreadType'
  BY <1>1, <1>12 DEF Register, Unregister, cpu
<1>13. ASSUME NEW l \in Lines, Mask(l) \/ Unmask(l) \/ Raise(l) \/ TakeInterrupt(l)
       PROVE  ThreadType'
  BY <1>13 DEF Mask, Unmask, Raise, TakeInterrupt, thr, cpu
<1>14. CASE UNCHANGED vars
  BY <1>14 DEF vars, thr, cpu
<1> QED
  BY <1>3, <1>4, <1>5, <1>6, <1>7, <1>8, <1>9, <1>10, <1>11, <1>12, <1>13, <1>14
     DEF Next, BootStep, Dispatch

\* The masks and the services of the 8259s are sets of lines.
LEMMA ChipTypeStep == ChipType /\ [Next]_vars => ChipType'
<1> SUFFICES ASSUME ChipType, [Next]_vars PROVE ChipType'
  OBVIOUS
<1> USE InterruptAssumption DEF ChipType
<1>1. CASE SetupArch
  BY <1>1 DEF SetupArch
<1>2. CASE \E h \in Handlers : Publish(h) \/ AppendNext(h) \/ AppendPrev(h)
                               \/ RemoveNext(h) \/ RemoveSelf(h)
  BY <1>2 DEF Publish, AppendNext, AppendPrev, RemoveNext, RemoveSelf
<1>3. CASE \E t \in Threads : CallHandler(t)
  BY <1>3 DEF CallHandler
<1>4. CASE Ack
  <2>1. Eoi(disp.line) \subseteq pic.isr
    BY DEF Eoi
  <2> QED
    BY <1>4, <2>1 DEF Ack
<1>5. CASE ControllerUnregister
  BY <1>5 DEF ControllerUnregister
<1>6. ASSUME NEW t \in Threads, ThreadStep(t)
      PROVE  ChipType'
  <2>0. ASSUME Reinitialise
        PROVE  pic' \in [irr : SUBSET Lines, isr : SUBSET (Lines \cup {Cascade}), imr : SUBSET Lines]
    <3>1. PICK kept \in SUBSET pic.irr : pic' = PicReset(pic, kept)
      BY <2>0 DEF Reinitialise
    <3> QED
      BY <3>1 DEF PicReset
  <2>1. CASE SetFound(t)
    BY <2>0, <2>1 DEF SetFound
  <2>2. CASE SetNotFound(t)
    BY <2>0, <2>2 DEF SetNotFound
  <2>3. CASE Cli(t) \/ Enable(t) \/ Sti(t) \/ Halt(t)
    BY <2>3 DEF Cli, Enable, Sub, Sti, Halt
  <2> QED
    BY <1>6, <2>1, <2>2, <2>3 DEF ThreadStep
<1>7. CASE \E t \in Threads : Exception(t) \/ (\E why \in Why : Disable(t, why))
  BY <1>7 DEF Exception, Disable, Add
<1>8. CASE \E h \in Handlers : Register(h) \/ Unregister(h)
  BY <1>8 DEF Register, Unregister
<1>9. ASSUME NEW l \in Lines, Mask(l)
      PROVE  ChipType'
  BY <1>9 DEF Mask
<1>10. ASSUME NEW l \in Lines, Unmask(l)
       PROVE  ChipType'
  BY <1>10 DEF Unmask
<1>11. ASSUME NEW l \in Lines, Raise(l)
       PROVE  ChipType'
  BY <1>11 DEF Raise
<1>12. ASSUME NEW l \in Lines, TakeInterrupt(l)
       PROVE  ChipType'
  BY <1>12, ChainedType DEF TakeInterrupt
<1>13. CASE UNCHANGED vars
  BY <1>13 DEF vars
<1> QED
  BY <1>1, <1>2, <1>3, <1>4, <1>5, <1>6, <1>7, <1>8, <1>9, <1>10, <1>11, <1>12, <1>13
     DEF Next, BootStep, Dispatch, Why

\* The links lead to handlers or nowhere.
LEMMA ListTypeStep ==
    ThreadType /\ ListType /\ Removing /\ [Next]_vars => ListType' /\ Removing'
<1> SUFFICES ASSUME ThreadType, ListType, Removing, [Next]_vars PROVE ListType' /\ Removing'
  OBVIOUS
<1> USE InterruptAssumption, LinesType DEF ListType
<1>1. CASE SetupArch
  BY <1>1 DEF SetupArch, Entered, Goes, At, Run, list, hist, Removing, ThreadType
<1>2. ASSUME NEW h \in Handlers, Publish(h)
      PROVE  ListType' /\ Removing'
  <2>1. ListType'
    BY <1>2, AppendProperties DEF Publish
  <2> QED
    BY <1>2, <2>1 DEF Publish, Goes, At, Run, Removing, ThreadType
<1>3. ASSUME NEW h \in Handlers, AppendNext(h)
      PROVE  ListType' /\ Removing'
  <2>1. ListType'
    BY <1>3, AppendProperties DEF AppendNext, LinkLast
  <2> QED
    BY <1>3, <2>1 DEF AppendNext, Goes, At, Run, Removing, ThreadType
<1>4. ASSUME NEW h \in Handlers, AppendPrev(h)
      PROVE  ListType' /\ Removing'
  BY <1>4 DEF AppendPrev, Goes, At, Run, Removing, ThreadType, hist
<1>5. ASSUME NEW h \in Handlers, RemoveNext(h)
      PROVE  ListType' /\ Removing'
  <2> DEFINE s == registered[LineOf[h]]
  <2>1. RemoveAt(s, Position(s, h)) \in Seq(Handlers)
    <3>1. at[Boot].pc = "remove" /\ at[Boot].h = h
      BY <1>5 DEF RemoveNext, CanRun
    <3>2. \E i \in DOMAIN s : s[i] = h
      BY <3>1 DEF Removing
    <3> QED
      BY <3>2, PositionType, RemoveAtProperties
  <2>2. next' \in [Handlers -> Handlers \cup {Null}] /\ lost' \in SUBSET Lines
    BY <1>5 DEF RemoveNext
  <2>3. registered' \in [Lines -> Seq(Handlers)] /\ UNCHANGED <<head, prev, disp>>
    BY <1>5, <2>1 DEF RemoveNext
  <2>4. Removing'
    BY <1>5 DEF RemoveNext, Goes, At, Removing, ThreadType
  <2> QED
    BY <2>2, <2>3, <2>4
<1>6. ASSUME NEW h \in Handlers, RemoveSelf(h)
      PROVE  ListType' /\ Removing'
  BY <1>6 DEF RemoveSelf, Goes, At, Run, Removing, ThreadType, hist
<1>7. ASSUME (\E t \in Threads : CallHandler(t)) \/ (\E l \in Lines : TakeInterrupt(l))
      PROVE  ListType' /\ Removing'
  <2>1. disp' \in Dispatching
    BY <1>7, DispatchingType
  <2> QED
    BY <1>7, <2>1 DEF CallHandler, TakeInterrupt, hist, list, thr, Removing
<1>8. CASE Ack
  BY <1>8 DEF Ack, thr, hist, list, Removing
<1>9. CASE ControllerUnregister
  BY <1>9 DEF ControllerUnregister, thr, hist, list, Removing
<1>10. ASSUME NEW t \in Threads, ThreadStep(t)
       PROVE  ListType' /\ Removing'
  <2>1. UNCHANGED <<list, registered, lost, disp>> /\ (\A s \in Threads \ {t} : at'[s] = at[s])
    BY <1>10 DEF hist, ThreadStep, Cli, Enable, Sub, Sti, SetFound, SetNotFound, Halt, Entered, Goes,
                 ThreadType
  <2>2. at'[t].pc # "remove"
    BY <1>10 DEF ThreadStep, Cli, Enable, Sub, Sti, SetFound, SetNotFound, Halt, Entered, Goes,
                 ThreadType, At, Run
  <2> QED
    BY <2>1, <2>2 DEF list, Removing
<1>11. ASSUME NEW t \in Threads, Exception(t) \/ (\E why \in Why : Disable(t, why))
       PROVE  ListType' /\ Removing'
  <2>1. UNCHANGED <<list, hist, disp>> /\ (\A s \in Threads \ {t} : at'[s] = at[s])
    BY <1>11 DEF Exception, Disable, Add, Entered, Goes, ThreadType
  <2>2. at'[t].pc # "remove"
    BY <1>11 DEF Exception, Disable, Add, Entered, Goes, ThreadType, At, Run
  <2> QED
    BY <2>1, <2>2 DEF list, hist, Removing
<1>12. ASSUME NEW h \in Handlers, Register(h)
       PROVE  ListType' /\ Removing'
  <2>1. ListType'
    BY <1>12 DEF Register, hist
  <2> QED
    BY <1>12, <2>1 DEF Register, Goes, At, Removing, ThreadType
<1>13. ASSUME NEW h \in Handlers, Unregister(h)
       PROVE  ListType' /\ Removing'
  <2>1. ListType'
    <3>1. head' \in [Lines -> Handlers \cup {Null}] /\ UNCHANGED <<next, disp, lost>>
      BY <1>13 DEF Unregister
    <3>2. prev' \in [Handlers -> Handlers \cup {Null}]
      BY <1>13 DEF Unregister
    <3>3. registered' \in [Lines -> Seq(Handlers)]
      <4>1. << >> \in Seq(Handlers) /\ LineOf[h] \in Lines
        OBVIOUS
      <4>2. registered' = registered \/ registered' = [registered EXCEPT ![LineOf[h]] = << >>]
        BY <1>13 DEF Unregister
      <4> HIDE LinesType
      <4> QED
        BY <4>1, <4>2
    <3> QED
      BY <3>1, <3>2, <3>3
  <2>2. at'[Boot].pc = "remove" => at' = [at EXCEPT ![Boot] = At("remove", "section", h)]
                                   /\ registered' = registered
    BY <1>13 DEF Unregister, Goes, InInitcall, CanRun
  <2>3. \E i \in DOMAIN registered[LineOf[h]] : registered[LineOf[h]][i] = h
    <3>1. Contains(registered[LineOf[h]], h)
      BY <1>13 DEF Unregister
    <3> QED
      BY <3>1, LenProperties DEF Contains
  <2> QED
    BY <2>1, <2>2, <2>3 DEF Removing, At, ThreadType
<1>14. CASE \E l \in Lines : Mask(l) \/ Unmask(l) \/ Raise(l)
  BY <1>14 DEF Mask, Unmask, Raise, thr, hist, list, Removing
<1>15. CASE UNCHANGED vars
  BY <1>15 DEF vars, thr, list, hist, Removing
<1> QED
  BY <1>1, <1>2, <1>3, <1>4, <1>5, <1>6, <1>7, <1>8, <1>9, <1>10, <1>11, <1>12, <1>13, <1>14,
     <1>15 DEF Next, BootStep, Dispatch, Why

\* Every step keeps the types.
LEMMA TypeStep == TypeInv /\ [Next]_vars => TypeInv'
  BY ThreadTypeStep, ChipTypeStep, ListTypeStep DEF TypeInv

\* The CPU accepts interrupts, or is serving one it accepted.
Open == iflag \/ disp # Null

\* interrupt_depth is the number of sections of the thread that has the CPU,
\* but for one that has incremented it and not yet executed its cli; all
\* other threads were interrupted in the open.
DepthExact ==
    /\ \A t \in Threads \ {running} : held[t] = 0 /\ at[t].pc \notin {"cli", "sti", "boot"}
    /\ depth = held[running] + (IF at[running].pc = "cli" THEN 1 ELSE 0)
    /\ at[running].pc \in {"cli", "sti"} => held[running] = 0
    /\ at[running].pc = "sti" => ~Open
    /\ at[running].pc = "boot" => held[running] > 0
    /\ Open => held[running] = 0

MaskInv == ~split => DepthExact

\* Every step keeps the depth exact as long as no thread is switched out
\* between the two halves of interrupt_disable.
LEMMA MaskStep == TypeInv /\ MaskInv /\ [Next]_vars => MaskInv'
<1> SUFFICES ASSUME TypeInv, TypeInv', MaskInv, [Next]_vars PROVE MaskInv'
  BY TypeStep
<1> USE InterruptAssumption DEF MaskInv, DepthExact, Open, TypeInv, ThreadType, Place, PCs, Why
<1>1. CASE SetupArch
  BY <1>1 DEF SetupArch, CanRun, Entered, Goes, At, Run, list, hist
<1>2. ASSUME NEW h \in Handlers, Publish(h) \/ AppendNext(h) \/ AppendPrev(h)
                                 \/ RemoveNext(h) \/ RemoveSelf(h)
      PROVE  MaskInv'
  BY <1>2 DEF Publish, AppendNext, AppendPrev, RemoveNext, RemoveSelf, CanRun, Goes, At, Run,
              cpu, hist, list
<1>3. ASSUME NEW t \in Threads, CallHandler(t)
      PROVE  MaskInv'
  <2>1. /\ UNCHANGED <<at, held, depth, iflag>> /\ running' = t
        /\ disp # Null /\ disp' # Null
        /\ split' = (split \/ (t # running /\ at[running].pc = "cli"))
    BY <1>3, DispatchingType DEF CallHandler, cpu
  <2>2. split => split'
    BY <2>1
  <2>3. ASSUME ~split' PROVE DepthExact'
    <3>1. ~split /\ (t = running \/ at[running].pc # "cli")
      BY <2>1, <2>3
    <3>2. DepthExact /\ held[running] = 0
      BY <2>1, <3>1
    <3>3. \A s \in Threads \ {t} : held[s] = 0 /\ at[s].pc \notin {"cli", "sti", "boot"}
      BY <2>1, <3>1, <3>2
    <3>4. /\ depth = held[t] + (IF at[t].pc = "cli" THEN 1 ELSE 0)
          /\ held[t] = 0 /\ at[t].pc # "sti" /\ at[t].pc # "boot"
      <4>1. CASE t = running
        BY <2>1, <3>1, <3>2, <4>1
      <4>2. CASE t # running
        BY <2>1, <3>1, <3>2, <4>2
      <4> QED
        BY <4>1, <4>2
    <3> QED
      BY <2>1, <3>3, <3>4
  <2> QED
    BY <2>3
<1>4. CASE Ack
  BY <1>4 DEF Ack, thr, hist, list
<1>5. CASE ControllerUnregister
  BY <1>5 DEF ControllerUnregister, thr, cpu, hist, list
<1>6. ASSUME NEW t \in Threads, ThreadStep(t)
      PROVE  MaskInv'
  <2>1. CASE Cli(t)
    <3>1. /\ t = running /\ disp = Null /\ at[t].pc = "cli"
          /\ held' = [held EXCEPT ![t] = held[t] + 1]
          /\ iflag' = FALSE /\ UNCHANGED <<running, depth, disp, split>>
      BY <2>1 DEF Cli, CanRun, Entered, hist, list
    <3>2. /\ at' \in [Threads -> Place] /\ at'[t].pc \in {"run", "body"}
          /\ \A s \in Threads \ {t} : at'[s] = at[s]
      BY <2>1 DEF Cli, CanRun, Entered, Goes, At, Run
    <3> QED
      BY <3>1, <3>2
  <2>2. CASE Enable(t)
    <3>1. /\ t = running /\ disp = Null /\ at[t].pc \in {"run", "setdone"} /\ held[t] > 0
          /\ held' = [held EXCEPT ![t] = held[t] - 1]
          /\ depth' = depth - 1 /\ UNCHANGED <<running, iflag, disp, split>>
      BY <2>2 DEF Enable, Sub, CanRun
    <3>2. /\ at'[t].pc = IF depth = 1 THEN "sti" ELSE "run"
          /\ \A s \in Threads \ {t} : at'[s] = at[s]
      BY <2>2 DEF Enable, Sub, LastOut, Goes, At, Run
    <3>3. ASSUME ~split' PROVE DepthExact'
      <4>1. DepthExact /\ ~Open /\ held[t] \in Nat /\ depth = held[t]
        BY <3>1, <3>3
      <4>2. held'[t] = held[t] - 1 /\ at'[t].pc \in {"sti", "run"}
            /\ (at'[t].pc = "sti" => held'[t] = 0)
            /\ \A s \in Threads \ {t} : held'[s] = held[s]
        BY <3>1, <3>2, <4>1
      <4> QED
        BY <3>1, <3>2, <4>1, <4>2
    <3> QED
      BY <3>3
  <2>3. CASE Sti(t)
    BY <2>3 DEF Sti, CanRun, Goes, At, Run, hist, list
  <2>4. CASE SetFound(t)
    BY <2>4 DEF SetFound, CanRun, Goes, At, Run, hist, list, cpu
  <2>5. CASE SetNotFound(t)
    BY <2>5 DEF SetNotFound, CanRun, Goes, At, Run, hist, list, cpu
  <2>6. CASE Halt(t)
    BY <2>6 DEF Halt, CanRun, Goes, At, Run, hist, list, cpu
  <2> QED
    BY <1>6, <2>1, <2>2, <2>3, <2>4, <2>5, <2>6 DEF ThreadStep
<1>7. ASSUME NEW t \in Threads, Exception(t)
      PROVE  MaskInv'
  <2>1. /\ t = running /\ disp = Null /\ at[t].pc = "run"
        /\ held' = [held EXCEPT ![t] = held[t] + 1]
        /\ depth' = depth + 1 /\ iflag' = FALSE /\ UNCHANGED <<running, disp, split>>
    BY <1>7 DEF Exception, CanRun
  <2>2. /\ at' \in [Threads -> Place] /\ at'[t].pc = "halt"
        /\ \A s \in Threads \ {t} : at'[s] = at[s]
    BY <1>7 DEF Exception, Goes, At
  <2> QED
    BY <2>1, <2>2
<1>8. ASSUME NEW t \in Threads, NEW why \in {"section", "panic", "set", "setother"},
             Disable(t, why)
      PROVE  MaskInv'
  BY <1>8 DEF Disable, Add, CanRun, Entered, Goes, At, Run, hist, list
<1>9. ASSUME NEW h \in Handlers, Register(h) \/ Unregister(h)
      PROVE  MaskInv'
  <2>1. CASE Register(h)
    BY <2>1 DEF Register, InInitcall, CanRun, Goes, At, Run, hist, list, cpu
  <2>2. CASE Unregister(h)
    BY <2>2 DEF Unregister, InInitcall, CanRun, Goes, At, Run, hist, list, cpu
  <2> QED
    BY <1>9, <2>1, <2>2
<1>10. ASSUME NEW l \in Lines, Mask(l) \/ Unmask(l) \/ Raise(l) \/ TakeInterrupt(l)
       PROVE  MaskInv'
  <2>1. CASE TakeInterrupt(l)
    BY <2>1, DispatchingType DEF TakeInterrupt, thr
  <2> QED
    BY <1>10, <2>1 DEF Mask, Unmask, Raise, thr, hist, list, cpu
<1>11. CASE UNCHANGED vars
  BY <1>11 DEF vars, thr, cpu
<1> QED
  BY <1>1, <1>2, <1>3, <1>4, <1>5, <1>6, <1>7, <1>8, <1>9, <1>10, <1>11
     DEF Next, BootStep, Dispatch

LEMMA InterruptInit == Init => TypeInv /\ MaskInv
<1> SUFFICES ASSUME Init PROVE TypeInv /\ MaskInv
  OBVIOUS
<1> USE InterruptAssumption DEF Init
<1>1. ThreadType
  <2>1. At("boot", "set", Null) \in Place /\ Run \in Place
    BY PlaceType DEF PCs, Why
  <2>2. at \in [Threads -> Place] /\ held \in [Threads -> Nat]
    BY <2>1
  <2>3. running \in Threads /\ depth \in Int
    OBVIOUS
  <2>4. iflag \in BOOLEAN /\ split \in BOOLEAN
    OBVIOUS
  <2> HIDE DEF Init
  <2> QED
    BY <2>2, <2>3, <2>4 DEF ThreadType
<1>2. ChipType
  BY DEF ChipType
<1>3. ListType
  BY DEF ListType
<1>4. Removing
  BY DEF Removing, At
<1>5. MaskInv
  BY DEF MaskInv, DepthExact, Open, At, Run
<1> QED
  BY <1>1, <1>2, <1>3, <1>4, <1>5 DEF TypeInv

\* The types of Interrupt.
THEOREM InterruptTypes == Spec => []TypeInv
<1>1. Init => TypeInv
  BY InterruptInit
<1> QED
  BY <1>1, TypeStep, PTL DEF Spec

\* Between interrupt_disable and interrupt_enable no interrupt is taken, for
\* any number of threads, handlers and nested sections, as long as none of
\* them is switched out between the increment and the cli.
THEOREM SectionsAlwaysMasked == Spec => []SectionsMasked
<1>1. Init => TypeInv /\ MaskInv
  BY InterruptInit
<1>2. TypeInv /\ MaskInv => SectionsMasked
  BY DEF TypeInv, ThreadType, MaskInv, DepthExact, Open, SectionsMasked
<1> QED
  BY <1>1, <1>2, TypeStep, MaskStep, PTL DEF Spec
-----------------------------------------------------------------------------
(* Acknowledgement.                                                        *)

\* The lines in service are the unowned ones and, while the controller is in
\* use, those of the dispatch in progress, which rank above them.
AckInv ==
    /\ disp = Null \/ ~InUse => pic.isr = unowned
    /\ disp # Null /\ InUse =>
          /\ pic.isr = unowned \cup Chained(disp.line)
          /\ \A c \in Chained(disp.line) : c \notin unowned
          /\ \A c \in Chained(disp.line), s \in unowned : (s > 7) = (c > 7) => c < s

LEMMA HighestAdded ==
    \A s : \A x \in Int : (\A y \in s : y \in Int /\ x < y) => Highest(s \cup {x}) = {x}
<1> SUFFICES ASSUME NEW s, NEW x \in Int, \A y \in s : y \in Int /\ x < y
             PROVE  Highest(s \cup {x}) = {x}
  OBVIOUS
<1>1. \A y \in s : ~(y <= x) /\ x <= y
  OBVIOUS
<1>2. x <= x
  OBVIOUS
<1> QED
  BY <1>1, <1>2, Zenon DEF Highest

\* One acknowledgement ends the services of one interrupt on both 8259s, and
\* no other.
LEMMA EoiClears ==
    ASSUME NEW l \in Lines, NEW u \in SUBSET (Lines \cup {Cascade}),
           pic.isr = u \cup Chained(l),
           \A c \in Chained(l) : c \notin u,
           \A c \in Chained(l), s \in u : (s > 7) = (c > 7) => c < s
    PROVE  Eoi(l) = u
<1>1. l \in 0 .. 15 /\ u \subseteq 0 .. 15
  BY LinesType DEF Cascade
<1>2. CASE l > 7
  <2>1. Chained(l) = {l, 2}
    BY <1>2 DEF Chained, Cascade
  <2>2. /\ Master(pic.isr) = Master(u) \cup {2}
        /\ pic.isr \ Master(pic.isr) = (u \ Master(u)) \cup {l}
    BY <1>1, <1>2, <2>1 DEF Master
  <2>3. \A s \in Master(u) : s \in Int /\ 2 < s
    BY <1>1, <1>2, <2>1 DEF Master
  <2>4. Highest(Master(u) \cup {2}) = {2}
    <3>1. 2 \in Int
      OBVIOUS
    <3> QED
      BY <2>3, <3>1, HighestAdded, Zenon
  <2>5. Highest((u \ Master(u)) \cup {l}) = {l}
    <3>1. l \in Int
      BY <1>1
    <3>2. \A s \in u \ Master(u) : s \in Int /\ l < s
      BY <1>1, <1>2, <2>1 DEF Master
    <3> QED
      BY <3>1, <3>2, HighestAdded, Zenon
  <2>6. Eoi(l) = (u \cup {l, 2}) \ {2, l}
    BY <1>2, <2>1, <2>2, <2>4, <2>5 DEF Eoi
  <2> QED
    BY <2>1, <2>6
<1>3. CASE ~(l > 7)
  <2>1. Chained(l) = {l}
    BY <1>3 DEF Chained
  <2>2. Master(pic.isr) = Master(u) \cup {l}
    BY <1>1, <1>3, <2>1 DEF Master
  <2>3. \A s \in Master(u) : s \in Int /\ l < s
    BY <1>1, <1>3, <2>1 DEF Master
  <2>4. Highest(Master(u) \cup {l}) = {l}
    <3>1. l \in Int
      BY <1>1
    <3> QED
      BY <2>3, <3>1, HighestAdded, Zenon
  <2>5. Eoi(l) = (u \cup {l}) \ {l}
    BY <1>3, <2>1, <2>2, <2>4 DEF Eoi
  <2> QED
    BY <2>1, <2>5
<1> QED
  BY <1>2, <1>3

LEMMA AckStep == TypeInv /\ AckInv /\ [Next]_vars => AckInv'
<1> SUFFICES ASSUME TypeInv, AckInv, [Next]_vars PROVE AckInv'
  OBVIOUS
<1> USE InterruptAssumption DEF AckInv, TypeInv, ChipType, ListType
<1>0. ASSUME UNCHANGED <<chip, pic, disp, unowned>>
      PROVE  AckInv'
  BY <1>0 DEF InUse
<1>1. CASE SetupArch
  BY <1>1 DEF SetupArch, CanRun, InUse, hist
<1>2. CASE \E h \in Handlers : Publish(h) \/ AppendNext(h) \/ AppendPrev(h)
                               \/ RemoveNext(h) \/ RemoveSelf(h)
  BY <1>0, <1>2 DEF Publish, AppendNext, AppendPrev, RemoveNext, RemoveSelf, hist
<1>3. ASSUME NEW t \in Threads, CallHandler(t)
      PROVE  AckInv'
  <2>1. disp' # Null /\ disp # Null /\ disp \in Dispatching
    BY <1>3, DispatchingType DEF CallHandler
  <2>2. disp'.line = disp.line /\ UNCHANGED <<chip, pic, unowned>>
    BY <1>3, <2>1 DEF CallHandler, Dispatching, hist
  <2> QED
    BY <2>1, <2>2 DEF InUse
<1>4. CASE Ack
  <2>1. disp # Null /\ disp' = Null /\ UNCHANGED <<chip, unowned>> /\ disp.line \in Lines
    BY <1>4 DEF Ack, Dispatching, hist
  <2>2. ASSUME InUse PROVE pic'.isr = unowned
    <3>1. unowned \in SUBSET (Lines \cup {Cascade})
      BY <2>1, <2>2
    <3>2. Eoi(disp.line) = unowned
      BY <2>1, <2>2, <3>1, EoiClears
    <3> QED
      BY <1>4, <2>2, <3>2 DEF Ack
  <2>3. ASSUME ~InUse PROVE pic'.isr = unowned
    BY <1>4, <2>1, <2>3 DEF Ack
  <2> QED
    BY <2>1, <2>2, <2>3
<1>5. CASE ControllerUnregister
  BY <1>5 DEF ControllerUnregister, InInitcall, CanRun, hist
<1>6. ASSUME NEW t \in Threads, ThreadStep(t)
      PROVE  AckInv'
  <2>0. ASSUME Reinitialise
        PROVE  pic'.isr = unowned'
    BY <2>0 DEF Reinitialise, PicReset
  <2>1. CASE SetFound(t)
    <3>1. disp = Null /\ disp' = Null
      BY <2>1 DEF SetFound, CanRun
    <3>2. pic'.isr = unowned'
      BY <2>0, <2>1, <3>1 DEF SetFound
    <3> QED
      BY <3>1, <3>2
  <2>2. CASE SetNotFound(t)
    <3>1. disp = Null /\ disp' = Null
      BY <2>2 DEF SetNotFound, CanRun
    <3>2. pic'.isr = unowned'
      BY <2>0, <2>2, <3>1 DEF SetNotFound
    <3> QED
      BY <3>1, <3>2
  <2>3. CASE Cli(t) \/ Enable(t) \/ Sti(t) \/ Halt(t)
    BY <1>0, <2>3 DEF Cli, Enable, Sub, Sti, Halt, hist
  <2> QED
    BY <1>6, <2>1, <2>2, <2>3 DEF ThreadStep
<1>7. CASE \E t \in Threads : Exception(t) \/ (\E why \in Why : Disable(t, why))
  BY <1>0, <1>7 DEF Exception, Disable, Add, hist
<1>8. CASE \E h \in Handlers : Register(h) \/ Unregister(h)
  BY <1>0, <1>8 DEF Register, Unregister, hist
<1>9. ASSUME NEW l \in Lines, Mask(l) \/ Unmask(l) \/ Raise(l)
      PROVE  AckInv'
  <2>1. UNCHANGED <<disp, unowned>> /\ pic'.isr = pic.isr
    BY <1>9 DEF Mask, Unmask, Raise, hist
  <2>2. InUse' = InUse
    BY <1>9 DEF Mask, Unmask, Raise, InUse
  <2> QED
    BY <2>1, <2>2
<1>10. ASSUME NEW l \in Lines, TakeInterrupt(l)
       PROVE  AckInv'
  <2>1. disp' # Null /\ disp'.line = l /\ disp = Null /\ UNCHANGED chip
    BY <1>10, DispatchingType DEF TakeInterrupt
  <2>2. pic'.isr = pic.isr \cup Chained(l) /\ pic.isr = unowned /\ InUse' = InUse
    BY <1>10, <2>1 DEF TakeInterrupt, InUse
  <2>3. CASE ~InUse
    BY <1>10, <2>1, <2>2, <2>3 DEF TakeInterrupt
  <2>4. CASE InUse
    <3>1. unowned' = unowned
      BY <1>10, <2>4 DEF TakeInterrupt
    <3>2. \A c \in Chained(l), s \in unowned : (s > 7) = (c > 7) => c < s
      BY <1>10, <2>2 DEF TakeInterrupt, GetsThrough
    <3>3. \A c \in Chained(l) : c \in Int
      BY LinesType DEF Chained, Cascade
    <3>4. \A c \in Chained(l) : c \notin unowned
      BY <3>2, <3>3
    <3> QED
      BY <2>1, <2>2, <2>4, <3>1, <3>2, <3>4
  <2> QED
    BY <2>3, <2>4
<1>11. CASE UNCHANGED vars
  BY <1>0, <1>11 DEF vars, hist
<1> QED
  BY <1>1, <1>2, <1>3, <1>4, <1>5, <1>6, <1>7, <1>8, <1>9, <1>10, <1>11
     DEF Next, BootStep, Dispatch, Why

\* Between dispatches what is in service was taken while no controller was in
\* use, for any wiring of the handlers to the lines of the two 8259s: every
\* other interrupt has been acknowledged (interrupt_controller_ack,
\* ack_intel_8259), and no acknowledgement has ended another line's service.
THEOREM InterruptsAcknowledged == Spec => []AllAcknowledged
<1>1. Init => TypeInv /\ AckInv
  BY InterruptInit DEF Init, AckInv
<1>2. AckInv => AllAcknowledged
  BY DEF AckInv, AllAcknowledged
<1> QED
  BY <1>1, <1>2, TypeStep, AckStep, PTL DEF Spec
-----------------------------------------------------------------------------
(* The lists of handlers.  First what the stores of the list macros do to a *)
(* ring r of handlers with links nx and pv.                                *)

Succ(r, i) == IF i = Len(r) THEN r[1] ELSE r[i + 1]
Pred(r, i) == IF i = 1 THEN r[Len(r)] ELSE r[i - 1]

Distinct(r) == \A i, j \in 1 .. Len(r) : r[i] = r[j] => i = j
Without(r, h) == \A i \in 1 .. Len(r) : r[i] # h
Forward(r, nx) == \A i \in 1 .. Len(r) : nx[r[i]] = Succ(r, i)
Backward(r, pv, but) == \A i \in 1 .. Len(r) : r[i] \notin but => pv[r[i]] = Pred(r, i)

Links == [Handlers -> Handlers \cup {Null}]

\* Elements of a sequence of handlers.
LEMMA ElementTypes ==
    ASSUME NEW r \in Seq(Handlers)
    PROVE  Len(r) \in Nat /\ \A i \in 1 .. Len(r) : r[i] \in Handlers
  BY LenProperties, ElementOfSeq

\* LIST_APPEND on an empty list.
LEMMA RingSingle ==
    ASSUME NEW q, Len(q) = 1, NEW nx, NEW pv, nx[q[1]] = q[1], pv[q[1]] = q[1]
    PROVE  Distinct(q) /\ Forward(q, nx) /\ Backward(q, pv, {})
<1>1. \A i \in 1 .. Len(q) : i = 1
  OBVIOUS
<1> QED
  BY <1>1 DEF Distinct, Forward, Backward, Succ, Pred

\* LIST_APPEND: the store to the last handler's next, then that to the head's prev.
LEMMA RingAppend ==
    ASSUME NEW r \in Seq(Handlers), NEW h \in Handlers, NEW nx \in Links, NEW pv \in Links,
           Len(r) > 0, Distinct(r), Without(r, h), Forward(r, nx), Backward(r, pv, {}),
           nx[h] = r[1], pv[h] = r[Len(r)]
    PROVE  /\ Append(r, h) \in Seq(Handlers) /\ Len(Append(r, h)) = Len(r) + 1
           /\ Append(r, h)[1] = r[1] /\ Append(r, h)[Len(r) + 1] = h
           /\ Distinct(Append(r, h))
           /\ Forward(Append(r, h), [nx EXCEPT ![r[Len(r)]] = h])
           /\ Backward(Append(r, h), pv, {r[1]})
<1>0. Distinct(r)
  OBVIOUS
<1> DEFINE n == Len(r)
<1> DEFINE q == Append(r, h)
<1>1. n \in Nat /\ n > 0 /\ \A i \in 1 .. n : r[i] \in Handlers
  BY ElementTypes
<1>2. q \in Seq(Handlers) /\ Len(q) = n + 1 /\ q[n + 1] = h /\ \A i \in 1 .. n : q[i] = r[i]
  BY AppendProperties
<1>3. /\ \A i, j \in 1 .. n : r[i] = r[j] => i = j
      /\ \A i \in 1 .. n : r[i] # h /\ nx[r[i]] = (IF i = n THEN r[1] ELSE r[i + 1])
      /\ \A i \in 1 .. n : pv[r[i]] = (IF i = 1 THEN r[n] ELSE r[i - 1])
  BY DEF Distinct, Without, Forward, Backward, Succ, Pred
<1>4. nx[h] = r[1] /\ pv[h] = r[n]
  OBVIOUS
<1> HIDE DEF q, n
<1>5. Distinct(q)
  <2> SUFFICES ASSUME NEW i \in 1 .. n + 1, NEW j \in 1 .. n + 1, q[i] = q[j] PROVE i = j
    BY <1>2 DEF Distinct
  <2>1. CASE i \in 1 .. n /\ j \in 1 .. n
    <3>1. q[i] = r[i] /\ q[j] = r[j]
      BY <1>2, <2>1
    <3>2. r[i] = r[j] => i = j
      BY <1>0, <2>1 DEF Distinct, n
    <3> QED
      BY <3>1, <3>2
  <2>2. CASE i = n + 1 /\ j \in 1 .. n
    BY <1>2, <1>3, <2>2
  <2>3. CASE j = n + 1 /\ i \in 1 .. n
    BY <1>2, <1>3, <2>3
  <2> QED
    BY <1>1, <2>1, <2>2, <2>3
<1>6. ASSUME NEW i \in 1 .. n + 1
      PROVE  [nx EXCEPT ![r[n]] = h][q[i]] = IF i = n + 1 THEN q[1] ELSE q[i + 1]
  <2>1. CASE i = n + 1
    BY <1>1, <1>2, <1>3, <1>4, <2>1 DEF Links
  <2>2. CASE i = n
    BY <1>1, <1>2, <1>3, <2>2 DEF Links
  <2>3. CASE i < n
    <3>1. r[i] # r[n] /\ nx[r[i]] = r[i + 1] /\ q[i] = r[i] /\ q[i + 1] = r[i + 1]
      BY <1>1, <1>2, <1>3, <2>3
    <3> QED
      BY <1>1, <2>3, <3>1 DEF Links
  <2> QED
    BY <1>1, <2>1, <2>2, <2>3
<1>7. ASSUME NEW i \in 1 .. n + 1, q[i] # r[1]
      PROVE  pv[q[i]] = IF i = 1 THEN q[n + 1] ELSE q[i - 1]
  <2>1. i # 1
    BY <1>1, <1>2, <1>7
  <2>2. CASE i = n + 1
    BY <1>1, <1>2, <1>4, <2>1, <2>2
  <2>3. CASE i < n + 1
    <3>1. i \in 1 .. n /\ i - 1 \in 1 .. n
      BY <1>1, <2>1, <2>3
    <3>2. q[i] = r[i] /\ q[i - 1] = r[i - 1] /\ pv[r[i]] = r[i - 1]
      BY <1>2, <1>3, <2>1, <3>1
    <3> QED
      BY <2>1, <3>2
  <2> QED
    BY <1>1, <2>2, <2>3
<1>8. Forward(q, [nx EXCEPT ![r[n]] = h])
  BY <1>2, <1>6 DEF Forward, Succ
<1>9. Backward(q, pv, {r[1]})
  BY <1>2, <1>7 DEF Backward, Pred
<1> QED
  BY <1>1, <1>2, <1>5, <1>8, <1>9 DEF q, n

\* LIST_REMOVE of a handler that is not the head: after the store to its
\* successor's prev, the store to its predecessor's next.
LEMMA RingRemove ==
    ASSUME NEW r \in Seq(Handlers), NEW k \in 2 .. Len(r), NEW nx \in Links, NEW pv \in Links,
           Distinct(r), Forward(r, nx), Backward(r, pv, {nx[r[k]]}), pv[nx[r[k]]] = pv[r[k]]
    PROVE  /\ RemoveAt(r, k) \in Seq(Handlers) /\ Len(RemoveAt(r, k)) = Len(r) - 1
           /\ RemoveAt(r, k)[1] = r[1]
           /\ Distinct(RemoveAt(r, k)) /\ Without(RemoveAt(r, k), r[k])
           /\ Forward(RemoveAt(r, k), [nx EXCEPT ![pv[r[k]]] = nx[r[k]]])
           /\ Backward(RemoveAt(r, k), pv, {})
<1>0. Distinct(r)
  OBVIOUS
<1> DEFINE n == Len(r)
<1> DEFINE q == RemoveAt(r, k)
<1>1. n \in Nat /\ k \in 2 .. n /\ \A i \in 1 .. n : r[i] \in Handlers
  BY ElementTypes
<1>2. q \in Seq(Handlers) /\ Len(q) = n - 1
      /\ \A j \in 1 .. n - 1 : q[j] = IF j < k THEN r[j] ELSE r[j + 1]
  BY <1>1, RemoveAtProperties
<1>3. /\ \A i, j \in 1 .. n : r[i] = r[j] => i = j
      /\ \A i \in 1 .. n : nx[r[i]] = (IF i = n THEN r[1] ELSE r[i + 1])
      /\ \A i \in 1 .. n : r[i] # nx[r[k]] => pv[r[i]] = (IF i = 1 THEN r[n] ELSE r[i - 1])
  BY DEF Distinct, Forward, Backward, Succ, Pred
<1>4. pv[nx[r[k]]] = pv[r[k]]
  OBVIOUS
<1> HIDE DEF q, n
<1>5. nx[r[k]] # r[k] /\ pv[r[k]] = r[k - 1]
  BY <1>1, <1>3
<1>6. Distinct(q) /\ Without(q, r[k])
  <2>1. \A j \in 1 .. n - 1 : \E i \in 1 .. n : q[j] = r[i] /\ i = IF j < k THEN j ELSE j + 1
    BY <1>1, <1>2
  <2>2. \A j \in 1 .. n - 1 : q[j] # r[k]
    BY <1>1, <1>3, <2>1
  <2>3. ASSUME NEW i \in 1 .. n - 1, NEW j \in 1 .. n - 1, q[i] = q[j] PROVE i = j
    <3>1. PICK a \in 1 .. n : q[i] = r[a] /\ a = IF i < k THEN i ELSE i + 1
      BY <2>1
    <3>2. PICK b \in 1 .. n : q[j] = r[b] /\ b = IF j < k THEN j ELSE j + 1
      BY <2>1
    <3>3. r[a] = r[b] => a = b
      BY <1>0 DEF Distinct, n
    <3>4. a = b
      BY <2>3, <3>1, <3>2, <3>3
    <3> QED
      BY <1>1, <3>1, <3>2, <3>4
  <2> QED
    BY <1>2, <2>2, <2>3 DEF Distinct, Without
<1>7. ASSUME NEW j \in 1 .. n - 1
      PROVE  [nx EXCEPT ![r[k - 1]] = nx[r[k]]][q[j]] = IF j = n - 1 THEN q[1] ELSE q[j + 1]
  <2>1. CASE j = k - 1
    <3>1. [nx EXCEPT ![r[k - 1]] = nx[r[k]]][q[j]] = nx[r[k]]
      BY <1>1, <1>2, <2>1 DEF Links
    <3>2. nx[r[k]] = IF k = n THEN r[1] ELSE r[k + 1]
      BY <1>1, <1>3
    <3>3. j = n - 1 <=> k = n
      BY <1>1, <2>1
    <3>4. q[1] = r[1]
      <4>1. 1 \in 1 .. n - 1 /\ 1 < k
        BY <1>1
      <4> QED BY <1>2, <4>1
    <3>5. k # n => q[j + 1] = r[k + 1]
      <4>1. k # n => j + 1 \in 1 .. n - 1 /\ ~(j + 1 < k) /\ (j + 1) + 1 = k + 1
        BY <1>1, <2>1
      <4> QED BY <1>2, <4>1
    <3>6. nx[r[k]] = IF j = n - 1 THEN q[1] ELSE q[j + 1]
      BY <3>2, <3>3, <3>4, <3>5
    <3> QED
      BY <3>1, <3>6
  <2>2. CASE j # k - 1
    <3>1. q[j] \in Handlers /\ q[j] # r[k - 1]
      BY <1>1, <1>2, <1>3, <2>2
    <3>2. [nx EXCEPT ![r[k - 1]] = nx[r[k]]][q[j]] = nx[q[j]]
      BY <3>1 DEF Links
    <3>3. CASE j < k
      <4>1. q[j] = r[j] /\ nx[r[j]] = r[j + 1] /\ j + 1 < k /\ q[j + 1] = r[j + 1] /\ j # n - 1
        BY <1>1, <1>2, <1>3, <2>2, <3>3
      <4> QED
        BY <3>2, <4>1
    <3>4. CASE ~(j < k)
      <4>1. q[j] = r[j + 1] /\ nx[r[j + 1]] = (IF j + 1 = n THEN r[1] ELSE r[j + 2])
        BY <1>1, <1>2, <1>3, <3>4
      <4>2. q[1] = r[1] /\ (j # n - 1 => q[j + 1] = r[j + 2])
        BY <1>1, <1>2, <3>4
      <4> QED
        BY <1>1, <3>2, <4>1, <4>2
    <3> QED
      BY <3>3, <3>4
  <2> QED
    BY <2>1, <2>2
<1>8. ASSUME NEW j \in 1 .. n - 1
      PROVE  pv[q[j]] = IF j = 1 THEN q[n - 1] ELSE q[j - 1]
  <2>1. q[n - 1] = (IF k = n THEN r[n - 1] ELSE r[n]) /\ q[1] = r[1]
    <3>1. n - 1 \in 1 .. n - 1 /\ 1 \in 1 .. n - 1 /\ 1 < k /\ (n - 1 < k <=> k = n)
          /\ (n - 1) + 1 = n
      BY <1>1
    <3> QED
      BY <1>2, <3>1
  <2>2. nx[r[k]] = IF k = n THEN r[1] ELSE r[k + 1]
    BY <1>1, <1>3
  <2>3. CASE j = 1
    BY <1>1, <1>3, <1>4, <1>5, <2>1, <2>2, <2>3
  <2>4. CASE j # 1 /\ j < k
    <3>1. q[j] = r[j] /\ q[j - 1] = r[j - 1] /\ r[j] # nx[r[k]]
      BY <1>1, <1>2, <1>3, <2>2, <2>4
    <3> QED
      BY <1>1, <1>3, <2>4, <3>1
  <2>5. CASE j = k
    <3>1. q[j] = r[k + 1] /\ nx[r[k]] = r[k + 1] /\ q[j - 1] = r[k - 1]
      BY <1>1, <1>2, <2>2, <2>5
    <3> QED
      BY <1>1, <1>4, <1>5, <2>5, <3>1
  <2>6. CASE j > k
    <3>1. q[j] = r[j + 1] /\ q[j - 1] = r[j] /\ r[j + 1] # nx[r[k]]
      BY <1>1, <1>2, <1>3, <2>2, <2>6
    <3> QED
      BY <1>1, <1>3, <2>6, <3>1
  <2> QED
    BY <1>1, <2>3, <2>4, <2>5, <2>6
<1>9. Forward(q, [nx EXCEPT ![pv[r[k]]] = nx[r[k]]])
  BY <1>2, <1>5, <1>7 DEF Forward, Succ
<1>10. Backward(q, pv, {})
  BY <1>2, <1>8 DEF Backward, Pred
<1>11. q[1] = r[1]
  BY <1>1, <1>2
<1> QED
  BY <1>2, <1>6, <1>9, <1>10, <1>11 DEF q, n

\* A ring has no more handlers than there are.
LEMMA RingLength ==
    ASSUME NEW r \in Seq(Handlers), Distinct(r)
    PROVE  Len(r) <= Cardinality(Handlers) /\ Cardinality(Handlers) \in Nat
<1>1. Len(r) \in Nat /\ r \in [1 .. Len(r) -> Handlers]
  BY LenProperties
<1>2. r \in Injection(1 .. Len(r), Handlers)
  BY <1>1 DEF Distinct, Injection, IsInjective
<1>3. IsFiniteSet(Handlers)
  BY InterruptAssumption
<1>4. Cardinality(1 .. Len(r)) <= Cardinality(Handlers)
  BY <1>2, <1>3, FS_Injection
<1>5. Cardinality(1 .. Len(r)) = Len(r)
  BY <1>1, FS_Interval
<1> QED
  BY <1>3, <1>4, <1>5, FS_CardinalityType
-----------------------------------------------------------------------------
(* The invariant of the lists, between any two stores.                     *)

ListPCs == {"publish", "append", "append2", "remove", "remove2"}

\* The handler whose link back is out of date in the middle of a list macro.
Stale(l) ==
    IF at[Boot].pc = "append2" /\ LineOf[at[Boot].h] = l THEN {registered[l][1]}
    ELSE IF at[Boot].pc = "remove" /\ LineOf[at[Boot].h] = l THEN {next[at[Boot].h]}
    ELSE {}

\* The handlers of a line form a ring that starts at its head, each of them
\* once; the links forward are right at every moment.
Ring(l) ==
    /\ Distinct(registered[l])
    /\ head[l] = IF Len(registered[l]) = 0 THEN Null ELSE registered[l][1]
    /\ Forward(registered[l], next)
    /\ Backward(registered[l], prev, Stale(l))

Rings == \A l \in Lines \ lost : Ring(l)

\* No link leads from one line to another, on any line.
Home ==
    /\ \A g \in Handlers : /\ next[g] # Null => LineOf[next[g]] = LineOf[g]
                           /\ prev[g] # Null => LineOf[prev[g]] = LineOf[g]
    /\ \A l \in Lines : /\ head[l] # Null => LineOf[head[l]] = l
                        /\ \A i \in 1 .. Len(registered[l]) : LineOf[registered[l][i]] = l

\* What holds between two stores of a list macro.
Editing(h, r) ==
    /\ at[Boot].pc = "publish" => Len(r) = 0 /\ next[h] = h /\ prev[h] = h
    /\ at[Boot].pc = "append"  => /\ Len(r) > 0 /\ next[h] = r[1] /\ prev[h] = r[Len(r)]
                                  /\ Without(r, h)
    /\ at[Boot].pc = "append2" => Len(r) > 1 /\ r[Len(r)] = h
    /\ at[Boot].pc = "remove"  => Len(r) > 1 /\ prev[next[h]] = prev[h]
    /\ at[Boot].pc = "remove2" => Without(r, h)

InMacro == at[Boot].pc \in ListPCs =>
    /\ at[Boot].h \in Handlers
    /\ at[Boot].pc \in {"append", "append2"} => head[LineOf[at[Boot].h]] # Null
    /\ LineOf[at[Boot].h] \notin lost => Editing(at[Boot].h, registered[LineOf[at[Boot].h]])

\* A dispatch has called the first handlers of its line and goes on with the
\* next one.
Dispatched ==
    disp # Null /\ disp.line \notin lost =>
        LET r == registered[disp.line]
            k == Len(disp.called)
        IN  /\ k <= Len(r)
            /\ \A i \in 1 .. k : disp.called[i] = r[i]
            /\ disp.h = IF k = Len(r) THEN Null ELSE r[k + 1]

ListInv == Rings /\ Home /\ InMacro /\ Dispatched

LEMMA RingNext ==
    ASSUME NEW l
    PROVE  Ring(l)' <=>
             /\ Distinct(registered'[l])
             /\ head'[l] = IF Len(registered'[l]) = 0 THEN Null ELSE registered'[l][1]
             /\ Forward(registered'[l], next')
             /\ Backward(registered'[l], prev', Stale(l)')
  BY DEF Ring, Distinct, Forward, Backward, Succ, Pred

\* A store to the links of one line leaves the other rings as they are.
LEMMA RingFrame ==
    ASSUME TypeInv, Home, NEW l \in Lines, Ring(l), Stale(l) \subseteq Stale(l)',
           head'[l] = head[l], registered'[l] = registered[l],
           \A g \in Handlers : LineOf[g] = l => next'[g] = next[g] /\ prev'[g] = prev[g]
    PROVE  Ring(l)'
<1> DEFINE r == registered[l]
<1>1. r \in Seq(Handlers)
  BY DEF TypeInv, ListType
<1>2. \A i \in 1 .. Len(r) : next'[r[i]] = next[r[i]] /\ prev'[r[i]] = prev[r[i]]
  BY <1>1, ElementTypes DEF Home
<1>3. Forward(r, next') /\ Backward(r, prev', Stale(l)')
  BY <1>2 DEF Ring, Forward, Backward
<1> QED
  BY <1>3, RingNext DEF Ring

\* What a macro on one line leaves alone.
LEMMA OtherRings ==
    ASSUME TypeInv, Home, Rings, NEW k \in Lines, lost \subseteq lost',
           \A l \in Lines \ {k} : /\ head'[l] = head[l] /\ registered'[l] = registered[l]
                                  /\ Stale(l) = {},
           \A g \in Handlers : LineOf[g] # k => next'[g] = next[g] /\ prev'[g] = prev[g]
    PROVE  \A l \in Lines \ lost' : l # k => Ring(l)'
<1> SUFFICES ASSUME NEW l \in Lines \ lost', l # k PROVE Ring(l)'
  OBVIOUS
<1>1. Ring(l) /\ Stale(l) \subseteq Stale(l)'
  BY DEF Rings
<1> QED
  BY <1>1, RingFrame

\* LIST_APPEND, the stores to the new handler.
LEMMA RegisterStep ==
    ASSUME TypeInv, Rings, Home, NEW h \in Handlers, Register(h)
    PROVE  Rings' /\ Home' /\ InMacro'
<1> DEFINE l == LineOf[h]
<1> DEFINE r == registered[l]
<1> USE InterruptAssumption, LinesType DEF TypeInv, ThreadType, ListType
<1>1. /\ l \in Lines /\ r \in Seq(Handlers) /\ Len(r) \in Nat
      /\ \A i \in 1 .. Len(r) : r[i] \in Handlers /\ LineOf[r[i]] = l
  BY ElementTypes DEF Home
<1>2. /\ at[Boot].pc = "run" /\ Without(r, h)
      /\ UNCHANGED <<head, registered, lost>>
      /\ next' = [next EXCEPT ![h] = IF head[l] = Null THEN h ELSE head[l]]
      /\ prev' = [prev EXCEPT ![h] = IF head[l] = Null THEN h ELSE prev[head[l]]]
  BY <1>1 DEF Register, InInitcall, CanRun, Contains, Without, hist
<1>3. /\ at'[Boot].pc = IF head[l] = Null THEN "publish" ELSE "append"
      /\ at'[Boot].h = h
  BY DEF Register, Goes, At
<1>4. \A k \in Lines : Stale(k) = {}
  BY <1>2 DEF Stale
<1> HIDE DEF l, r
<1>5. \A k \in Lines \ lost' : k # l => Ring(k)'
  <2>1. \A g \in Handlers : LineOf[g] # l => next'[g] = next[g] /\ prev'[g] = prev[g]
    BY <1>2 DEF l
  <2> QED
    BY <1>1, <1>2, <1>4, <2>1, OtherRings
<1>6. ASSUME l \notin lost PROVE Ring(l)'
  <2>1. Ring(l)
    BY <1>1, <1>6 DEF Rings
  <2>2. \A i \in 1 .. Len(r) : next'[r[i]] = next[r[i]] /\ prev'[r[i]] = prev[r[i]]
    BY <1>1, <1>2 DEF Without
  <2>3. Forward(r, next') /\ Backward(r, prev', Stale(l)')
    BY <1>1, <1>4, <2>1, <2>2 DEF Ring, Forward, Backward, r
  <2> QED
    BY <1>2, <2>1, <2>3, RingNext DEF Ring, r
<1>7. Home'
  <2>1. ASSUME NEW g \in Handlers
        PROVE  /\ next'[g] # Null => LineOf[next'[g]] = LineOf[g]
               /\ prev'[g] # Null => LineOf[prev'[g]] = LineOf[g]
    <3>1. CASE g # h
      BY <1>2, <3>1 DEF Home
    <3>2. CASE g = h
      <4>1. head[l] # Null => head[l] \in Handlers /\ LineOf[head[l]] = l
        BY <1>1 DEF Home
      <4>2. head[l] # Null => (prev[head[l]] # Null => LineOf[prev[head[l]]] = l)
        BY <4>1 DEF Home
      <4> QED
        BY <1>2, <3>2, <4>1, <4>2 DEF l
    <3> QED
      BY <3>1, <3>2
  <2> QED
    BY <1>2, <2>1 DEF Home
<1>8. InMacro'
  <2>1. ASSUME l \notin lost, head[l] = Null
        PROVE  Len(r) = 0 /\ next'[h] = h /\ prev'[h] = h
    BY <1>1, <1>2, <2>1 DEF Rings, Ring, r
  <2>2. ASSUME l \notin lost, head[l] # Null
        PROVE  Len(r) > 0 /\ next'[h] = r[1] /\ prev'[h] = r[Len(r)]
    <3>1. Ring(l) /\ Len(r) > 0 /\ head[l] = r[1] /\ r[1] \in Handlers
      BY <1>1, <2>2 DEF Rings, Ring, r
    <3>2. prev[r[1]] = r[Len(r)]
      BY <1>1, <1>4, <3>1 DEF Ring, Backward, Pred, r
    <3> QED
      BY <1>1, <1>2, <2>2, <3>1, <3>2
  <2> QED
    BY <1>2, <1>3, <2>1, <2>2 DEF InMacro, Editing, Without, l, r
<1> QED
  BY <1>2, <1>5, <1>6, <1>7, <1>8 DEF Rings

\* LIST_APPEND on an empty list: head = element.
LEMMA PublishStep ==
    ASSUME TypeInv, Rings, Home, InMacro, NEW h \in Handlers, Publish(h)
    PROVE  Rings' /\ Home' /\ InMacro'
<1> DEFINE l == LineOf[h]
<1> DEFINE r == registered[l]
<1> USE InterruptAssumption, LinesType DEF TypeInv, ThreadType, ListType
<1>1. /\ l \in Lines /\ r \in Seq(Handlers) /\ Len(r) \in Nat
      /\ \A i \in 1 .. Len(r) : r[i] \in Handlers /\ LineOf[r[i]] = l
  BY ElementTypes DEF Home
<1>2. /\ at[Boot].pc = "publish" /\ at[Boot].h = h
      /\ head' = [head EXCEPT ![l] = h]
      /\ registered' = [registered EXCEPT ![l] = Append(r, h)]
      /\ UNCHANGED <<next, prev, lost>>
      /\ at'[Boot].pc = "run"
  BY DEF Publish, CanRun, Goes, At, Run
<1>3. \A k \in Lines : Stale(k) = {} /\ Stale(k)' = {}
  BY <1>2 DEF Stale
<1>4. /\ Append(r, h) \in Seq(Handlers) /\ Len(Append(r, h)) = Len(r) + 1
      /\ Append(r, h)[Len(r) + 1] = h
      /\ \A i \in 1 .. Len(r) : Append(r, h)[i] = r[i]
  BY <1>1, AppendProperties
<1> HIDE DEF l, r
<1>5. \A k \in Lines \ lost' : k # l => Ring(k)'
  BY <1>1, <1>2, <1>3, OtherRings
<1>6. ASSUME l \notin lost PROVE Ring(l)'
  <2>1. Len(r) = 0 /\ next[h] = h /\ prev[h] = h
    BY <1>2, <1>6 DEF InMacro, Editing, ListPCs, l, r
  <2>2. registered'[l] = Append(r, h) /\ Len(Append(r, h)) = 1 /\ Append(r, h)[1] = h
    BY <1>1, <1>2, <1>4, <2>1
  <2>3. head'[l] = h
    BY <1>1, <1>2
  <2>4. /\ Distinct(registered'[l]) /\ Forward(registered'[l], next')
        /\ Backward(registered'[l], prev', Stale(l)')
    <3>1. /\ Distinct(Append(r, h)) /\ Forward(Append(r, h), next)
          /\ Backward(Append(r, h), prev, {})
      BY <2>1, <2>2, RingSingle
    <3> QED
      BY <1>1, <1>2, <1>3, <2>2, <3>1
  <2>5. head'[l] = IF Len(registered'[l]) = 0 THEN Null ELSE registered'[l][1]
    BY <2>2, <2>3
  <2> QED
    BY <2>4, <2>5, RingNext
<1>7. Home'
  <2>1. ASSUME NEW k \in Lines
        PROVE  /\ head'[k] # Null => LineOf[head'[k]] = k
               /\ \A i \in 1 .. Len(registered'[k]) : LineOf[registered'[k][i]] = k
    <3>1. CASE k # l
      BY <1>2, <3>1 DEF Home
    <3>2. CASE k = l
      <4>1. head'[k] = h /\ registered'[k] = Append(r, h)
        BY <1>1, <1>2, <3>2
      <4>2. ASSUME NEW i \in 1 .. Len(r) + 1 PROVE LineOf[Append(r, h)[i]] = l
        <5>1. CASE i = Len(r) + 1
          BY <1>4, <5>1 DEF l
        <5>2. CASE i \in 1 .. Len(r)
          BY <1>1, <1>4, <5>2
        <5> QED
          BY <1>1, <5>1, <5>2
      <4> QED
        BY <1>4, <3>2, <4>1, <4>2 DEF l
    <3> QED
      BY <3>1, <3>2
  <2> QED
    BY <1>2, <2>1 DEF Home
<1>8. InMacro'
  BY <1>2 DEF InMacro, ListPCs
<1> QED
  BY <1>2, <1>5, <1>6, <1>7, <1>8 DEF Rings

\* LIST_APPEND: head->prev->next = element.
LEMMA AppendNextStep ==
    ASSUME TypeInv, Rings, Home, InMacro, NEW h \in Handlers, AppendNext(h)
    PROVE  Rings' /\ Home' /\ InMacro'
<1> DEFINE l == LineOf[h]
<1> DEFINE r == registered[l]
<1> DEFINE last == prev[head[l]]
<1> USE InterruptAssumption, LinesType DEF TypeInv, ThreadType, ListType
<1>1. /\ l \in Lines /\ r \in Seq(Handlers) /\ Len(r) \in Nat
      /\ \A i \in 1 .. Len(r) : r[i] \in Handlers /\ LineOf[r[i]] = l
  BY ElementTypes DEF Home
<1>2. /\ at[Boot].pc = "append" /\ at[Boot].h = h
      /\ next' = [next EXCEPT ![last] = h]
      /\ registered' = [registered EXCEPT ![l] = Append(r, h)]
      /\ UNCHANGED <<head, prev, lost>>
      /\ at'[Boot].pc = "append2" /\ at'[Boot].h = h
  BY DEF AppendNext, LinkLast, CanRun, Goes, At
<1>3. \A k \in Lines : Stale(k) = {}
  BY <1>2 DEF Stale
<1>4. /\ Append(r, h) \in Seq(Handlers) /\ Len(Append(r, h)) = Len(r) + 1
      /\ Append(r, h)[Len(r) + 1] = h
      /\ \A i \in 1 .. Len(r) : Append(r, h)[i] = r[i]
  BY <1>1, AppendProperties
<1>5. head[l] \in Handlers /\ (last # Null => LineOf[last] = l) /\ last \in Handlers \cup {Null}
  <2>1. head[l] # Null /\ head[l] \in Handlers
    BY <1>1, <1>2 DEF InMacro, ListPCs
  <2> QED
    BY <1>1, <2>1 DEF Home
<1>6. \A g \in Handlers : /\ g # last => next'[g] = next[g]
                          /\ g = last => next'[g] = h
  BY <1>2
<1> HIDE DEF l, r, last
<1>7. \A k \in Lines \ lost' : k # l => Ring(k)'
  <2>1. \A g \in Handlers : LineOf[g] # l => next'[g] = next[g] /\ prev'[g] = prev[g]
    BY <1>2, <1>5, <1>6
  <2> QED
    BY <1>1, <1>2, <1>3, <2>1, OtherRings
<1>8. ASSUME l \notin lost
      PROVE  Ring(l)' /\ Len(r) > 0
  <2>1. Len(r) > 0 /\ next[h] = r[1] /\ prev[h] = r[Len(r)] /\ Without(r, h)
    BY <1>2, <1>8 DEF InMacro, Editing, ListPCs, l, r
  <2>2. /\ Distinct(r) /\ Forward(r, next) /\ Backward(r, prev, {}) /\ head[l] = r[1]
    <3>1. Ring(l) /\ Stale(l) = {}
      BY <1>1, <1>3, <1>8 DEF Rings
    <3> QED
      BY <2>1, <3>1 DEF Ring, r
  <2>3. last = r[Len(r)]
    BY <1>1, <2>1, <2>2 DEF Backward, Pred, last
  <2>4. next \in Links /\ prev \in Links
    BY DEF Links
  <2>5. /\ Len(Append(r, h)) = Len(r) + 1 /\ Append(r, h)[1] = r[1]
        /\ Distinct(Append(r, h))
        /\ Forward(Append(r, h), [next EXCEPT ![r[Len(r)]] = h])
        /\ Backward(Append(r, h), prev, {r[1]})
    BY <1>1, <2>1, <2>2, <2>4, RingAppend
  <2>6. registered'[l] = Append(r, h)
    BY <1>1, <1>2
  <2>7. Stale(l)' = {r[1]}
    BY <1>2, <2>5, <2>6 DEF Stale, l
  <2>8. Len(Append(r, h)) # 0
    BY <1>1, <2>5
  <2> QED
    BY <1>2, <2>1, <2>2, <2>3, <2>5, <2>6, <2>7, <2>8, RingNext
<1>9. Home'
  <2>1. ASSUME NEW g \in Handlers
        PROVE  /\ next'[g] # Null => LineOf[next'[g]] = LineOf[g]
               /\ prev'[g] # Null => LineOf[prev'[g]] = LineOf[g]
    BY <1>2, <1>5, <1>6 DEF Home, l
  <2>2. ASSUME NEW k \in Lines
        PROVE  /\ head'[k] # Null => LineOf[head'[k]] = k
               /\ \A i \in 1 .. Len(registered'[k]) : LineOf[registered'[k][i]] = k
    <3>1. CASE k # l
      BY <1>2, <3>1 DEF Home
    <3>2. CASE k = l
      <4>1. registered'[k] = Append(r, h)
        BY <1>1, <1>2, <3>2
      <4>2. ASSUME NEW i \in 1 .. Len(r) + 1 PROVE LineOf[Append(r, h)[i]] = l
        <5>1. CASE i = Len(r) + 1
          BY <1>4, <5>1 DEF l
        <5>2. CASE i \in 1 .. Len(r)
          BY <1>1, <1>4, <5>2
        <5> QED
          BY <1>1, <5>1, <5>2
      <4>3. head'[k] # Null => LineOf[head'[k]] = k
        BY <1>2 DEF Home
      <4> QED
        BY <1>4, <3>2, <4>1, <4>2, <4>3
    <3> QED
      BY <3>1, <3>2
  <2> QED
    BY <2>1, <2>2 DEF Home
<1>10. InMacro'
  <2>1. head'[l] # Null /\ registered'[l] = Append(r, h)
    BY <1>1, <1>2, <1>5
  <2>2. ASSUME l \notin lost PROVE Len(Append(r, h)) > 1 /\ Append(r, h)[Len(Append(r, h))] = h
    BY <1>1, <1>4, <1>8, <2>2
  <2>3. at'[Boot].pc = "append2" /\ at'[Boot].h = h /\ lost' = lost
    BY <1>2
  <2> QED
    BY <2>1, <2>2, <2>3 DEF InMacro, Editing, l
<1> QED
  BY <1>2, <1>7, <1>8, <1>9, <1>10 DEF Rings

\* LIST_APPEND: head->prev = element.
LEMMA AppendPrevStep ==
    ASSUME TypeInv, Rings, Home, InMacro, NEW h \in Handlers, AppendPrev(h)
    PROVE  Rings' /\ Home' /\ InMacro'
<1> DEFINE l == LineOf[h]
<1> DEFINE r == registered[l]
<1> USE InterruptAssumption, LinesType DEF TypeInv, ThreadType, ListType
<1>1. /\ l \in Lines /\ r \in Seq(Handlers) /\ Len(r) \in Nat
      /\ \A i \in 1 .. Len(r) : r[i] \in Handlers /\ LineOf[r[i]] = l
  BY ElementTypes DEF Home
<1>2. /\ at[Boot].pc = "append2" /\ at[Boot].h = h
      /\ prev' = [prev EXCEPT ![head[l]] = h]
      /\ UNCHANGED <<head, next, registered, lost>>
      /\ at'[Boot].pc = "run"
  BY DEF AppendPrev, CanRun, Goes, At, Run, hist
<1>3. \A k \in Lines : Stale(k)' = {} /\ (k # l => Stale(k) = {})
  BY <1>2 DEF Stale
<1>4. head[l] \in Handlers /\ LineOf[head[l]] = l
  <2>1. head[l] # Null
    BY <1>2 DEF InMacro, ListPCs
  <2> QED
    BY ZenonT(60), <1>1, <2>1 DEF Home
<1> HIDE DEF l, r
<1>5. \A g \in Handlers : prev'[g] = IF g = head[l] THEN h ELSE prev[g]
  BY <1>2
<1>6. \A k \in Lines \ lost' : k # l => Ring(k)'
  <2>1. \A g \in Handlers : LineOf[g] # l => next'[g] = next[g] /\ prev'[g] = prev[g]
    BY <1>2, <1>4, <1>5
  <2> QED
    BY ZenonT(60), <1>1, <1>2, <1>3, <2>1, OtherRings
<1>7. ASSUME l \notin lost
      PROVE  Ring(l)'
  <2>1. Len(r) > 1 /\ r[Len(r)] = h
    BY <1>2, <1>7 DEF InMacro, Editing, ListPCs, l, r
  <2>2. Ring(l) /\ head[l] = r[1] /\ Stale(l) = {r[1]}
    <3>1. Ring(l)
      BY <1>1, <1>7 DEF Rings
    <3>2. Stale(l) = {r[1]}
      BY <1>2 DEF Stale, l, r
    <3> QED
      BY <2>1, <3>1, <3>2 DEF Ring, r
  <2>3. ASSUME NEW i \in 1 .. Len(r)
        PROVE  prev'[r[i]] = Pred(r, i)
    <3>1. CASE i = 1
      BY <1>1, <1>5, <2>1, <2>2, <3>1 DEF Pred
    <3>2. CASE i # 1
      <4>1. r[i] # r[1]
        BY <1>1, <2>1, <2>2, <3>2 DEF Ring, Distinct, r
      <4> QED
        BY <1>1, <1>5, <2>2, <4>1 DEF Ring, Backward, r
    <3> QED
      BY <3>1, <3>2
  <2>4. Backward(r, prev', {})
    BY <2>3 DEF Backward
  <2> QED
    BY <1>1, <1>2, <1>3, <2>2, <2>4, RingNext DEF Ring, r
<1>8. Home'
  BY <1>2, <1>4, <1>5 DEF Home, l
<1>9. InMacro'
  BY <1>2 DEF InMacro, ListPCs
<1> QED
  BY <1>2, <1>6, <1>7, <1>8, <1>9 DEF Rings

\* LIST_REMOVE: the only handler of its line goes, or the first store.
LEMMA UnregisterStep ==
    ASSUME TypeInv, Rings, Home, InMacro, NEW h \in Handlers, Unregister(h)
    PROVE  Rings' /\ Home' /\ InMacro'
<1> DEFINE l == LineOf[h]
<1> DEFINE r == registered[l]
<1> USE InterruptAssumption, LinesType DEF TypeInv, ThreadType, ListType
<1>1. /\ l \in Lines /\ r \in Seq(Handlers) /\ Len(r) \in Nat
      /\ \A i \in 1 .. Len(r) : r[i] \in Handlers /\ LineOf[r[i]] = l
  BY ElementTypes DEF Home
<1>2. /\ at[Boot].pc = "run" /\ UNCHANGED <<next, lost>>
      /\ \E k \in 1 .. Len(r) : r[k] = h
  BY DEF Unregister, InInitcall, CanRun, Contains
<1>3. \A k \in Lines : Stale(k) = {}
  BY <1>2 DEF Stale
<1>4. /\ next[h] # Null => next[h] \in Handlers /\ LineOf[next[h]] = l
      /\ prev[h] # Null => prev[h] \in Handlers /\ LineOf[prev[h]] = l
  BY DEF Home
<1>5. CASE head[l] = h /\ next[h] = h
  <2>1. /\ head' = [head EXCEPT ![l] = Null] /\ registered' = [registered EXCEPT ![l] = << >>]
        /\ UNCHANGED <<prev, at>>
    BY <1>5 DEF Unregister
  <2> HIDE DEF l, r
  <2>2. head'[l] = Null /\ registered'[l] = << >>
        /\ \A k \in Lines \ {l} : head'[k] = head[k] /\ registered'[k] = registered[k]
    BY <1>1, <2>1
  <2>3. \A k \in Lines \ lost' : k # l => Ring(k)'
    BY <1>1, <1>2, <1>3, <2>1, <2>2, OtherRings
  <2>4. Ring(l)'
    <3>1. Len(<< >>) = 0
      OBVIOUS
    <3>2. Distinct(<< >>) /\ Forward(<< >>, next') /\ Backward(<< >>, prev', Stale(l)')
      BY DEF Distinct, Forward, Backward
    <3> QED
      BY <2>2, <3>1, <3>2, RingNext
  <2>5. Home'
    <3>1. ASSUME NEW k \in Lines
          PROVE  /\ head'[k] # Null => LineOf[head'[k]] = k
                 /\ \A i \in 1 .. Len(registered'[k]) : LineOf[registered'[k][i]] = k
      <4>1. CASE k = l
        BY <2>2, <4>1
      <4>2. CASE k # l
        BY <2>2, <4>2 DEF Home
      <4> QED
        BY <4>1, <4>2
    <3> QED
      BY <1>2, <2>1, <3>1 DEF Home
  <2>6. InMacro'
    BY <1>2, <2>1 DEF InMacro, ListPCs
  <2> QED
    BY <2>3, <2>4, <2>5, <2>6 DEF Rings
<1>6. CASE ~(head[l] = h /\ next[h] = h)
  <2>1. /\ prev' = [prev EXCEPT ![next[h]] = prev[h]] /\ UNCHANGED <<head, registered>>
        /\ at'[Boot].pc = "remove" /\ at'[Boot].h = h
    BY <1>6 DEF Unregister, Goes, At
  <2> HIDE DEF l, r
  <2>2. \A g \in Handlers : prev'[g] = IF g = next[h] THEN prev[h] ELSE prev[g]
    BY <2>1
  <2>3. \A k \in Lines \ lost' : k # l => Ring(k)'
    <3>1. \A g \in Handlers : LineOf[g] # l => next'[g] = next[g] /\ prev'[g] = prev[g]
      BY <1>2, <1>4, <2>2
    <3>2. \A k \in Lines \ {l} : /\ head'[k] = head[k] /\ registered'[k] = registered[k]
                                 /\ Stale(k) = {}
      BY <1>3, <2>1
    <3>3. lost \subseteq lost'
      BY <1>2
    <3> HIDE DEF TypeInv
    <3> QED
      BY <1>1, <3>1, <3>2, <3>3, OtherRings
  <2>4. ASSUME l \notin lost
        PROVE  Ring(l)' /\ Len(r) > 1 /\ prev'[next'[h]] = prev'[h]
    <3>1. Ring(l) /\ Stale(l) = {}
      BY <1>1, <1>3, <2>4 DEF Rings
    <3>2. PICK k \in 1 .. Len(r) : r[k] = h
      BY <1>2
    <3>3. Distinct(r) /\ Forward(r, next) /\ Backward(r, prev, {}) /\ head[l] = r[1]
      BY <1>1, <3>1, <3>2 DEF Ring, r
    <3>4. next[h] = Succ(r, k)
      BY <3>2, <3>3 DEF Forward
    <3>5. Len(r) > 1
      <4>0. Len(r) = 1 \/ Len(r) > 1
        <5>1. \A n \in Nat : \A i \in 1 .. n : n = 1 \/ n > 1
          OBVIOUS
        <5> QED
          BY <1>1, <3>2, <5>1
      <4>1. SUFFICES ASSUME Len(r) = 1 PROVE FALSE
        BY <4>0
      <4>2. k = 1 /\ next[h] = r[1] /\ head[l] = h
        BY <3>2, <3>3, <3>4, <4>1 DEF Succ
      <4> QED
        BY <1>6, <3>2, <4>2
    <3>6. next[h] \in Handlers /\ next[h] # h
      <4>1. CASE k = Len(r)
        BY <1>1, <3>2, <3>3, <3>4, <3>5, <4>1 DEF Succ, Distinct
      <4>2. CASE k # Len(r)
        <5>1. k + 1 \in 1 .. Len(r) /\ k # k + 1 /\ next[h] = r[k + 1]
          BY <1>1, <3>2, <3>4, <4>2 DEF Succ
        <5> QED
          BY <1>1, <3>2, <3>3, <5>1 DEF Distinct
      <4> QED
        BY <4>1, <4>2
    <3>7. prev'[next'[h]] = prev'[h]
      BY <1>2, <2>2, <3>6
    <3>8. Stale(l)' = {next[h]}
      BY <1>2, <2>1 DEF Stale, l
    <3>9. Backward(r, prev', {next[h]})
      BY <1>1, <2>2, <3>3 DEF Backward
    <3> QED
      BY <1>2, <2>1, <3>1, <3>3, <3>5, <3>7, <3>8, <3>9, RingNext DEF Ring, r
  <2>5. Home'
    BY <1>2, <1>4, <2>1, <2>2 DEF Home, l
  <2>6. InMacro'
    BY <1>2, <2>1, <2>4 DEF InMacro, Editing, l, r
  <2> QED
    BY <1>2, <2>3, <2>4, <2>5, <2>6 DEF Rings
<1> QED
  BY <1>5, <1>6

\* LIST_REMOVE: element->prev->next = element->next.
LEMMA RemoveNextStep ==
    ASSUME TypeInv, Rings, Home, InMacro, NEW h \in Handlers, RemoveNext(h)
    PROVE  Rings' /\ Home' /\ InMacro'
<1> DEFINE l == LineOf[h]
<1> DEFINE r == registered[l]
<1> DEFINE p == Position(r, h)
<1> USE InterruptAssumption, LinesType DEF TypeInv, ThreadType, ListType
<1>1. /\ l \in Lines /\ r \in Seq(Handlers) /\ Len(r) \in Nat
      /\ \A i \in 1 .. Len(r) : r[i] \in Handlers /\ LineOf[r[i]] = l
  BY ElementTypes DEF Home
<1>2. /\ at[Boot].pc = "remove" /\ at[Boot].h = h
      /\ next' = [next EXCEPT ![prev[h]] = next[h]]
      /\ registered' = [registered EXCEPT ![l] = RemoveAt(r, p)]
      /\ lost' = (IF head[l] = h THEN lost \cup {l} ELSE lost)
      /\ UNCHANGED <<head, prev>>
      /\ at'[Boot].pc = "remove2" /\ at'[Boot].h = h
  BY DEF RemoveNext, CanRun, Goes, At
<1>3. \A k \in Lines : Stale(k)' = {} /\ (k # l => Stale(k) = {})
  BY <1>2 DEF Stale
<1>4. /\ next[h] # Null => next[h] \in Handlers /\ LineOf[next[h]] = l
      /\ prev[h] # Null => prev[h] \in Handlers /\ LineOf[prev[h]] = l
  BY DEF Home
<1>5. \A g \in Handlers : next'[g] = IF g = prev[h] THEN next[h] ELSE next[g]
  BY <1>2
<1>6. p \in 1 .. Len(r) /\ r[p] = h
  <2>1. \E i \in DOMAIN r : r[i] = h
    BY <1>2 DEF Removing
  <2> QED
    BY <1>1, <2>1, PositionType
<1> HIDE DEF l, r, p
<1>7. /\ RemoveAt(r, p) \in Seq(Handlers) /\ Len(RemoveAt(r, p)) = Len(r) - 1
      /\ \A j \in 1 .. Len(r) - 1 : RemoveAt(r, p)[j] = IF j < p THEN r[j] ELSE r[j + 1]
  BY <1>1, <1>6, RemoveAtProperties
<1>8. registered'[l] = RemoveAt(r, p)
      /\ \A k \in Lines \ {l} : registered'[k] = registered[k]
  BY <1>1, <1>2
<1>9. \A k \in Lines \ lost' : k # l => Ring(k)'
  <2>1. \A g \in Handlers : LineOf[g] # l => next'[g] = next[g] /\ prev'[g] = prev[g]
    BY <1>2, <1>4, <1>5
  <2>2. lost \subseteq lost'
    BY <1>2
  <2> QED
    BY ZenonT(60), <1>1, <1>2, <1>3, <1>8, <2>1, <2>2, OtherRings
<1>10. ASSUME l \notin lost'
       PROVE  Ring(l)' /\ Without(RemoveAt(r, p), h)
  <2>1. l \notin lost /\ head[l] # h
    BY <1>2, <1>10
  <2>2. Ring(l) /\ Stale(l) = {next[h]}
    BY <1>1, <1>2, <2>1 DEF Rings, Stale, l
  <2>3. Len(r) > 1 /\ prev[next[h]] = prev[h]
    BY <1>2, <2>1 DEF InMacro, Editing, ListPCs, l, r
  <2>4. Distinct(r) /\ Forward(r, next) /\ Backward(r, prev, {next[h]}) /\ head[l] = r[1]
    BY <2>2, <2>3 DEF Ring, r
  <2>5. p \in 2 .. Len(r)
    BY <1>1, <1>6, <2>1, <2>4
  <2>6. next \in Links /\ prev \in Links
    BY DEF Links
  <2>7. /\ RemoveAt(r, p)[1] = r[1] /\ Distinct(RemoveAt(r, p)) /\ Without(RemoveAt(r, p), h)
        /\ Forward(RemoveAt(r, p), next') /\ Backward(RemoveAt(r, p), prev, {})
    <3>1. /\ Backward(r, prev, {next[r[p]]}) /\ prev[next[r[p]]] = prev[r[p]]
          /\ next' = [next EXCEPT ![prev[r[p]]] = next[r[p]]]
      BY <1>2, <1>6, <2>3, <2>4
    <3>2. /\ RemoveAt(r, p)[1] = r[1] /\ Distinct(RemoveAt(r, p))
          /\ Without(RemoveAt(r, p), r[p])
          /\ Forward(RemoveAt(r, p), [next EXCEPT ![prev[r[p]]] = next[r[p]]])
          /\ Backward(RemoveAt(r, p), prev, {})
      BY <1>1, <2>4, <2>5, <2>6, <3>1, RingRemove
    <3> QED
      BY <1>6, <3>1, <3>2
  <2>8. Len(RemoveAt(r, p)) # 0
    BY <1>1, <1>7, <2>3
  <2>9. Stale(l)' = {}
    BY <1>1, <1>3
  <2> QED
    BY <1>2, <1>8, <2>4, <2>7, <2>8, <2>9, RingNext
<1>11. Home'
  <2>1. ASSUME NEW g \in Handlers
        PROVE  /\ next'[g] # Null => LineOf[next'[g]] = LineOf[g]
               /\ prev'[g] # Null => LineOf[prev'[g]] = LineOf[g]
    BY <1>2, <1>4, <1>5 DEF Home
  <2>2. ASSUME NEW k \in Lines
        PROVE  /\ head'[k] # Null => LineOf[head'[k]] = k
               /\ \A i \in 1 .. Len(registered'[k]) : LineOf[registered'[k][i]] = k
    <3>1. CASE k # l
      BY <1>2, <3>1 DEF Home
    <3>2. CASE k = l
      <4>1. ASSUME NEW i \in 1 .. Len(r) - 1 PROVE LineOf[RemoveAt(r, p)[i]] = l
        <5>1. i \in 1 .. Len(r) /\ i + 1 \in 1 .. Len(r)
          BY <1>1
        <5> QED
          BY <1>1, <1>7, <5>1
      <4>2. head'[k] # Null => LineOf[head'[k]] = k
        BY <1>2 DEF Home
      <4> QED
        BY <1>7, <1>8, <3>2, <4>1, <4>2
    <3> QED
      BY <3>1, <3>2
  <2> QED
    BY <2>1, <2>2 DEF Home
<1>12. InMacro'
  <2>1. at'[Boot].pc = "remove2" /\ at'[Boot].h = h
    BY <1>2
  <2>2. l \notin lost' => Without(registered'[l], h)
    BY <1>8, <1>10
  <2> QED
    BY <2>1, <2>2 DEF InMacro, Editing, Without, l
<1> QED
  BY <1>9, <1>10, <1>11, <1>12 DEF Rings

\* LIST_REMOVE: the handler is left linked to itself.
LEMMA RemoveSelfStep ==
    ASSUME TypeInv, Rings, Home, InMacro, NEW h \in Handlers, RemoveSelf(h)
    PROVE  Rings' /\ Home' /\ InMacro'
<1> DEFINE l == LineOf[h]
<1> DEFINE r == registered[l]
<1> USE InterruptAssumption, LinesType DEF TypeInv, ThreadType, ListType
<1>1. /\ l \in Lines /\ r \in Seq(Handlers) /\ Len(r) \in Nat
      /\ \A i \in 1 .. Len(r) : r[i] \in Handlers /\ LineOf[r[i]] = l
  BY ElementTypes DEF Home
<1>2. /\ at[Boot].pc = "remove2" /\ at[Boot].h = h
      /\ next' = [next EXCEPT ![h] = h] /\ prev' = [prev EXCEPT ![h] = h]
      /\ UNCHANGED <<head, registered, lost>>
      /\ at'[Boot].pc = "run"
  BY DEF RemoveSelf, CanRun, Goes, At, Run, hist
<1>3. \A k \in Lines : Stale(k) = {} /\ Stale(k)' = {}
  BY <1>2 DEF Stale
<1> HIDE DEF l, r
<1>4. \A k \in Lines \ lost' : k # l => Ring(k)'
  <2>1. \A g \in Handlers : LineOf[g] # l => next'[g] = next[g] /\ prev'[g] = prev[g]
    BY <1>2 DEF l
  <2> QED
    BY <1>1, <1>2, <1>3, <2>1, OtherRings
<1>5. ASSUME l \notin lost
      PROVE  Ring(l)'
  <2>1. Without(r, h)
    BY <1>2, <1>5 DEF InMacro, Editing, ListPCs, l, r
  <2>2. Ring(l) /\ Stale(l) = {} /\ Stale(l)' = {}
    BY <1>1, <1>3, <1>5 DEF Rings
  <2>3. \A i \in 1 .. Len(r) : next'[r[i]] = next[r[i]] /\ prev'[r[i]] = prev[r[i]]
    BY <1>1, <1>2, <2>1 DEF Without
  <2>4. Forward(r, next') /\ Backward(r, prev', {})
    BY <2>2, <2>3 DEF Ring, Forward, Backward, r
  <2> QED
    BY <1>2, <2>2, <2>4, RingNext DEF Ring, r
<1>6. Home'
  BY <1>2 DEF Home
<1>7. InMacro'
  BY <1>2 DEF InMacro, ListPCs
<1> QED
  BY <1>2, <1>4, <1>5, <1>6, <1>7 DEF Rings

\* A step outside the list macros.
LEMMA QuietStep ==
    ASSUME Rings, Home, InMacro, UNCHANGED <<list, registered, lost>>,
           \/ at'[Boot] = at[Boot]
           \/ at[Boot].pc \notin ListPCs /\ at'[Boot].pc \notin ListPCs
    PROVE  Rings' /\ Home' /\ InMacro'
<1>1. UNCHANGED <<head, next, prev, registered, lost>>
  BY DEF list
<1>2. \A l : Stale(l)' = Stale(l)
  BY <1>1 DEF Stale, ListPCs
<1>3. \A l \in Lines \ lost' : Ring(l)'
  BY <1>1, <1>2, RingNext DEF Rings, Ring
<1>4. Home'
  BY <1>1 DEF Home
<1>5. InMacro'
  BY <1>1 DEF InMacro, Editing, Without
<1> QED
  BY <1>3, <1>4, <1>5 DEF Rings

\* The links and the history change in the list macros and nowhere else.
LEMMA LinksStep ==
    ASSUME TypeInv, Rings, Home, InMacro, [Next]_vars
    PROVE  Rings' /\ Home' /\ InMacro'
<1> USE InterruptAssumption
<1>1. CASE SetupArch
  BY <1>1, QuietStep DEF SetupArch, hist, CanRun, Entered, Goes, At, Run, ListPCs, TypeInv, ThreadType
<1>2. CASE \E h \in Handlers : \/ Publish(h) \/ AppendNext(h) \/ AppendPrev(h) \/ RemoveNext(h)
                               \/ RemoveSelf(h) \/ Register(h) \/ Unregister(h)
  BY <1>2, PublishStep, AppendNextStep, AppendPrevStep, RemoveNextStep, RemoveSelfStep,
     RegisterStep, UnregisterStep
<1>3. CASE Dispatch \/ ControllerUnregister
  BY <1>3, QuietStep DEF Dispatch, CallHandler, Ack, ControllerUnregister, thr, hist
<1>4. CASE \E l \in Lines : Mask(l) \/ Unmask(l) \/ Raise(l) \/ TakeInterrupt(l)
  BY <1>4, QuietStep DEF Mask, Unmask, Raise, TakeInterrupt, thr, hist
<1>5. ASSUME NEW t \in Threads, \/ ThreadStep(t) \/ Exception(t)
                                \/ \E why \in Why : Disable(t, why)
      PROVE  Rings' /\ Home' /\ InMacro'
  <2>1. UNCHANGED <<list, registered, lost>>
    BY <1>5 DEF hist, ThreadStep, Cli, Enable, Sub, Sti, SetFound, SetNotFound, Halt, Exception,
                Disable, Add
  <2>2. at[t].pc \notin ListPCs
    BY <1>5 DEF ThreadStep, Cli, Enable, Sti, SetFound, SetNotFound, Halt, Exception,
                Disable, CanRun, ListPCs
  <2>3. /\ \A s \in Threads \ {t} : at'[s] = at[s]
        /\ at'[t].pc \notin ListPCs
    BY <1>5 DEF ThreadStep, Cli, Enable, Sub, Sti, SetFound, SetNotFound, Halt, Exception,
                Disable, Add, Entered, Goes, At, Run, ListPCs, TypeInv, ThreadType
  <2> QED
    BY <2>1, <2>2, <2>3, QuietStep
<1>6. CASE UNCHANGED vars
  BY <1>6, QuietStep DEF vars, thr, hist
<1> QED
  BY <1>1, <1>2, <1>3, <1>4, <1>5, <1>6 DEF Next, BootStep, Why

\* One turn of LIST_FOR_EACH calls the next handler of the line.
LEMMA DispatchedStep ==
    ASSUME TypeInv, Rings, Home, Dispatched, [Next]_vars
    PROVE  Dispatched'
<1> USE InterruptAssumption, LinesType DEF TypeInv, ListType
<1>1. ASSUME NEW l \in Lines, TakeInterrupt(l)
      PROVE  Dispatched'
  <2>1. /\ disp' = [line |-> l, h |-> head[l], called |-> << >>]
        /\ UNCHANGED <<registered, lost>> /\ registered[l] \in Seq(Handlers)
    BY <1>1 DEF TakeInterrupt, hist
  <2>2. l \notin lost => head[l] = IF Len(registered[l]) = 0 THEN Null ELSE registered[l][1]
    BY DEF Rings, Ring
  <2>3. Len(registered[l]) \in Nat
    BY <2>1, ElementTypes
  <2> QED
    BY <2>1, <2>2, <2>3 DEF Dispatched
<1>2. ASSUME NEW t \in Threads, CallHandler(t)
      PROVE  Dispatched'
  <2> DEFINE l == disp.line
  <2> DEFINE r == registered[l]
  <2> DEFINE c == disp.called
  <2>1. disp # Null /\ disp \in Dispatching /\ disp.h # Null
    BY <1>2 DEF CallHandler
  <2>2. /\ l \in Lines /\ r \in Seq(Handlers) /\ c \in Seq(Handlers) /\ disp.h \in Handlers
        /\ Len(r) \in Nat /\ Len(c) \in Nat /\ \A i \in 1 .. Len(r) : r[i] \in Handlers
    BY <2>1, ElementTypes DEF Dispatching
  <2>3. /\ disp' = [disp EXCEPT !.called = IF Len(c) > Cardinality(Handlers) THEN c
                                           ELSE Append(c, disp.h),
                                !.h = IF next[disp.h] = head[l] THEN Null ELSE next[disp.h]]
        /\ UNCHANGED <<registered, lost>>
    BY <1>2 DEF CallHandler, hist
  <2>4. /\ disp'.line = l
        /\ disp'.called = IF Len(c) > Cardinality(Handlers) THEN c ELSE Append(c, disp.h)
        /\ disp'.h = IF next[disp.h] = head[l] THEN Null ELSE next[disp.h]
    BY <2>1, <2>3 DEF Dispatching
  <2>5. l \notin lost => /\ Len(c) <= Len(r) /\ \A i \in 1 .. Len(c) : c[i] = r[i]
                         /\ disp.h = IF Len(c) = Len(r) THEN Null ELSE r[Len(c) + 1]
    BY <2>1 DEF Dispatched
  <2>6. l \notin lost => Ring(l)
    BY <2>2 DEF Rings
  <2> HIDE DEF l, r, c
  <2>7. ASSUME l \notin lost
        PROVE  /\ Len(disp'.called) = Len(c) + 1 /\ Len(c) + 1 <= Len(r)
               /\ \A i \in 1 .. Len(c) + 1 : disp'.called[i] = r[i]
               /\ disp'.h = IF Len(c) + 1 = Len(r) THEN Null ELSE r[Len(c) + 2]
    <3>1. Len(c) < Len(r) /\ disp.h = r[Len(c) + 1]
      BY <2>1, <2>2, <2>5, <2>7
    <3>2. Distinct(r) /\ Forward(r, next) /\ head[l] = r[1]
      BY <2>2, <2>6, <2>7, <3>1 DEF Ring, r
    <3>3. Len(r) <= Cardinality(Handlers) /\ Cardinality(Handlers) \in Nat
      BY <2>2, <3>2, RingLength
    <3>4. disp'.called = Append(c, disp.h)
      BY <2>2, <2>4, <3>1, <3>3
    <3>5. /\ Len(Append(c, disp.h)) = Len(c) + 1 /\ Append(c, disp.h)[Len(c) + 1] = disp.h
          /\ \A i \in 1 .. Len(c) : Append(c, disp.h)[i] = c[i]
      BY <2>2, AppendProperties
    <3>6. ASSUME NEW i \in 1 .. Len(c) + 1 PROVE Append(c, disp.h)[i] = r[i]
      <4>1. CASE i = Len(c) + 1
        BY <3>1, <3>5, <4>1
      <4>2. CASE i \in 1 .. Len(c)
        BY <2>5, <2>7, <3>5, <4>2
      <4> QED
        BY <2>2, <4>1, <4>2
    <3>7. next[disp.h] = IF Len(c) + 1 = Len(r) THEN r[1] ELSE r[Len(c) + 2]
      <4>1. Len(c) + 1 \in 1 .. Len(r) /\ (Len(c) + 1) + 1 = Len(c) + 2
        BY <2>2, <3>1
      <4> QED
        BY <3>1, <3>2, <4>1 DEF Forward, Succ
    <3>8. Len(c) + 1 # Len(r) => r[Len(c) + 2] # r[1]
      <4>1. Len(c) + 1 # Len(r) => Len(c) + 2 \in 1 .. Len(r) /\ 1 \in 1 .. Len(r)
                                   /\ Len(c) + 2 # 1
        BY <2>2, <3>1
      <4> QED
        BY <3>2, <4>1 DEF Distinct
    <3>9. disp'.h = IF Len(c) + 1 = Len(r) THEN Null ELSE r[Len(c) + 2]
      BY <2>4, <3>2, <3>7, <3>8
    <3>10. Len(c) + 1 <= Len(r)
      BY <2>2, <3>1
    <3> QED
      BY <3>4, <3>5, <3>6, <3>9, <3>10
  <2>8. registered'[disp'.line] = r /\ (disp'.line \notin lost' => l \notin lost)
        /\ (Len(c) + 1) + 1 = Len(c) + 2
    BY <2>2, <2>3, <2>4 DEF l, r
  <2> QED
    BY <2>7, <2>8 DEF Dispatched
<1>3. CASE Ack
  BY <1>3 DEF Ack, Dispatched
<1>4. CASE SetupArch
  BY <1>4 DEF SetupArch, hist, Dispatched
<1>5. CASE \E h \in Handlers : \/ Publish(h) \/ AppendNext(h) \/ AppendPrev(h) \/ RemoveNext(h)
                               \/ RemoveSelf(h) \/ Register(h) \/ Unregister(h)
  <2>1. disp = Null /\ disp' = Null
    BY <1>5 DEF Publish, AppendNext, AppendPrev, RemoveNext, RemoveSelf, Register, Unregister,
                InInitcall, CanRun
  <2> QED
    BY <2>1 DEF Dispatched
<1>6. CASE ControllerUnregister
  BY <1>6 DEF ControllerUnregister, hist, Dispatched
<1>7. CASE \E t \in Threads : \/ ThreadStep(t) \/ Exception(t)
                              \/ \E why \in Why : Disable(t, why)
  BY <1>7 DEF ThreadStep, Cli, Enable, Sub, Sti, SetFound, SetNotFound, Halt, Exception,
              Disable, Add, hist, Dispatched
<1>8. CASE \E l \in Lines : Mask(l) \/ Unmask(l) \/ Raise(l)
  BY <1>8 DEF Mask, Unmask, Raise, hist, Dispatched
<1>9. CASE UNCHANGED vars
  BY <1>9 DEF vars, hist, Dispatched
<1> QED
  BY <1>1, <1>2, <1>3, <1>4, <1>5, <1>6, <1>7, <1>8, <1>9 DEF Next, BootStep, Dispatch, Why

\* At the end of a dispatch every handler of the line has been called.
LEMMA AckComplete ==
    ASSUME TypeInv, Rings, Dispatched, Ack, disp.line \notin lost
    PROVE  disp.called = registered[disp.line]
<1> DEFINE r == registered[disp.line]
<1> DEFINE c == disp.called
<1>1. disp # Null /\ disp \in Dispatching /\ disp.h = Null
  BY DEF Ack, TypeInv, ListType
<1>2. r \in Seq(Handlers) /\ c \in Seq(Handlers)
  BY <1>1 DEF Dispatching, TypeInv, ListType
<1>3. Len(c) <= Len(r) /\ (\A i \in 1 .. Len(c) : c[i] = r[i])
      /\ Null = IF Len(c) = Len(r) THEN Null ELSE r[Len(c) + 1]
  BY <1>1 DEF Dispatched
<1> HIDE DEF r, c
<1>4. Len(c) = Len(r)
  <2>1. Len(c) \in Nat /\ Len(r) \in Nat
    BY <1>2, ElementTypes
  <2>2. Len(c) # Len(r) => r[Len(c) + 1] \in Handlers
    BY <1>2, <1>3, <2>1, ElementTypes
  <2> QED
    BY <1>3, <2>2, InterruptAssumption
<1>5. c = r
  BY <1>2, <1>3, <1>4, SeqEqual
<1> QED
  BY <1>5 DEF c, r

\* Every dispatch calls the handlers of its line once each and in order, for
\* any number of handlers on any lines, also when it interrupts LIST_APPEND
\* or LIST_REMOVE between two stores; the lines whose head was removed are
\* the exception the code has.
THEOREM DispatchesComplete == Spec => DispatchComplete
<1> DEFINE Inv == TypeInv /\ Rings /\ Home /\ InMacro /\ Dispatched
<1>1. Init => Inv
  <2> SUFFICES ASSUME Init PROVE Inv
    OBVIOUS
  <2>1. TypeInv
    BY InterruptInit
  <2>2. \A l \in Lines : head[l] = Null /\ registered[l] = << >> /\ Len(<< >>) = 0
    BY DEF Init
  <2>3. Rings
    BY <2>2 DEF Rings, Ring, Distinct, Forward, Backward
  <2>4. Home
    BY <2>2 DEF Init, Home
  <2>5. InMacro
    BY InterruptAssumption DEF Init, InMacro, ListPCs, At
  <2>6. Dispatched
    BY DEF Init, Dispatched
  <2> QED
    BY <2>1, <2>3, <2>4, <2>5, <2>6
<1>2. Inv /\ [Next]_vars => Inv'
  BY TypeStep, LinksStep, DispatchedStep
<1>3. Inv /\ [Next]_vars =>
        [Ack /\ disp.line \notin lost => disp.called = registered[disp.line]]_vars
  BY AckComplete
<1> QED
  BY <1>1, <1>2, <1>3, PTL DEF Spec, DispatchComplete
=============================================================================
