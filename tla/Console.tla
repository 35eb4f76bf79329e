------------------------------ MODULE Console -------------------------------
(***************************************************************************)
(* printk (kernel/printk.c), panic (kernel/panic.c), the list of consoles  *)
(* (kernel/console.c) and the two consoles, VGA text and serial port       *)
(* (arch/x86_64/kernel/early_console.c).                                   *)
(*                                                                         *)
(* All threads format into the one printk_buffer, without a lock, and      *)
(* write it out character by character with interrupts on: another thread  *)
(* may overwrite it, or print, between any two characters.  A character on *)
(* a console is one step.                                                  *)
(***************************************************************************)
EXTENDS Printf

CONSTANTS
    Threads,            \* who calls printk
    Nobody,
    Calls, Panics,      \* [level, items] that callers print
    Times,              \* [sec, nsec] that ktime_get returns
    SecWidth, NsecWidth,    \* the widths of the time stamp: 5 and 9
    PrintkMax,          \* PRINTK_MAX
    Width, Height,      \* VGA_WIDTH, VGA_HEIGHT
    MaxPrints           \* bound: calls made

Escape  == "\\e"
NewLine == "\\n"
Nul     == "\\0"
White   == 15
Continue == 4

ASSUME ConsoleAssumption ==
    /\ Nobody \notin Threads
    /\ \A call \in Calls \cup Panics :
         /\ call.level \in 0 .. Continue
         /\ \A k \in DOMAIN call.items : Escape \notin Range(call.items[k].str)
    /\ {PrintkMax, Width, Height, MaxPrints} \subseteq Nat \ {0}

VARIABLES
    buffer,     \* printk_buffer
    job,        \* the printk each thread is in: [pc, call, text, at]; at counts the
                \* characters that went to the VGA console, then to the serial port
    vga,        \* [screen, x, y, color]
    serial,     \* history: what went out on the serial port before anything was torn
    halted,     \* a panic, or a write that ran through memory
    owner,      \* history: who formatted into the buffer last
    torn,       \* history: a message was not written out whole and by itself
    said,       \* history: the characters meant for the screen, with colour, until then
    prints      \* how many calls were made

vars == <<buffer, job, vga, serial, halted, owner, torn, said, prints>>

-----------------------------------------------------------------------------
(* The consoles.                                                           *)

\* The colours of the levels, as in colors[], and what the VGA console makes
\* of the fourth character of an escape sequence.
Colors == <<"6", "2", "3", "1">>
Sequence(digit) == <<Escape, "[", "3", digit, "m">>
Paint(digit) == CASE digit = "1" -> 12 [] digit = "2" -> 10 [] digit = "3" -> 14
                  [] digit = "6" -> 11 [] OTHER -> White

Cell(c, color) == [ch |-> c, color |-> color]
Cleared  == Cell(Nul, 0)
Leftover == Cell("?", 7)    \* what the boot loader left on the screen

Wrap(v) == IF v.x = Width THEN [v EXCEPT !.x = 0, !.y = @ + 1] ELSE v


Scroll(v) ==
    IF v.y # Height THEN v
    ELSE [v EXCEPT !.screen = [r \in 0 .. Height - 1 |->
                                 IF r < Height - 1 THEN v.screen[r + 1] ELSE [c \in 0 .. Width - 1 |-> Cleared]],
                   !.y = Height - 1]

\* x86_64_console_vga_write_string: a character that is no escape ...
VgaChar(v, c) ==
    IF c = NewLine THEN Scroll([v EXCEPT !.x = 0, !.y = @ + 1])
    ELSE Scroll(Wrap([v EXCEPT !.screen[v.y][v.x] = Cell(c, v.color), !.x = @ + 1]))

\* ... and an escape sequence: five characters, whatever they are.
SequenceLength == 5

-----------------------------------------------------------------------------
(* printk and panic.                                                       *)

Str(conv, s) == [conv |-> conv, zero |-> FALSE, width |-> 0, lng |-> 0, num |-> 0, str |-> s]
Lit(c)       == Str("lit", <<c>>)
Stamp(w, n)  == [conv |-> "u", zero |-> TRUE, width |-> w, lng |-> 1, num |-> n, str |-> <<>>]

PrefixItems(level, t) ==
    <<Str("s", Sequence(Colors[level + 1])), Lit("["), Stamp(SecWidth, t.sec), Lit("."),
      Stamp(NsecWidth, t.nsec), Lit("]"), Str("s", Sequence("9")), Lit(" ")>>

\* memset and (v)snprintf.  The terminator goes one byte beyond the buffer
\* when the text fills it.
Filled(text) == [k \in 1 .. PrintkMax |-> IF k <= Len(text) THEN text[k] ELSE Nul]

Idle == [pc |-> "idle"]

Init ==
    /\ buffer = [k \in 1 .. PrintkMax |-> Nul]
    /\ job = [t \in Threads |-> Idle]
    /\ vga = [screen |-> [r \in 0 .. Height - 1 |-> [c \in 0 .. Width - 1 |-> Leftover]],
              x |-> 0, y |-> 0, color |-> White]
    /\ serial = <<>>
    /\ halted = FALSE
    /\ owner = Nobody /\ torn = FALSE /\ said = <<>> /\ prints = 0

Call(t, call) ==
    /\ ~halted /\ job[t].pc = "idle" /\ prints < MaxPrints
    /\ prints' = prints + 1
    /\ job' = [job EXCEPT ![t] =
                 [pc |-> IF call.level < Continue THEN "prefix" ELSE "text", call |-> call]]
    /\ UNCHANGED <<buffer, vga, serial, halted, owner, torn, said>>

FormatInto(t, text, pc) ==
    /\ buffer' = Filled(Clipped(text, PrintkMax))
    /\ owner' = t
    /\ job' = [job EXCEPT ![t] = [pc |-> pc, call |-> job[t].call, at |-> 0,
                                   text |-> Clipped(text, PrintkMax)]]
    /\ UNCHANGED <<vga, serial, halted, said, prints>>

FormatPrefix(t) ==
    /\ ~halted /\ job[t].pc = "prefix"
    /\ \E time \in Times : \E text \in Formatted(PrefixItems(job[t].call.level, time)) :
         /\ FormatInto(t, text, "put prefix")
         /\ torn' = (torn \/ Len(text) > PrintkMax)

FormatText(t) ==
    /\ ~halted /\ job[t].pc = "text"
    /\ \E text \in Formatted(job[t].call.items) : FormatInto(t, text, "put text")
    /\ UNCHANGED torn

\* What the reader should see of a prefix and of a text.
Coloured(text, color) == [k \in DOMAIN text |-> Cell(text[k], color)]
PrefixCells(text, level) ==
    Coloured(SubSeq(text, 6, Len(text) - 6), Paint(Colors[level + 1])) \o <<Cell(" ", White)>>

Writing(t) == job[t].pc \in {"put prefix", "put text"}

\* Where printk goes when all is written, and what it has said then.
Afterwards(t) == IF job[t].pc = "put prefix" THEN [pc |-> "text", call |-> job[t].call] ELSE Idle
Cells(t) == IF job[t].pc = "put prefix" THEN PrefixCells(job[t].text, job[t].call.level)
            ELSE Coloured(job[t].text, White)

\* Both consoles have had the first `at' of the characters.
Reach(t, at) ==
    IF at = 2 * Len(job[t].text)
    THEN job' = [job EXCEPT ![t] = Afterwards(t)] /\ said' = IF torn THEN said ELSE said \o Cells(t)
    ELSE job' = [job EXCEPT ![t].at = at] /\ UNCHANGED said

\* t has written some of its characters, not all.
Halfway(t) == Writing(t) /\ job[t].at \in 1 .. 2 * Len(job[t].text) - 1

Tears(t) == owner # t \/ \E u \in Threads \ {t} : Halfway(u)

\* console_write: the VGA console was registered last and comes first.  The
\* characters are those that the buffer holds by now.
VgaTakes(t, c) ==
    /\ c # Escape
    /\ vga' = VgaChar(vga, c)
    /\ Reach(t, job[t].at + 1)
    /\ torn' = (torn \/ Tears(t))
    /\ UNCHANGED halted

\* When a sequence ends beyond the message, length wraps below zero and the
\* loop goes on through memory; the serial console is never reached.
VgaEscapes(t, c) ==
    LET at       == job[t].at
        runsAway == at + SequenceLength > Len(job[t].text)
    IN  /\ c = Escape
        /\ vga' = IF runsAway THEN vga ELSE [vga EXCEPT !.color = Paint(buffer[at + 4])]
        /\ IF runsAway THEN UNCHANGED <<job, said>> ELSE Reach(t, at + SequenceLength)
        /\ halted' = runsAway
        /\ torn' = (torn \/ Tears(t) \/ runsAway)

WriteVga(t) ==
    /\ ~halted /\ Writing(t) /\ job[t].at < Len(job[t].text)
    /\ VgaTakes(t, buffer[job[t].at + 1]) \/ VgaEscapes(t, buffer[job[t].at + 1])
    /\ UNCHANGED <<buffer, serial, owner, prints>>

WriteSerial(t) ==
    LET n == Len(job[t].text)
    IN  /\ ~halted /\ Writing(t) /\ job[t].at \in n .. 2 * n - 1
        /\ serial' = IF torn THEN serial ELSE Append(serial, buffer[job[t].at - n + 1])
        /\ Reach(t, job[t].at + 1)
        /\ torn' = (torn \/ Tears(t))
        /\ UNCHANGED <<buffer, vga, halted, owner, prints>>

WriteNothing(t) ==
    /\ ~halted /\ Writing(t) /\ job[t].text = <<>>
    /\ Reach(t, 0)
    /\ UNCHANGED <<buffer, vga, serial, halted, owner, torn, prints>>

\* _panic formats on its own stack, with interrupts off, and halts.  The file
\* and line come first; they are part of the items here.
Panic(call) ==
    /\ ~halted
    /\ halted' = TRUE
    /\ torn' = (torn \/ \E t \in Threads : Halfway(t))
    /\ \E text \in Formatted(call.items) :
         /\ vga' = FoldLeft(VgaChar, vga, text)
         /\ serial' = IF torn THEN serial ELSE serial \o text
         /\ said' = IF torn THEN said ELSE said \o Coloured(text, White)
    /\ UNCHANGED <<buffer, job, owner, prints>>

Next ==
    \/ \E t \in Threads : \/ \E call \in Calls : Call(t, call)
                          \/ FormatPrefix(t) \/ FormatText(t)
                          \/ WriteVga(t) \/ WriteSerial(t) \/ WriteNothing(t)
    \/ \E call \in Panics : Panic(call)

Spec == Init /\ [][Next]_vars
-----------------------------------------------------------------------------
(* Properties.                                                             *)

\* Every number in a message is formatted as a numeral of the value that the
\* caller passed, at least as wide as asked, whatever digits follow the width in
\* padding[5]; except %ld and %lld of what an int cannot hold (printf.c:104,
\* printf.c:135).  This is what printf_format emits: of a number that stray
\* digits pad beyond PRINTK_MAX the buffer keeps the padding.
NumbersRight ==
    \A t \in Threads : job[t].pc = "text" =>
        \A k \in DOMAIN job[t].call.items : LET item == job[t].call.items[k] IN
            \A s \in Texts(item) : TextRight(item, s)

\* What was said, on an endless roll of paper: the rows, and the cursor at the
\* end of the last one.
PutOnPaper(rows, cell) ==
    LET n   == Len(rows)
        row == Append(rows[n], cell)
    IN  IF cell.ch = NewLine THEN Append(rows, <<>>)
        ELSE IF Len(row) = Width THEN Append([rows EXCEPT ![n] = row], <<>>)
        ELSE [rows EXCEPT ![n] = row]

Paper(cells) == FoldLeft(PutOnPaper, <<<<>>>>, cells)

\* A text without its escape sequences.
Visible(text) ==
    FoldLeft(LAMBDA v, c : IF v.skip > 0 THEN [v EXCEPT !.skip = @ - 1]
                           ELSE IF c = Escape THEN [v EXCEPT !.skip = 4]
                           ELSE [v EXCEPT !.out = Append(@, c)],
             [out |-> <<>>, skip |-> 0], text).out

=============================================================================
