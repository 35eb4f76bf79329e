----------------------------- MODULE MCConsole ------------------------------
(* An instance of Console for TLC: four-bit ints and eight-bit longs, a    *)
(* screen of two short rows, and calls that use every conversion.          *)
EXTENDS Console

CONSTANTS t1, t2

TwoThreads == {t1, t2}

Conv(c, zero, width, lng, arg) ==
    [conv |-> c, zero |-> zero, width |-> width, lng |-> lng, num |-> arg, str |-> <<>>]

Plain ==
    {Conv(c, FALSE, 0, lng, arg) : c \in {"u", "X", "d"}, lng \in {0, 1}, arg \in {0, 9, 10, 255}}
    \cup {Conv("o", FALSE, 0, 0, 8), Conv("p", FALSE, 0, 0, 171)}

\* What may come out in more than one way.
Padded ==
    {Conv("x", FALSE, 2, 0, 10), Conv("d", TRUE, 3, 0, 8), Conv("d", FALSE, 0, 2, 8),
     Conv("u", TRUE, 4, 0, 7), [Str("s", <<"i">>) EXCEPT !.width = 2]}

Hello == <<Lit("h"), Lit(NewLine)>>

Items(convs) == FoldSet(LAMBDA n, items : Append(items, n), <<>>, convs)

FewCalls == {[level |-> 1, items |-> Hello]}
            \cup {[level |-> Continue, items |-> items] :
                     items \in {Hello, <<Str("c", <<"#">>)>> \o Items(Plain) \o Items(Padded),
                                <<Conv("r", FALSE, 0, 0, 0)>>}}

Symmetry == Permutations(Threads)

OnePanic == {[level |-> Continue, items |-> <<Lit("p"), Conv("d", FALSE, 0, 0, 3)>>]}

OneTime  == {[sec |-> 3, nsec |-> 2]}
OneStray == {<<1, 0>>}
=============================================================================
