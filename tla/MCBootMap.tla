----------------------------- MODULE MCBootMap ------------------------------
(* Instances of BootMap for TLC: pages of two units, and every map of two  *)
(* regions over a few pages.                                               *)
EXTENDS BootMap

CONSTANT Top    \* bound: the end of the memory in the maps

\* The image starts and ends in the middle of a page.
Image == [start |-> 5, end |-> 7]

\* Two regions, one after the other, given by the places they start and end.
Cuts == {c \in [1 .. 4 -> 0 .. Top] : c[1] <= c[2] /\ c[2] <= c[3] /\ c[3] <= c[4]}

Between(from, to, avail) == [addr |-> from, len |-> to - from, avail |-> avail]

MapsOver(cuts) ==
    {<<Between(c[1], c[2], a), Between(c[3], c[4], b)>> : c \in cuts, a \in BOOLEAN, b \in BOOLEAN}

AllMaps    == MapsOver(Cuts)

TwoSymtabs == {0, 1}
FewSizes   == {1, 2}
=============================================================================
