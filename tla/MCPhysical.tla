----------------------------- MODULE MCPhysical -----------------------------
(* Instances of Physical for TLC: a page is two units.  As in physical_init *)
(* the blocks of the normal zone may be larger than its base is aligned.   *)
EXTENDS Physical

MaxOrders == [z \in Zones |-> IF z = "dma" THEN 2 ELSE 5]

\* A region that is only page aligned and crosses the DMA boundary: blocks
\* of 4 at 10 and of 32 at 16, which are crooked, of 2 at 14, of 8 at 48
\* and of 2 at 56, which are not.
Crossing   == {[start |-> 10, size |-> 48]}
OneBlock   == {[start |-> 16, size |-> 8]}

AnySize    == {1, 2, 3, 8, 32}
OnePage    == {2}
=============================================================================
