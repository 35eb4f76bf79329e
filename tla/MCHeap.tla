------------------------------- MODULE MCHeap -------------------------------
(* An instance of Heap for TLC.                                            *)
EXTENDS Heap

\* Blocks of 14 and 24 bytes and one that needs a major of its own.
SmallAndLarge == {2, 12, 50}
=============================================================================
