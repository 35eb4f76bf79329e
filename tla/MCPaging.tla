------------------------------ MODULE MCPaging ------------------------------
(* An instance of Paging for TLC: tables of four entries.                  *)
EXTENDS Paging

EightFrames == 11 .. 18
\* The last page of one table and the first of the next, in the heap's
\* corner of the address space, and a page under the kernel's PML4 entry.
HeapAndDma == {2, 3, 192}
TwoTargets == {50, 60}
=============================================================================
