----------------------------- MODULE Allocator ------------------------------
(***************************************************************************)
(* What an allocator of memory promises its clients: it hands out pieces   *)
(* of the pool it was given, never overlapping a piece still held.         *)
(* Heap implements this; Physical does for clients that do not trigger     *)
(* coalescing.                                                             *)
(***************************************************************************)
CONSTANT Unit       \* the units of memory

VARIABLES
    pool,           \* the units handed to the allocator so far
    held            \* the pieces clients hold, each a set of units

avars == <<pool, held>>

AInit == pool = {} /\ held = {}

\* The boot code hands over more memory.
Grow ==
    /\ pool \subseteq pool'
    /\ pool' \subseteq Unit
    /\ held' = held

\* An allocation: a new piece of the pool, which the allocator may have to
\* extend for it, disjoint from all others.
Take(b) ==
    /\ b # {}
    /\ pool \subseteq pool' /\ pool' \subseteq Unit
    /\ b \subseteq pool'
    /\ \A c \in held : b \cap c = {}
    /\ held' = held \cup {b}

Give(b) ==
    /\ held' = held \ {b}
    /\ pool' = pool

ANext ==
    \/ Grow
    \/ \E b \in held' : Take(b)
    \/ \E b \in held : Give(b)

ASpec == AInit /\ [][ANext]_avars

\* Pieces held at the same time do not overlap and lie in the pool.
Sound ==
    /\ \A b \in held : b \subseteq pool
    /\ \A b, c \in held : b # c => b \cap c = {}
=============================================================================
