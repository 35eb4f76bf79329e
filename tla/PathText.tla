------------------------------ MODULE PathText ------------------------------
(***************************************************************************)
(* The text of paths: what strtok_r, strdup and strncpy of lib/string.c    *)
(* and dirname and basename of fs/path.c make of it.                       *)
(*                                                                         *)
(* A string is the sequence of the characters before its terminator; an    *)
(* array of char also holds Nul, and Stray where nobody wrote.             *)
(***************************************************************************)
EXTENDS Integers, Sequences, SequencesExt

CONSTANTS Slash, Nul, Stray

ASSUME TextAssumption == Slash # Nul /\ Slash # Stray /\ Nul # Stray

First(positions, otherwise) == IF positions = {} THEN otherwise ELSE Min(positions)

\* strspn and strcspn with the delimiter "/": where the run from i ends.
StrSpn(s, i)  == First({k \in i .. Len(s) : s[k] # Slash}, Len(s) + 1)
StrCspn(s, i) == First({k \in i .. Len(s) : s[k] = Slash}, Len(s) + 1)

\* The names that a loop of strtok_r calls finds.  Each call overwrites the
\* delimiter with a terminator, so the caller's string is good for one walk.
Tokens(s) ==
    LET from[i \in 1 .. Len(s) + 2] ==
          LET begin == StrSpn(s, i)
              end   == StrCspn(s, begin)
          IN  IF begin > Len(s) THEN <<>>
              ELSE <<SubSeq(s, begin, end - 1)>> \o
                   from[IF end <= Len(s) THEN end + 1 ELSE end]
    IN  from[1]

\* strncpy.  When src is as long as n or longer, n wraps below zero and the
\* second loop, which -O3 makes one store, terminates the copy at dest[n].
\* When n is the length plus one there is no terminator.
Strncpy(dest, src, n) ==
    [k \in DOMAIN dest |->
        IF k <= Len(src) /\ k <= n THEN src[k]
        ELSE IF (k = n + 1 /\ Len(src) >= n) \/ (k = Len(src) + 1 /\ k < n) THEN Nul
        ELSE dest[k]]

\* What is read from an array: up to the terminator, or beyond its end.
CString(array) ==
    LET ends == {k \in DOMAIN array : array[k] = Nul}
    IN  IF ends = {} THEN Append(array, Stray) ELSE SubSeq(array, 1, Min(ends) - 1)

\* strdup: the terminator is the one that strncpy writes beyond its n.
Strdup(s) == CString(Strncpy([k \in 1 .. Len(s) + 1 |-> Stray], s, Len(s)))

LastSlash(s) == LET at == {k \in DOMAIN s : s[k] = Slash} IN IF at = {} THEN 0 ELSE Max(at)

\* dirname, with the slashes at the end cut off first.
StripSlashes(s) ==
    LET kept == {k \in DOMAIN s : s[k] # Slash}
    IN  IF kept = {} THEN <<Slash>> ELSE SubSeq(s, 1, Max(kept))

Dirname(original) ==
    LET s == StripSlashes(Strdup(original))
        p == LastSlash(s)
    IN  IF s = <<Slash>> \/ p <= 1 THEN <<Slash>> ELSE SubSeq(s, 1, p - 1)

Basename(s) == SubSeq(s, LastSlash(s) + 1, Len(s))

\* What a path names: its longest parts without a slash, from left to right.
IsPart(s, a, b) ==
    /\ a <= b /\ \A k \in a .. b : s[k] # Slash
    /\ (a = 1 \/ s[a - 1] = Slash) /\ (b = Len(s) \/ s[b + 1] = Slash)

Components(s) ==
    LET parts == {r \in (DOMAIN s) \X (DOMAIN s) : IsPart(s, r[1], r[2])}
        order == SetToSortSeq(parts, LAMBDA q, r : q[1] < r[1])
    IN  [k \in DOMAIN order |-> SubSeq(s, order[k][1], order[k][2])]
=============================================================================
