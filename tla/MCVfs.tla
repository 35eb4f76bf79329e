------------------------------- MODULE MCVfs --------------------------------
(* Instances of Vfs for TLC: a few paths (one with a double slash) and one *)
(* more file system to mount.  A name is a string of one character, or of  *)
(* two or three, which is as much as d_name holds, and more.               *)
EXTENDS Vfs

CONSTANTS dev, x, sb0, sb1, a, b

DevName  == <<dev>>
TwoNames == {<<dev>>, <<x>>}
TwoSbs   == {sb0, sb1}
TwoBytes == {a, b}
SwapBytes == Permutations(TwoBytes)

FewPaths == {<<Slash>>, <<Slash, dev>>, <<Slash, x>>, <<Slash, dev, Slash, Slash, x>>,
             <<x, Slash, x, x>>, <<Slash, x, x, x>>}

SmallWrites == {<<a>>, <<b>>}
OneOrTwo    == {1, 2}
=============================================================================
