------------------------------ MODULE MCDirectory ------------------------------
(* DirectoryHierarchy for TLC: instances with two cores.                   *)
EXTENDS DirectoryHierarchy, TLC

CONSTANTS a1, a2

CoreSymmetry == Permutations(Cores)
Symmetry     == Permutations(Cores) \cup Permutations(Addrs)

(* One line is written and flushed, the other read and flushed out.        *)
Mixed     == ({"GetS", "Write", "FlushLine"} \X {a1}) \cup ({"GetS", "FlushLineInv"} \X {a2})
LoadStore == {"GetS", "Write"} \X Addrs
Flushes   == {"GetS", "Write", "FlushLineInv"} \X Addrs
=============================================================================
