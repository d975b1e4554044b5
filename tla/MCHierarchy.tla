------------------------------ MODULE MCHierarchy ------------------------------
(* Hierarchy for TLC: instances with two and three cores.                  *)
EXTENDS Hierarchy, TLC

CONSTANTS a1, a2

Symmetry == Permutations(Cores)

Stores    == {"Write"} \X Addrs
Flushes   == {"GetS", "Write", "FlushLine", "FlushLineInv"} \X Addrs
Locks     == {"Write", "LL", "SC", "FlushLineInv"} \X Addrs
(* One line is flushed, the other locked.                                  *)
Mixed     == ({"GetS", "Write", "FlushLine", "FlushLineInv"} \X {a1})
                \cup ({"Write", "LL", "SC"} \X {a2})
=============================================================================
