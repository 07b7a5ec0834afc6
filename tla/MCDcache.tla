----------------------------- MODULE MCDcache -----------------------------
(* Instances of Dcache for TLC: a cache smaller than the memory, and       *)
(* regions that end inside a line.                                         *)
EXTENDS Dcache

Area(lo, hi, mode, cache) ==
    [lo |-> lo, hi |-> hi, mode |-> mode, cache |-> cache, enabled |-> TRUE]

NoMap == {}
(* The third overlaps the first; alone, it leaves a gap with no end.  The  *)
(* last is empty.                                                          *)
OverlappingRegions == {Area(0, 5, "RW", TRUE), Area(5, 6, "RW", FALSE),
                       Area(1, 3, "RO", TRUE), Area(2, 2, "RW", TRUE)}
(* A region that splits a line, the rest of that line, and what bounds it. *)
AdjacentRegions == {Area(0, 1, "RW", TRUE), Area(1, 2, "RW", TRUE),
                    Area(2, 4, "RW", TRUE)}
OneRegion == {Area(0, 4, "RW", TRUE)}
OpenRegion == {Area(2, 0, "RW", TRUE)}
=============================================================================
