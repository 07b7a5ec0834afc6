----------------------------- MODULE MCHashTab -----------------------------
(* Instances of HashTab for TLC.  The keys collide in the smallest table,  *)
(* on the first slot and on the step, and part only in the larger ones.    *)
EXTENDS HashTab
MCKeys == 1 .. 6
MCHash == <<0, 35, 7, 14, 70, 3>>
MCPrimes == <<7, 13, 31, 61>>
=============================================================================
