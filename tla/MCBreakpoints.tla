---------------------------- MODULE MCBreakpoints ----------------------------
EXTENDS Breakpoints, TLC

CONSTANTS a, b, rom

(* The addresses gdb can write are alike, and only safety is checked.      *)
Symmetry == Permutations({a, b})
=============================================================================
