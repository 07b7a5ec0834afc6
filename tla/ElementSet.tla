---------------------------- MODULE ElementSet ----------------------------
(***************************************************************************)
(* What a libiberty hash table is to its users: a set of elements, with an *)
(* answer to the last lookup.                                              *)
(***************************************************************************)
CONSTANTS Keys,    \* what the elements are told apart by
          NoKey    \* no lookup was made

VARIABLES elements, \* the elements put in and not removed since
          answer    \* the last lookup, and whether it found its element

evars == <<elements, answer>>

EInit == elements = {} /\ answer = [key |-> NoKey, found |-> FALSE]

Put(k) == /\ elements' = elements \union {k}
          /\ UNCHANGED answer

Look(k) == /\ answer' = [key |-> k, found |-> k \in elements]
           /\ UNCHANGED elements

(* One element is removed, or all those a traversal's callback picks, or   *)
(* all of them.                                                            *)
Take(S) == /\ S \subseteq elements
           /\ elements' = elements \ S
           /\ UNCHANGED answer

ENext == \/ \E k \in Keys : Put(k) \/ Look(k)
         \/ \E S \in SUBSET Keys : Take(S)

ESpec == EInit /\ [][ENext]_evars
=============================================================================
