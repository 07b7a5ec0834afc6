------------------------------ MODULE HashTab ------------------------------
(***************************************************************************)
(* The expandable hash table of libiberty/hashtab.c, which holds the       *)
(* viewers of the data plugins: open addressing with double hashing,       *)
(* deletion marks, and a table that is rebuilt when it is too full or too  *)
(* empty.  An operation runs to its end, so each is one action; what goes  *)
(* wrong in such a table takes a long sequence of them.                    *)
(*                                                                         *)
(* A caller writes the element into the slot htab_find_slot gives it, as   *)
(* the comment on that function asks: INSERT and that write are one step.  *)
(***************************************************************************)
EXTENDS Naturals, Sequences, FiniteSets

FSX == INSTANCE FiniteSetsExt

CONSTANTS Keys,       \* the elements; eq_f is equality
          HashOf,     \* hash_f: Keys -> Nat
          PrimeTab,   \* prime_tab, ascending
          InitSizes,  \* the sizes asked of htab_create_alloc
          EmptyAbove, \* htab_empty downsizes a table larger than this
          EmptyTo,    \*   to the first prime from this on
          EMPTY,      \* HTAB_EMPTY_ENTRY
          DELETED,    \* HTAB_DELETED_ENTRY
          NoKey       \* no lookup was made

IsPrime(p) == p > 1 /\ \A d \in 2 .. p - 1 : p % d # 0

(* higher_prime_index aborts when it runs out of primes: no size is asked  *)
(* for, and no elements are held, that need a larger one.                  *)
Reaches(n) == \E i \in DOMAIN PrimeTab : n <= PrimeTab[i]

ASSUME TabAssumption ==
    /\ IsFiniteSet(Keys) /\ HashOf \in [Keys -> Nat]
    /\ PrimeTab \in Seq(Nat)
    /\ \A i \in DOMAIN PrimeTab : PrimeTab[i] > 3 /\ IsPrime(PrimeTab[i])
    /\ \A n \in InitSizes \union {EmptyTo, 2 * Cardinality(Keys)} :
          n \in Nat /\ Reaches(n)
    /\ {EMPTY, DELETED, NoKey} \cap Keys = {}
    /\ EMPTY # DELETED

VARIABLES entries,     \* the slots, counted from 0
          size_index,  \* size_prime_index
          n_elements,  \* slots in use, deletion marks included
          n_deleted,   \* deletion marks
          answer,      \* the last lookup, and whether it returned an element
          crashed      \* a null pointer was read

vars == <<entries, size_index, n_elements, n_deleted, answer, crashed>>

Size  == PrimeTab[size_index]
Slots == 0 .. Size - 1
Live  == {entries[i] : i \in Slots} \ {EMPTY, DELETED}
Elements == n_elements - n_deleted               \* htab_elements

(* higher_prime_index *)
HigherPrimeIndex(n) == FSX!Min({i \in DOMAIN PrimeTab : n <= PrimeTab[i]})

(* The slot of the i-th probe for hash value h: htab_mod, then steps of    *)
(* htab_mod_m2.                                                            *)
Probe(h, p, i) == ((h % p) + i * (1 + (h % (p - 2)))) % p

(* The number of the first probe that ends a search of table tab for an    *)
(* element of hash value h that ends at the contents in stops.             *)
FirstProbe(tab, h, p, stops) ==
    FSX!Min({i \in 0 .. p - 1 : tab[Probe(h, p, i)] \in stops})

EmptyTable(p) == [i \in 0 .. p - 1 |-> EMPTY]

(* find_empty_slot_for_expand, and the store into the slot it returns. *)
Place(x, tab) ==
    LET p == Cardinality(DOMAIN tab)
        i == FirstProbe(tab, HashOf[x], p, {EMPTY})
    IN  [tab EXCEPT ![Probe(HashOf[x], p, i)] = x]

-----------------------------------------------------------------------------
(* htab_expand *)

NewIndex ==
    IF Elements * 2 > Size \/ (Elements * 8 < Size /\ Size > 32)
    THEN HigherPrimeIndex(Elements * 2)
    ELSE size_index

(* The live entries, taken in slot order, placed into an empty table: the  *)
(* new table after the first n slots of the old one.                       *)
Placed[n \in 0 .. Size] ==
    IF n = 0 THEN EmptyTable(PrimeTab[NewIndex])
    ELSE IF entries[n - 1] \in Keys THEN Place(entries[n - 1], Placed[n - 1])
    ELSE Placed[n - 1]

Rebuilt == Placed[Size]

(* The table an operation works on, as a record: the current one, or the   *)
(* one htab_expand leaves.                                                 *)
Table == [tab |-> entries, index |-> size_index,
          used |-> n_elements, marks |-> n_deleted]
(* Mutant: the count of deletion marks survives the rebuild. *)
ExpandedStaleMarks == [tab |-> Rebuilt, index |-> NewIndex,
                       used |-> n_elements - n_deleted, marks |-> n_deleted]
Expanded == [tab |-> Rebuilt, index |-> NewIndex,
             used |-> n_elements - n_deleted, marks |-> 0]

Store(t) == /\ entries' = t.tab
            /\ size_index' = t.index
            /\ n_elements' = t.used
            /\ n_deleted' = t.marks

-----------------------------------------------------------------------------
(* Mutant: a mark used again is still counted. *)
SlotForKeepsMark(t, k) ==
    LET p == PrimeTab[t.index]
        h == HashOf[k]
        end  == FirstProbe(t.tab, h, p, {EMPTY, k})
        mark == {i \in 0 .. end - 1 : t.tab[Probe(h, p, i)] = DELETED}
        slot == Probe(h, p, IF mark = {} THEN end ELSE FSX!Min(mark))
    IN  IF t.tab[Probe(h, p, end)] = k THEN t
        ELSE [t EXCEPT !.tab[slot] = k, !.used = @ + 1]

(* htab_find_slot (INSERT) with the caller's store of k.  The probe goes   *)
(* on past deletion marks until it meets k or an empty slot; at an empty   *)
(* slot the first mark on the way is used again.                           *)
SlotFor(t, k) ==
    LET p == PrimeTab[t.index]
        h == HashOf[k]
        end  == FirstProbe(t.tab, h, p, {EMPTY, k})
        mark == {i \in 0 .. end - 1 : t.tab[Probe(h, p, i)] = DELETED}
        slot == Probe(h, p, IF mark = {} THEN end ELSE FSX!Min(mark))
    IN  IF t.tab[Probe(h, p, end)] = k THEN t
        ELSE [tab |-> [t.tab EXCEPT ![slot] = k], index |-> t.index,
              used  |-> IF mark = {} THEN t.used + 1 ELSE t.used,
              marks |-> IF mark = {} THEN t.marks ELSE t.marks - 1]

(* Mutant: deletion marks do not count towards a full table. *)
FullOfLive == Size * 3 <= Elements * 4

(* INSERT may rebuild the table before it looks for the element. *)
Full == Size * 3 <= n_elements * 4

Insert(k) == /\ Store(SlotFor(IF Full THEN Expanded ELSE Table, k))
             /\ UNCHANGED <<answer, crashed>>

(* Mutant: a lookup gives up at a deletion mark. *)
FoundBeforeMark(k) ==
    LET i == FirstProbe(entries, HashOf[k], Size,
                        {EMPTY, DELETED, k})
    IN  entries[Probe(HashOf[k], Size, i)] = k

(* htab_find *)
Found(k) == LET i == FirstProbe(entries, HashOf[k], Size,
                                {EMPTY, k})
            IN  entries[Probe(HashOf[k], Size, i)] = k

Find(k) == /\ answer' = [key |-> k, found |-> Found(k)]
           /\ UNCHANGED <<entries, size_index, n_elements, n_deleted, crashed>>

(* htab_clear_slot on the slots of the elements in S. *)
Clear(t, S) ==
    [t EXCEPT !.tab = [i \in DOMAIN t.tab |->
                         IF t.tab[i] \in S THEN DELETED ELSE t.tab[i]],
              !.marks = @ + Cardinality(S)]

(* htab_remove_elt reads through the slot htab_find_slot returns, which is *)
(* a null pointer for an element that is not there.                        *)
RemoveElt(k) == /\ IF Found(k)
                   THEN Store(Clear(Table, {k})) /\ UNCHANGED crashed
                   ELSE crashed' = TRUE /\ Store(Table)
                /\ UNCHANGED answer

(* htab_traverse with a callback that clears the slots of the elements in  *)
(* S.  A rebuild that cannot get memory is given up silently.              *)
Traverse(S) == /\ S \subseteq Live
               /\ \/ Store(Clear(Table, S))
                  \/ Elements * 8 < Size /\ Store(Clear(Expanded, S))
               /\ UNCHANGED <<answer, crashed>>

(* htab_empty *)
Empty == /\ LET i == IF Size > EmptyAbove THEN HigherPrimeIndex(EmptyTo)
                                          ELSE size_index
            IN  Store([tab |-> EmptyTable(PrimeTab[i]), index |-> i,
                       used |-> 0, marks |-> 0])
         /\ UNCHANGED <<answer, crashed>>

(* htab_create_alloc *)
Init == /\ size_index \in {HigherPrimeIndex(n) : n \in InitSizes}
        /\ entries = EmptyTable(Size)
        /\ n_elements = 0
        /\ n_deleted = 0
        /\ answer = [key |-> NoKey, found |-> FALSE]
        /\ crashed = FALSE

Next == /\ ~crashed
        /\ \/ \E k \in Keys : Insert(k) \/ Find(k) \/ RemoveElt(k)
           \/ \E S \in SUBSET Keys : Traverse(S)
           \/ Empty

Spec == Init /\ [][Next]_vars

-----------------------------------------------------------------------------
TypeOK == /\ size_index \in DOMAIN PrimeTab
          /\ entries \in [Slots -> Keys \union {EMPTY, DELETED}]
          /\ n_elements \in 0 .. Size
          /\ n_deleted \in 0 .. n_elements
          /\ answer \in [key : Keys \union {NoKey}, found : BOOLEAN]
          /\ crashed \in BOOLEAN

(* The counters that decide when to rebuild say what the slots hold, and   *)
(* no element is held twice: over every reuse of a deletion mark.          *)
CountsExact ==
    /\ n_elements = Cardinality({i \in Slots : entries[i] # EMPTY})
    /\ n_deleted = Cardinality({i \in Slots : entries[i] = DELETED})
    /\ Elements = Cardinality(Live)

(* The probe loops of hashtab.c have no bound of their own: every one of   *)
(* them ends because its path crosses an empty slot, also in the table     *)
(* that htab_expand leaves behind before an insertion.                     *)
ProbesEnd == \A k \in Keys : \E i \in 0 .. Size - 1 :
                entries[Probe(HashOf[k], Size, i)] = EMPTY

(* The table is a set of elements and a lookup answers from that set. *)
Elems == INSTANCE ElementSet WITH elements <- Live
ImplementsSet == Elems!ESpec

(* As its comment has it, htab_remove_elt does nothing for an element that *)
(* is not in the table.                                                    *)
RemoveAbsentHarmless == ~crashed
=============================================================================
