--------------------------- MODULE HashTabProofs ---------------------------
(***************************************************************************)
(* Proofs about HashTab for every set of elements, hash function and table *)
(* of primes.                                                              *)
(*                                                                         *)
(* That a probe loop ends is a fact of number theory: the size of a table  *)
(* is a prime p and the step of a probe is less than p, so p probes visit  *)
(* every slot, and one slot is empty.  That the counters are exact rests   *)
(* on an insertion finding an element that is there, which rests on the    *)
(* path to an element having no empty slot: that is the invariant.         *)
(***************************************************************************)
EXTENDS HashTab, FiniteSetTheorems, WellFoundedInduction, TLAPS

Contents == Keys \union {EMPTY, DELETED}

(* The slots of table tab of p slots that are not empty, those with a      *)
(* deletion mark, and the elements in it.                                  *)
UsedSlots(tab, p) == {i \in 0 .. p - 1 : tab[i] # EMPTY}
MarkSlots(tab, p) == {i \in 0 .. p - 1 : tab[i] = DELETED}
Held(tab, p)      == {tab[i] : i \in 0 .. p - 1} \ {EMPTY, DELETED}

(* Slot s is on the path of hash value h behind slots that are not empty.  *)
Reached(tab, p, h, s) ==
    \E i \in 0 .. p - 1 : /\ Probe(h, p, i) = s
                          /\ \A j \in 0 .. i - 1 : tab[Probe(h, p, j)] # EMPTY

(* No element is in two slots, and a search for it would get to its slot.  *)
Once(tab, p)   == \A i, j \in 0 .. p - 1 :
                     tab[i] = tab[j] /\ tab[i] \in Keys => i = j
OnPath(tab, p) == \A s \in 0 .. p - 1 :
                     tab[s] \in Keys => Reached(tab, p, HashOf[tab[s]], s)

Sound(tab, p) == /\ tab \in [0 .. p - 1 -> Contents]
                 /\ Once(tab, p) /\ OnPath(tab, p)

(* A table with its counters, and an empty slot. *)
Good(t) == /\ t.index \in DOMAIN PrimeTab
           /\ Sound(t.tab, PrimeTab[t.index])
           /\ t.used = Cardinality(UsedSlots(t.tab, PrimeTab[t.index]))
           /\ t.marks = Cardinality(MarkSlots(t.tab, PrimeTab[t.index]))
           /\ t.used < PrimeTab[t.index]

IInv == /\ Good(Table)
        /\ answer \in [key : Keys \union {NoKey}, found : BOOLEAN]
        /\ crashed \in BOOLEAN

-----------------------------------------------------------------------------
(* Numbers. *)

(* A set of natural numbers has a least element. *)
LEMMA LeastNat ==
  ASSUME NEW S \in SUBSET Nat, S # {}
  PROVE  \E x \in S : \A y \in S : x <= y
<1>1. IsWellFoundedOn(OpToRel(<, Nat), Nat)
  BY NatLessThanWellFounded
<1>2. PICK x \in S : \A y \in S : ~(<<y, x>> \in OpToRel(<, Nat))
  BY <1>1, WFMin
<1>3. ASSUME NEW y \in S PROVE x <= y
  <2>1. ~(y < x)
    BY <1>2 DEF OpToRel
  <2> QED
    BY <2>1
<1> QED
  BY <1>3

(* The least element of a set of natural numbers. *)
LEMMA MinOfNat ==
  ASSUME NEW S \in SUBSET Nat, S # {}
  PROVE  FSX!Min(S) \in S /\ \A y \in S : FSX!Min(S) <= y
BY LeastNat DEF FSX!Min

(* A division. *)
LEMMA Division ==
  ASSUME NEW k \in Nat, NEW c \in Nat \ {0}
  PROVE  /\ k \div c \in Nat /\ k % c \in 0 .. c - 1
         /\ k = c * (k \div c) + (k % c)
OBVIOUS

(* A prime divides no product of two smaller numbers. *)
LEMMA PrimeDivides ==
  ASSUME NEW p \in Nat, IsPrime(p), NEW m \in 1 .. p - 1,
         NEW d \in 1 .. p - 1, NEW k \in Int
  PROVE  d * m # p * k
<1> SUFFICES ASSUME d * m = p * k PROVE FALSE
  OBVIOUS
<1> DEFINE S == {i \in 1 .. p - 1 : \E j \in Int : i * m = p * j}
<1>1. PICK i \in S : \A y \in S : i <= y
  <2>1. d \in S /\ S \in SUBSET Nat
    OBVIOUS
  <2> HIDE DEF S
  <2> QED
    BY <2>1, LeastNat
<1>2. i \in 1 .. p - 1
  OBVIOUS
<1>3. PICK j \in Int : i * m = p * j
  OBVIOUS
<1> DEFINE q == p \div i
           r == p % i
<1>4. q \in Nat /\ r \in 0 .. i - 1 /\ p = i * q + r
  <2>1. i \in Nat \ {0}
    BY <1>2
  <2> QED
    BY <2>1, Division
<1> HIDE DEF q, r
<1>5. r * m = p * (m - q * j)
  <2>1. p * m = (i * q) * m + r * m
    BY <1>2, <1>4
  <2>2. (i * q) * m = q * (i * m)
    BY <1>2, <1>4
  <2>3. q * (p * j) = p * (q * j)
    BY <1>4
  <2>4. p * (m - q * j) = p * m - p * (q * j)
    BY <1>4
  <2>5. (i * q) * m = p * (q * j)
    BY <2>2, <2>3, <1>3
  <2>6. r * m \in Int /\ p * m \in Int /\ p * (q * j) \in Int
    BY <1>4
  <2> QED
    BY <2>1, <2>4, <2>5, <2>6
<1>6. r = 0
  <2>1. SUFFICES ASSUME r # 0 PROVE FALSE
    OBVIOUS
  <2>2. r \in 1 .. p - 1 /\ m - q * j \in Int
    BY <1>2, <1>4, <2>1
  <2>3. r \in S
    BY <1>5, <2>2
  <2> QED
    BY <1>1, <1>2, <1>4, <2>3
<1>7. i = 1
  <2>1. i # 1 => i \in 2 .. p - 1
    BY <1>2
  <2> QED
    BY <2>1, <1>6 DEF IsPrime, r
<1>8. m = p * j
  BY <1>3, <1>7
<1>9. j <= 0 => p * j <= 0
  OBVIOUS
<1>10. j >= 1 => p * j >= p
  OBVIOUS
<1> QED
  BY <1>8, <1>9, <1>10

(* The first p probes of a table of p slots are in different slots. *)
LEMMA ProbesApart ==
  ASSUME NEW p \in Nat, IsPrime(p), p > 3, NEW h \in Nat,
         NEW i \in 0 .. p - 1, NEW j \in 0 .. p - 1, i < j
  PROVE  Probe(h, p, i) # Probe(h, p, j)
<1> SUFFICES ASSUME Probe(h, p, i) = Probe(h, p, j) PROVE FALSE
  OBVIOUS
<1> DEFINE a == h % p
           m == 1 + (h % (p - 2))
           x == a + i * m
           y == a + j * m
<1>1. a \in Nat /\ m \in 1 .. p - 1
  <2>1. p \in Nat \ {0} /\ p - 2 \in Nat \ {0}
    OBVIOUS
  <2>2. h % p \in Nat
    BY <2>1, Division
  <2>3. h % (p - 2) \in 0 .. (p - 2) - 1
    BY <2>1, Division
  <2> QED
    BY <2>2, <2>3
<1>2. x % p = y % p
  BY DEF Probe
<1> HIDE DEF a, m
<1>3. i * m \in Nat /\ j * m \in Nat /\ x \in Nat /\ y \in Nat
  BY <1>1
<1>4. y - x = (j - i) * m
  <2>1. (j - i) * m = j * m - i * m
    BY <1>1
  <2> QED
    BY <1>1, <1>3, <2>1
<1> HIDE DEF x, y
<1>5. /\ x = p * (x \div p) + (x % p) /\ x \div p \in Nat /\ x % p \in Nat
      /\ y = p * (y \div p) + (y % p) /\ y \div p \in Nat /\ y % p \in Nat
  <2>1. p \in Nat \ {0} /\ 0 .. p - 1 \subseteq Nat
    OBVIOUS
  <2> QED
    BY <2>1, <1>3, Division
<1> DEFINE u == x \div p
           v == y \div p
<1>6. u \in Nat /\ v \in Nat /\ x = p * u + (x % p) /\ y = p * v + (y % p)
  BY <1>5
<1> HIDE DEF u, v
<1>7. p * (v - u) = p * v - p * u
  BY <1>6
<1>8. y - x = p * (v - u)
  <2>1. p * u \in Int /\ p * v \in Int
    BY <1>6
  <2> QED
    BY <1>2, <1>3, <1>5, <1>6, <1>7, <2>1
<1>9. (j - i) * m = p * (v - u) /\ j - i \in 1 .. p - 1 /\ v - u \in Int
  BY <1>4, <1>6, <1>8
<1> QED
  BY <1>1, <1>9, PrimeDivides

(* A probe is a slot. *)
LEMMA ProbeIsSlot ==
  ASSUME NEW p \in Nat, p > 3, NEW h \in Nat, NEW i \in Nat
  PROVE  Probe(h, p, i) \in 0 .. p - 1
<1>1. h % p \in Nat /\ h % (p - 2) \in Nat
  <2>1. p \in Nat \ {0} /\ p - 2 \in Nat \ {0}
    OBVIOUS
  <2> QED
    BY <2>1, Division
<1> DEFINE m == 1 + (h % (p - 2))
           x == (h % p) + i * m
<1>2. m \in Nat
  BY <1>1
<1> HIDE DEF m
<1>3. i * m \in Nat
  BY <1>2
<1>4. x \in Nat
  BY <1>1, <1>3
<1>5. Probe(h, p, i) = x % p
  BY DEF Probe, m
<1> HIDE DEF x
<1>6. x % p \in 0 .. p - 1
  BY <1>4, Division
<1> QED
  BY <1>5, <1>6

(* So they visit every slot. *)
LEMMA ProbesVisitAll ==
  ASSUME NEW p \in Nat, IsPrime(p), p > 3, NEW h \in Nat,
         NEW s \in 0 .. p - 1
  PROVE  \E i \in 0 .. p - 1 : Probe(h, p, i) = s
<1> DEFINE P == 0 .. p - 1
           f == [i \in P |-> Probe(h, p, i)]
<1>1. f \in [P -> P]
  <2>1. ASSUME NEW i \in P PROVE Probe(h, p, i) \in P
    <3>1. i \in Nat
      OBVIOUS
    <3> QED
      BY <3>1, ProbeIsSlot
  <2> QED
    BY <2>1
<1>2. \A i, j \in P : f[i] = f[j] => i = j
  BY ProbesApart
<1>3. IsFiniteSet(P)
  BY FS_Interval
<1> HIDE DEF P, f
<1>4. f \in Injection(P, P)
  BY <1>1, <1>2 DEF Injection, IsInjective
<1>5. f \in Surjection(P, P)
  BY <1>3, <1>4, FS_Injection
<1>6. \E i \in P : f[i] = s
  BY <1>5 DEF Surjection, P
<1> QED
  BY <1>6 DEF P, f

-----------------------------------------------------------------------------
(* Searches. *)

(* The sizes of tables. *)
LEMMA Primes ==
  ASSUME NEW i \in DOMAIN PrimeTab
  PROVE  PrimeTab[i] \in Nat /\ PrimeTab[i] > 3 /\ IsPrime(PrimeTab[i])
BY TabAssumption

(* higher_prime_index finds a size that is large enough. *)
LEMMA HigherPrime ==
  ASSUME NEW n \in Nat, Reaches(n)
  PROVE  /\ HigherPrimeIndex(n) \in DOMAIN PrimeTab
         /\ n <= PrimeTab[HigherPrimeIndex(n)]
<1> DEFINE S == {i \in DOMAIN PrimeTab : n <= PrimeTab[i]}
<1>1. S # {} /\ S \in SUBSET Nat
  BY TabAssumption DEF Reaches
<1>2. HigherPrimeIndex(n) = FSX!Min(S)
  BY DEF HigherPrimeIndex
<1> HIDE DEF S
<1>3. HigherPrimeIndex(n) \in S
  BY <1>1, <1>2, MinOfNat
<1> QED
  BY <1>3 DEF S

(* A table with fewer elements and marks than slots has an empty slot. *)
LEMMA HasEmptySlot ==
  ASSUME NEW p \in Nat, NEW tab, Cardinality(UsedSlots(tab, p)) < p
  PROVE  \E s \in 0 .. p - 1 : tab[s] = EMPTY
<1> SUFFICES ASSUME \A s \in 0 .. p - 1 : tab[s] # EMPTY PROVE FALSE
  OBVIOUS
<1>1. UsedSlots(tab, p) = 0 .. p - 1
  BY DEF UsedSlots
<1>2. Cardinality(0 .. p - 1) = p
  BY FS_Interval
<1> QED
  BY <1>1, <1>2

(* A search for h that ends at the contents in stops takes e steps. *)
EndsAt(tab, p, h, stops, e) ==
    /\ e \in 0 .. p - 1
    /\ tab[Probe(h, p, e)] \in stops
    /\ \A j \in 0 .. e - 1 : tab[Probe(h, p, j)] \notin stops

(* A search that an empty slot ends does end. *)
LEMMA SearchEnds ==
  ASSUME NEW p \in Nat, IsPrime(p), p > 3, NEW h \in Nat, NEW tab,
         NEW s \in 0 .. p - 1, tab[s] = EMPTY, NEW stops, EMPTY \in stops
  PROVE  EndsAt(tab, p, h, stops, FirstProbe(tab, h, p, stops))
<1> DEFINE S == {i \in 0 .. p - 1 : tab[Probe(h, p, i)] \in stops}
<1>1. S # {} /\ S \in SUBSET Nat
  <2>1. PICK i \in 0 .. p - 1 : Probe(h, p, i) = s
    BY ProbesVisitAll
  <2> QED
    BY <2>1
<1>2. FirstProbe(tab, h, p, stops) = FSX!Min(S)
  BY DEF FirstProbe
<1> DEFINE e == FSX!Min(S)
<1>3. e \in S /\ \A i \in S : e <= i
  <2> HIDE DEF S
  <2> QED
    BY <1>1, MinOfNat
<1> HIDE DEF e
<1>4. \A j \in 0 .. e - 1 : j \in 0 .. p - 1 /\ ~(e <= j)
  BY <1>3
<1>5. EndsAt(tab, p, h, stops, e)
  BY <1>3, <1>4 DEF EndsAt
<1> QED
  BY <1>2, <1>5 DEF e

(* A search for k in a table with an empty slot finds it if it is there,   *)
(* and ends at an empty slot if it is not.                                 *)
LEMMA SearchFinds ==
  ASSUME NEW p \in Nat, IsPrime(p), p > 3, NEW tab, Sound(tab, p),
         NEW k \in Keys, NEW e, EndsAt(tab, p, HashOf[k], {EMPTY, k}, e)
  PROVE  /\ k \in Held(tab, p) => tab[Probe(HashOf[k], p, e)] = k
         /\ k \notin Held(tab, p) => tab[Probe(HashOf[k], p, e)] = EMPTY
         /\ Probe(HashOf[k], p, e) \in 0 .. p - 1
<1> DEFINE h == HashOf[k]
<1>1. h \in Nat /\ k # EMPTY /\ k # DELETED
  BY TabAssumption
<1>2. e \in 0 .. p - 1 /\ tab[Probe(h, p, e)] \in {EMPTY, k}
      /\ \A j \in 0 .. e - 1 : tab[Probe(h, p, j)] \notin {EMPTY, k}
  BY DEF EndsAt
<1> HIDE DEF h
<1>3. Probe(h, p, e) \in 0 .. p - 1
  <2>1. e \in Nat
    BY <1>2
  <2> QED
    BY <1>1, <2>1, ProbeIsSlot
<1>4. k \notin Held(tab, p) => tab[Probe(h, p, e)] = EMPTY
  BY <1>1, <1>2, <1>3 DEF Held
<1>5. ASSUME k \in Held(tab, p) PROVE tab[Probe(h, p, e)] = k
  <2>1. PICK s \in 0 .. p - 1 : tab[s] = k
    BY <1>5 DEF Held
  <2>2. PICK i \in 0 .. p - 1 :
           /\ Probe(h, p, i) = s
           /\ \A j \in 0 .. i - 1 : tab[Probe(h, p, j)] # EMPTY
    BY <2>1 DEF Sound, OnPath, Reached, h
  <2>3. ~(i < e)
    BY <1>2, <2>1, <2>2
  <2>4. e < i => tab[Probe(h, p, e)] # EMPTY
    BY <1>2, <2>2
  <2> QED
    BY <1>2, <2>1, <2>2, <2>3, <2>4
<1> QED
  BY <1>3, <1>4, <1>5 DEF h

-----------------------------------------------------------------------------
(* Storing and clearing. *)

(* Element k is stored in slot s of table tab. *)
Stored(tab, p, s, k, new) ==
    /\ Sound(new, p)
    /\ Held(new, p) = Held(tab, p) \union {k}
    /\ UsedSlots(new, p) = UsedSlots(tab, p) \union {s}
    /\ MarkSlots(new, p) = MarkSlots(tab, p) \ {s}

(* An element that is not in the table is stored into an unused slot on    *)
(* its path.                                                               *)
LEMMA StoreKey ==
  ASSUME NEW p \in Nat, p > 3, NEW tab, Sound(tab, p),
         NEW k \in Keys, k \notin Held(tab, p),
         NEW s \in 0 .. p - 1, tab[s] \in {EMPTY, DELETED},
         Reached(tab, p, HashOf[k], s)
  PROVE  Stored(tab, p, s, k, [tab EXCEPT ![s] = k])
<1> DEFINE new == [tab EXCEPT ![s] = k]
<1>1. k # EMPTY /\ k # DELETED /\ EMPTY \notin Keys /\ DELETED \notin Keys
  BY TabAssumption
<1>2. tab \in [0 .. p - 1 -> Contents]
  BY DEF Sound
<1>3. /\ new \in [0 .. p - 1 -> Contents]
      /\ new[s] = k
      /\ \A i \in 0 .. p - 1 : i # s => new[i] = tab[i]
  BY <1>2 DEF Contents
<1> HIDE DEF new
<1>4. \A i \in 0 .. p - 1 : tab[i] # k
  BY <1>1 DEF Held
<1>5. Held(new, p) = Held(tab, p) \union {k}
  BY <1>1, <1>3 DEF Held
<1>6. UsedSlots(new, p) = UsedSlots(tab, p) \union {s}
  BY <1>1, <1>3 DEF UsedSlots
<1>7. MarkSlots(new, p) = MarkSlots(tab, p) \ {s}
  BY <1>1, <1>3 DEF MarkSlots
<1>8. Once(new, p)
  BY <1>3, <1>4 DEF Sound, Once
<1>9. ASSUME NEW h \in Nat, NEW x \in 0 .. p - 1, Reached(tab, p, h, x)
      PROVE  Reached(new, p, h, x)
  <2>1. PICK i \in 0 .. p - 1 :
           /\ Probe(h, p, i) = x
           /\ \A j \in 0 .. i - 1 : tab[Probe(h, p, j)] # EMPTY
    BY <1>9 DEF Reached
  <2>2. ASSUME NEW j \in 0 .. i - 1 PROVE new[Probe(h, p, j)] # EMPTY
    <3>1. j \in Nat
      OBVIOUS
    <3>2. Probe(h, p, j) \in 0 .. p - 1
      BY <3>1, ProbeIsSlot
    <3> QED
      BY <1>1, <1>3, <2>1, <3>2
  <2> QED
    BY <2>1, <2>2 DEF Reached
<1>10. ASSUME NEW x \in 0 .. p - 1, new[x] \in Keys
       PROVE  Reached(new, p, HashOf[new[x]], x)
  <2>1. HashOf[new[x]] \in Nat
    BY <1>10, TabAssumption
  <2>2. Reached(tab, p, HashOf[new[x]], x)
    BY <1>3, <1>10 DEF Sound, OnPath
  <2> QED
    BY <1>9, <2>1, <2>2
<1> QED
  BY <1>3, <1>5, <1>6, <1>7, <1>8, <1>10 DEF Sound, OnPath, Stored, new

(* The slots of the elements in S. *)
SlotsOf(tab, p, S) == {i \in 0 .. p - 1 : tab[i] \in S}

(* There are as many slots with elements of S as elements. *)
LEMMA CountSlots ==
  ASSUME NEW p \in Nat, NEW tab, Sound(tab, p),
         NEW S \in SUBSET Held(tab, p)
  PROVE  /\ IsFiniteSet(S)
         /\ Cardinality(SlotsOf(tab, p, S)) = Cardinality(S)
<1> DEFINE T == SlotsOf(tab, p, S)
           f == [i \in T |-> tab[i]]
<1>1. T \subseteq 0 .. p - 1 /\ IsFiniteSet(0 .. p - 1)
  BY FS_Interval DEF SlotsOf
<1>2. IsFiniteSet(T)
  BY <1>1, FS_Subset
<1>3. S \subseteq Keys
  BY DEF Held, Sound, Contents
<1>4. f \in [T -> S]
  BY DEF SlotsOf
<1>5. \A i, j \in T : f[i] = f[j] => i = j
  BY <1>3 DEF SlotsOf, Sound, Once
<1>6. \A x \in S : \E i \in T : f[i] = x
  BY DEF SlotsOf, Held
<1> HIDE DEF T, f
<1>7. f \in Bijection(T, S)
  BY <1>4, <1>5, <1>6 DEF Bijection, Injection, IsInjective, Surjection
<1>8. ExistsBijection(T, S)
  BY <1>7 DEF ExistsBijection
<1>9. IsFiniteSet(S) /\ Cardinality(S) = Cardinality(T)
  BY <1>2, <1>8, FS_Bijection
<1> QED
  BY <1>9 DEF T

(* A table of n slots has finitely many of each kind. *)
LEMMA SlotsFinite ==
  ASSUME NEW p \in Nat, NEW tab
  PROVE  /\ IsFiniteSet(UsedSlots(tab, p)) /\ IsFiniteSet(MarkSlots(tab, p))
         /\ Cardinality(UsedSlots(tab, p)) \in Nat
         /\ Cardinality(MarkSlots(tab, p)) \in Nat
         /\ MarkSlots(tab, p) \subseteq UsedSlots(tab, p)
         /\ Cardinality(MarkSlots(tab, p)) <= Cardinality(UsedSlots(tab, p))
<1>1. IsFiniteSet(0 .. p - 1)
  BY FS_Interval
<1>2. UsedSlots(tab, p) \in SUBSET (0 .. p - 1)
      /\ MarkSlots(tab, p) \in SUBSET UsedSlots(tab, p)
  BY TabAssumption DEF UsedSlots, MarkSlots
<1>3. IsFiniteSet(UsedSlots(tab, p))
  BY <1>1, <1>2, FS_Subset
<1>4. IsFiniteSet(MarkSlots(tab, p))
      /\ Cardinality(MarkSlots(tab, p)) <= Cardinality(UsedSlots(tab, p))
  BY <1>2, <1>3, FS_Subset
<1> QED
  BY <1>2, <1>3, <1>4, FS_CardinalityType

(* The elements a table as a record holds. *)
HeldBy(t) == Held(t.tab, PrimeTab[t.index])

(* An insertion keeps the table right and adds its element. *)
LEMMA SlotForGood ==
  ASSUME NEW t, Good(t), NEW k \in Keys, t.used + 1 < PrimeTab[t.index]
  PROVE  /\ Good(SlotFor(t, k))
         /\ HeldBy(SlotFor(t, k)) = HeldBy(t) \union {k}
<1> DEFINE p    == PrimeTab[t.index]
           h    == HashOf[k]
           end  == FirstProbe(t.tab, h, p, {EMPTY, k})
           mark == {i \in 0 .. end - 1 : t.tab[Probe(h, p, i)] = DELETED}
           slot == Probe(h, p, IF mark = {} THEN end ELSE FSX!Min(mark))
           new  == [t.tab EXCEPT ![slot] = k]
           put  == [tab |-> new, index |-> t.index,
                    used  |-> IF mark = {} THEN t.used + 1 ELSE t.used,
                    marks |-> IF mark = {} THEN t.marks ELSE t.marks - 1]
<1>1. /\ t.index \in DOMAIN PrimeTab /\ Sound(t.tab, p)
      /\ t.used = Cardinality(UsedSlots(t.tab, p))
      /\ t.marks = Cardinality(MarkSlots(t.tab, p))
      /\ t.used + 1 < p
  BY DEF Good
<1>2. p \in Nat /\ p > 3 /\ IsPrime(p)
  BY <1>1, Primes
<1>3. h \in Nat /\ k # EMPTY /\ k # DELETED /\ EMPTY # DELETED
  BY TabAssumption
<1>4. SlotFor(t, k) = IF t.tab[Probe(h, p, end)] = k THEN t ELSE put
  BY DEF SlotFor
<1> HIDE DEF p, h
<1>5. /\ IsFiniteSet(UsedSlots(t.tab, p)) /\ IsFiniteSet(MarkSlots(t.tab, p))
      /\ t.used \in Nat /\ t.marks \in Nat
  BY <1>1, <1>2, SlotsFinite
<1>6. PICK s \in 0 .. p - 1 : t.tab[s] = EMPTY
  <2>1. Cardinality(UsedSlots(t.tab, p)) < p
    BY <1>1, <1>2, <1>5
  <2> HIDE DEF end
  <2> QED
    BY <1>2, <2>1, HasEmptySlot
<1>7. EndsAt(t.tab, p, h, {EMPTY, k}, end)
  BY <1>2, <1>3, <1>6, SearchEnds
<1> HIDE DEF end
<1>8. /\ k \in Held(t.tab, p) => t.tab[Probe(h, p, end)] = k
      /\ k \notin Held(t.tab, p) => t.tab[Probe(h, p, end)] = EMPTY
      /\ Probe(h, p, end) \in 0 .. p - 1
  BY <1>1, <1>2, <1>7, SearchFinds DEF h
<1>9. CASE k \in Held(t.tab, p)
  <2>1. SlotFor(t, k) = t
    BY <1>4, <1>8, <1>9
  <2> QED
    BY <1>9, <2>1 DEF HeldBy, p
<1>10. CASE k \notin Held(t.tab, p)
  <2>1. SlotFor(t, k) = put
    BY <1>3, <1>4, <1>8, <1>10
  <2>2. /\ end \in 0 .. p - 1
        /\ \A j \in 0 .. end - 1 : t.tab[Probe(h, p, j)] # EMPTY
    BY <1>7 DEF EndsAt
  <2>3. /\ put.tab = new /\ put.index = t.index
        /\ put.used = IF mark = {} THEN t.used + 1 ELSE t.used
        /\ put.marks = IF mark = {} THEN t.marks ELSE t.marks - 1
    OBVIOUS
  <2>4. CASE mark = {}
    <3>1. slot = Probe(h, p, end)
      BY <2>4
    <3>2. slot \in 0 .. p - 1 /\ t.tab[slot] = EMPTY
      BY <1>8, <1>10, <3>1
    <3>3. Reached(t.tab, p, h, slot)
      BY <2>2, <3>1 DEF Reached
    <3> HIDE DEF slot, mark, put
    <3>4. Stored(t.tab, p, slot, k, new)
      BY <1>1, <1>2, <1>10, <3>2, <3>3, StoreKey DEF h
    <3> HIDE DEF new
    <3>5. slot \notin UsedSlots(t.tab, p) /\ slot \notin MarkSlots(t.tab, p)
      BY <1>3, <3>2 DEF UsedSlots, MarkSlots
    <3>6. Cardinality(UsedSlots(new, p)) = t.used + 1
      <4>1. Cardinality(UsedSlots(t.tab, p) \union {slot})
               = Cardinality(UsedSlots(t.tab, p)) + 1
        BY <1>5, <3>5, FS_AddElement
      <4> QED
        BY <1>1, <3>4, <4>1 DEF Stored
    <3>7. Cardinality(MarkSlots(new, p)) = t.marks
      BY <1>1, <3>4, <3>5 DEF Stored
    <3>8. put.used = t.used + 1 /\ put.marks = t.marks
      BY <2>3, <2>4
    <3>9. Good(put)
      BY <1>1, <2>3, <3>4, <3>6, <3>7, <3>8 DEF Good, Stored, p
    <3> QED
      BY <2>1, <2>3, <3>4, <3>9 DEF HeldBy, Stored, p
  <2>5. CASE mark # {}
    <3> DEFINE i == FSX!Min(mark)
    <3>1. i \in mark
      <4>1. mark \in SUBSET Nat
        BY <2>2
      <4> HIDE DEF mark
      <4> QED
        BY <2>5, <4>1, MinOfNat
    <3>2. slot = Probe(h, p, i)
      BY <2>5
    <3> HIDE DEF i
    <3>3. i \in 0 .. end - 1 /\ t.tab[slot] = DELETED
      BY <3>1, <3>2
    <3> HIDE DEF slot, mark, put
    <3>4. slot \in 0 .. p - 1
      <4>1. i \in Nat
        BY <2>2, <3>3
      <4> QED
        BY <1>2, <1>3, <3>2, <4>1, ProbeIsSlot
    <3>5. Reached(t.tab, p, h, slot)
      <4>1. i \in 0 .. p - 1 /\ 0 .. i - 1 \subseteq 0 .. end - 1
        BY <1>2, <2>2, <3>3
      <4> QED
        BY <2>2, <3>2, <4>1 DEF Reached
    <3>6. Stored(t.tab, p, slot, k, new)
      BY <1>1, <1>2, <1>10, <3>3, <3>4, <3>5, StoreKey DEF h
    <3> HIDE DEF new
    <3>7. slot \in UsedSlots(t.tab, p) /\ slot \in MarkSlots(t.tab, p)
      BY <1>3, <3>3, <3>4 DEF UsedSlots, MarkSlots
    <3>8. UsedSlots(new, p) = UsedSlots(t.tab, p)
      BY <3>6, <3>7 DEF Stored
    <3>9. Cardinality(MarkSlots(new, p)) = t.marks - 1
      <4>1. Cardinality(MarkSlots(t.tab, p) \ {slot})
               = Cardinality(MarkSlots(t.tab, p)) - 1
        BY <1>5, <3>7, FS_RemoveElement
      <4> QED
        BY <1>1, <3>6, <4>1 DEF Stored
    <3>10. put.used = t.used /\ put.marks = t.marks - 1
      BY <2>3, <2>5
    <3>11. t.used < p
      BY <1>1, <1>2, <1>5
    <3>12. Good(put)
      BY <1>1, <2>3, <3>6, <3>8, <3>9, <3>10, <3>11 DEF Good, Stored, p
    <3> QED
      BY <2>1, <2>3, <3>6, <3>12 DEF HeldBy, Stored, p
  <2> QED
    BY <2>4, <2>5
<1> QED
  BY <1>9, <1>10

(* Clearing slots keeps the table right and takes their elements out. *)
LEMMA ClearGood ==
  ASSUME NEW t, Good(t), NEW S \in SUBSET HeldBy(t),
         t = [tab |-> t.tab, index |-> t.index, used |-> t.used,
              marks |-> t.marks]
  PROVE  /\ Good(Clear(t, S))
         /\ HeldBy(Clear(t, S)) = HeldBy(t) \ S
<1> DEFINE p   == PrimeTab[t.index]
           new == [i \in 0 .. p - 1 |->
                     IF t.tab[i] \in S THEN DELETED ELSE t.tab[i]]
<1>1. /\ t.index \in DOMAIN PrimeTab /\ Sound(t.tab, p)
      /\ t.used = Cardinality(UsedSlots(t.tab, p))
      /\ t.marks = Cardinality(MarkSlots(t.tab, p))
      /\ t.used < p
  BY DEF Good
<1>2. p \in Nat /\ p > 3
  BY <1>1, Primes
<1>3. S \in SUBSET Held(t.tab, p)
  BY DEF HeldBy
<1>4. t.tab \in [0 .. p - 1 -> Contents]
  BY <1>1 DEF Sound
<1>5. Clear(t, S) = [tab |-> new, index |-> t.index, used |-> t.used,
                     marks |-> t.marks + Cardinality(S)]
  <2>1. DOMAIN t.tab = 0 .. p - 1
    BY <1>4
  <2>2. [i \in DOMAIN t.tab |-> IF t.tab[i] \in S THEN DELETED ELSE t.tab[i]]
           = new
    BY <2>1
  <2> HIDE DEF new
  <2>3. Clear(t, S) = [t EXCEPT !.tab = new, !.marks = @ + Cardinality(S)]
    BY <2>2 DEF Clear
  <2> QED
    BY <2>3
<1> HIDE DEF p
<1>6. /\ EMPTY \notin Keys /\ DELETED \notin Keys /\ EMPTY # DELETED
      /\ S \subseteq Keys /\ S \cap {EMPTY, DELETED} = {}
  <2>1. EMPTY \notin Keys /\ DELETED \notin Keys /\ EMPTY # DELETED
    BY TabAssumption
  <2>2. \A x \in S : x \in Contents /\ x # EMPTY /\ x # DELETED
    BY <1>3, <1>4 DEF Held
  <2> QED
    BY <2>1, <2>2 DEF Contents
<1>7. /\ new \in [0 .. p - 1 -> Contents]
      /\ \A i \in 0 .. p - 1 :
            new[i] = IF t.tab[i] \in S THEN DELETED ELSE t.tab[i]
  BY <1>4 DEF Contents
<1> HIDE DEF new
<1>8. UsedSlots(new, p) = UsedSlots(t.tab, p)
  BY <1>6, <1>7 DEF UsedSlots
<1>9. MarkSlots(new, p) = MarkSlots(t.tab, p) \union SlotsOf(t.tab, p, S)
  BY <1>6, <1>7 DEF MarkSlots, SlotsOf
<1>10. MarkSlots(t.tab, p) \cap SlotsOf(t.tab, p, S) = {}
  BY <1>6 DEF MarkSlots, SlotsOf
<1>11. Held(new, p) = Held(t.tab, p) \ S
  BY <1>6, <1>7 DEF Held
<1>12. Once(new, p)
  BY <1>1, <1>6, <1>7 DEF Sound, Once
<1>13. OnPath(new, p)
  <2>1. ASSUME NEW x \in 0 .. p - 1, new[x] \in Keys
        PROVE  Reached(new, p, HashOf[new[x]], x)
    <3>1. new[x] = t.tab[x]
      BY <1>6, <1>7, <2>1
    <3> DEFINE h == HashOf[new[x]]
    <3>2. h \in Nat
      BY <2>1, TabAssumption
    <3>3. PICK i \in 0 .. p - 1 :
             /\ Probe(h, p, i) = x
             /\ \A j \in 0 .. i - 1 : t.tab[Probe(h, p, j)] # EMPTY
      BY <1>1, <2>1, <3>1 DEF Sound, OnPath, Reached
    <3> HIDE DEF h
    <3>4. ASSUME NEW j \in 0 .. i - 1 PROVE new[Probe(h, p, j)] # EMPTY
      <4>1. j \in Nat
        OBVIOUS
      <4>2. Probe(h, p, j) \in 0 .. p - 1
        BY <1>2, <3>2, <4>1, ProbeIsSlot
      <4> QED
        BY <1>6, <1>7, <3>3, <4>2
    <3> QED
      BY <3>3, <3>4 DEF Reached, h
  <2> QED
    BY <2>1 DEF OnPath
<1>14. Cardinality(MarkSlots(new, p)) = t.marks + Cardinality(S)
  <2>1. IsFiniteSet(S) /\ Cardinality(SlotsOf(t.tab, p, S)) = Cardinality(S)
    BY <1>1, <1>2, <1>3, CountSlots
  <2>2. IsFiniteSet(SlotsOf(t.tab, p, S))
    <3>1. IsFiniteSet(0 .. p - 1)
      BY <1>2, FS_Interval
    <3>2. SlotsOf(t.tab, p, S) \in SUBSET (0 .. p - 1)
      BY DEF SlotsOf
    <3> QED
      BY <3>1, <3>2, FS_Subset
  <2>3. IsFiniteSet(MarkSlots(t.tab, p)) /\ t.marks \in Nat
    BY <1>1, <1>2, SlotsFinite
  <2>4. Cardinality(S) \in Nat
    BY <2>1, FS_CardinalityType
  <2>5. Cardinality({}) = 0
    BY FS_EmptySet
  <2> QED
    BY <1>1, <1>9, <1>10, <2>1, <2>2, <2>3, <2>4, <2>5, FS_Union
<1> DEFINE c == [tab |-> new, index |-> t.index, used |-> t.used,
                 marks |-> t.marks + Cardinality(S)]
<1>15. /\ c.tab = new /\ c.index = t.index /\ c.used = t.used
       /\ c.marks = t.marks + Cardinality(S)
  OBVIOUS
<1>16. Clear(t, S) = c
  BY <1>5
<1> HIDE DEF c
<1>17. Good(c)
  BY <1>1, <1>7, <1>8, <1>12, <1>13, <1>14, <1>15 DEF Good, Sound, p
<1>18. HeldBy(c) = HeldBy(t) \ S
  BY <1>11, <1>15 DEF HeldBy, p
<1> QED
  BY <1>16, <1>17, <1>18

-----------------------------------------------------------------------------
(* The rebuilding of a table. *)

(* The elements are counted by the counters, and fit the largest table. *)
LEMMA CountElements ==
  ASSUME Good(Table)
  PROVE  /\ Live = Held(entries, Size) /\ Live \subseteq Keys
         /\ IsFiniteSet(Live) /\ Elements = Cardinality(Live)
         /\ Elements \in Nat /\ Elements <= Cardinality(Keys)
         /\ n_elements \in Nat /\ n_deleted \in 0 .. n_elements
         /\ Size \in Nat /\ Size > 3
<1>1. /\ size_index \in DOMAIN PrimeTab /\ Sound(entries, Size)
      /\ n_elements = Cardinality(UsedSlots(entries, Size))
      /\ n_deleted = Cardinality(MarkSlots(entries, Size))
  BY DEF Good, Table, Size
<1>2. Size \in Nat /\ Size > 3
  BY <1>1, Primes DEF Size
<1>3. Live = Held(entries, Size)
  BY DEF Live, Held, Slots
<1>4. Live \subseteq Keys
  BY <1>1, <1>3 DEF Held, Sound, Contents
<1>5. IsFiniteSet(Live)
      /\ Cardinality(SlotsOf(entries, Size, Live)) = Cardinality(Live)
  BY <1>1, <1>2, <1>3, CountSlots
<1>6. SlotsOf(entries, Size, Live)
         = UsedSlots(entries, Size) \ MarkSlots(entries, Size)
  BY <1>3 DEF SlotsOf, UsedSlots, MarkSlots, Held
<1>7. /\ IsFiniteSet(UsedSlots(entries, Size))
      /\ n_elements \in Nat /\ n_deleted \in Nat /\ n_deleted <= n_elements
      /\ MarkSlots(entries, Size) \subseteq UsedSlots(entries, Size)
  BY <1>1, <1>2, SlotsFinite
<1>8. UsedSlots(entries, Size) \cap MarkSlots(entries, Size)
         = MarkSlots(entries, Size)
  BY <1>7
<1>9. Elements = Cardinality(Live)
  <2> DEFINE U == UsedSlots(entries, Size)
             M == MarkSlots(entries, Size)
  <2>1. Cardinality(U \ M) = Cardinality(U) - Cardinality(U \cap M)
    <3> HIDE DEF U, M
    <3>1. IsFiniteSet(U)
      BY <1>7 DEF U
    <3> QED
      BY <3>1, FS_Difference
  <2> QED
    BY <1>1, <1>5, <1>6, <1>8, <2>1 DEF Elements
<1>10. Cardinality(Live) <= Cardinality(Keys)
  BY <1>4, FS_Subset, TabAssumption
<1>11. Elements \in Nat
  BY <1>5, <1>9, FS_CardinalityType
<1> QED
  BY <1>2, <1>3, <1>4, <1>5, <1>7, <1>9, <1>10, <1>11

(* A rebuilt table has at least two slots for every element. *)
LEMMA NewIndexFits ==
  ASSUME Good(Table)
  PROVE  NewIndex \in DOMAIN PrimeTab /\ 2 * Elements <= PrimeTab[NewIndex]
<1>1. /\ Elements \in Nat /\ Elements <= Cardinality(Keys)
      /\ Size \in Nat /\ size_index \in DOMAIN PrimeTab
  BY CountElements DEF Good, Table
<1>2. Elements * 2 \in Nat /\ Elements * 2 = 2 * Elements
  BY <1>1
<1>3. Reaches(Elements * 2)
  <2>1. /\ 2 * Cardinality(Keys) \in Nat /\ Reaches(2 * Cardinality(Keys))
        /\ Cardinality(Keys) \in Nat
    BY TabAssumption, FS_CardinalityType
  <2>2. PICK i \in DOMAIN PrimeTab : 2 * Cardinality(Keys) <= PrimeTab[i]
    BY <2>1 DEF Reaches
  <2>3. PrimeTab[i] \in Nat
    BY Primes
  <2>4. Elements * 2 <= PrimeTab[i]
    BY <1>1, <2>1, <2>2, <2>3
  <2> QED
    BY <2>4 DEF Reaches
<1>4. CASE NewIndex = HigherPrimeIndex(Elements * 2)
  BY <1>2, <1>3, <1>4, HigherPrime
<1>5. CASE NewIndex = size_index /\ ~(Elements * 2 > Size)
  BY <1>1, <1>2, <1>5 DEF Size
<1> QED
  BY <1>4, <1>5 DEF NewIndex

(* The table after one more slot of the old one. *)
PlaceNext(n, tab) == IF entries[n - 1] \in Keys
                     THEN Place(entries[n - 1], tab) ELSE tab

(* The function Placed is defined: by its values up to m for every m. *)
LEMMA PlacedUpTo ==
  ASSUME NEW m \in Nat
  PROVE  \E f : f = [n \in 0 .. m |->
                       IF n = 0 THEN EmptyTable(PrimeTab[NewIndex])
                                ELSE PlaceNext(n, f[n - 1])]
<1> DEFINE E == EmptyTable(PrimeTab[NewIndex])
           P(k, f) == f = [n \in 0 .. k |-> IF n = 0 THEN E
                                            ELSE PlaceNext(n, f[n - 1])]
           S == {k \in Nat : ~ \E f : P(k, f)}
<1> HIDE DEF E
<1>1. CASE S = {}
  BY <1>1 DEF E
<1>2. CASE S # {}
  <2>1. PICK k \in S : \A y \in S : k <= y
    <3>1. S \in SUBSET Nat
      OBVIOUS
    <3> HIDE DEF S
    <3> QED
      BY <1>2, <3>1, LeastNat
  <2>2. k \in Nat /\ ~ \E f : P(k, f)
    OBVIOUS
  <2>3. k # 0
    <3> DEFINE f0 == [n \in 0 .. 0 |-> E]
    <3>1. P(0, f0)
      OBVIOUS
    <3> QED
      BY <2>2, <3>1
  <2>4. k - 1 \in Nat /\ k - 1 \notin S
    BY <2>1, <2>2, <2>3
  <2>5. PICK g : P(k - 1, g)
    BY <2>4
  <2> DEFINE f == [n \in 0 .. k |-> IF n = k THEN PlaceNext(k, g[k - 1])
                                             ELSE g[n]]
  <2>6. ASSUME NEW n \in 0 .. k
        PROVE  f[n] = IF n = 0 THEN E ELSE PlaceNext(n, f[n - 1])
    <3>1. CASE n = k
      <4>1. f[k] = PlaceNext(k, g[k - 1]) /\ k - 1 \in 0 .. k /\ k - 1 # k
        BY <2>2, <2>3
      <4>2. f[k - 1] = g[k - 1]
        BY <4>1
      <4> QED
        BY <2>3, <3>1, <4>1, <4>2
    <3>2. CASE n # k
      <4>1. n \in 0 .. k - 1 /\ f[n] = g[n]
        BY <2>2, <3>2
      <4>2. g[n] = IF n = 0 THEN E ELSE PlaceNext(n, g[n - 1])
        BY <2>5, <4>1
      <4>3. n # 0 => n - 1 \in 0 .. k /\ n - 1 # k
        BY <2>2, <4>1
      <4>4. n # 0 => f[n - 1] = g[n - 1]
        BY <4>3
      <4> QED
        BY <4>1, <4>2, <4>4
    <3> QED
      BY <3>1, <3>2
  <2>7. f = [n \in 0 .. k |-> f[n]]
    OBVIOUS
  <2> HIDE DEF f
  <2>8. P(k, f)
    BY <2>6, <2>7
  <2> QED
    BY <2>2, <2>8
<1> QED
  BY <1>1, <1>2

(* What Placed is after no slot, and after one more. *)
LEMMA PlacedSteps ==
  ASSUME Size \in Nat
  PROVE  /\ Placed[0] = EmptyTable(PrimeTab[NewIndex])
         /\ \A n \in 1 .. Size : Placed[n] = PlaceNext(n, Placed[n - 1])
<1>1. Placed = [n \in 0 .. Size |->
                  IF n = 0 THEN EmptyTable(PrimeTab[NewIndex])
                           ELSE PlaceNext(n, Placed[n - 1])]
  <2>1. \E f : f = [n \in 0 .. Size |->
                       IF n = 0 THEN EmptyTable(PrimeTab[NewIndex])
                                ELSE PlaceNext(n, f[n - 1])]
    BY PlacedUpTo
  <2> QED
    BY <2>1 DEF Placed, PlaceNext
<1> QED
  BY <1>1

(* After n slots of the old table, the new one holds their elements. *)
KeySlots(n) == {i \in 0 .. n - 1 : entries[i] \in Keys}

RightAfter(n) ==
    LET p == PrimeTab[NewIndex]
    IN  /\ Sound(Placed[n], p)
        /\ MarkSlots(Placed[n], p) = {}
        /\ Held(Placed[n], p) = {entries[i] : i \in KeySlots(n)}
        /\ Cardinality(UsedSlots(Placed[n], p)) = Cardinality(KeySlots(n))

(* There are as many slots with an element as elements. *)
LEMMA KeySlotsCounted ==
  ASSUME Good(Table)
  PROVE  /\ \A n \in 0 .. Size : IsFiniteSet(KeySlots(n))
         /\ \A n \in 0 .. Size : KeySlots(n) \subseteq KeySlots(Size)
         /\ Cardinality(KeySlots(Size)) = Elements
         /\ {entries[i] : i \in KeySlots(Size)} = Live
<1>1. /\ Live = Held(entries, Size) /\ Elements = Cardinality(Live)
      /\ Live \subseteq Keys /\ Size \in Nat /\ Sound(entries, Size)
  BY CountElements DEF Good, Table, Size
<1>2. KeySlots(Size) = SlotsOf(entries, Size, Live)
  <2>1. EMPTY \notin Keys /\ DELETED \notin Keys
    BY TabAssumption
  <2> QED
    BY <1>1, <2>1 DEF KeySlots, SlotsOf, Held
<1>3. Cardinality(KeySlots(Size)) = Elements
  BY <1>1, <1>2, CountSlots
<1>4. ASSUME NEW n \in 0 .. Size
      PROVE  IsFiniteSet(KeySlots(n)) /\ KeySlots(n) \subseteq KeySlots(Size)
  <2>1. KeySlots(n) \in SUBSET (0 .. n - 1)
    BY DEF KeySlots
  <2>2. IsFiniteSet(0 .. n - 1)
    BY <1>1, FS_Interval
  <2>3. KeySlots(n) \subseteq KeySlots(Size)
    BY <1>1 DEF KeySlots
  <2> QED
    BY <2>1, <2>2, <2>3, FS_Subset
<1>5. {entries[i] : i \in KeySlots(Size)} = Live
  BY <1>1, <1>2 DEF SlotsOf, Held
<1> QED
  BY <1>3, <1>4, <1>5

(* One slot of the old table. *)
LEMMA PlaceRight ==
  ASSUME Good(Table), NEW n \in 1 .. Size, RightAfter(n - 1)
  PROVE  RightAfter(n)
<1> DEFINE p   == PrimeTab[NewIndex]
           tab == Placed[n - 1]
           x   == entries[n - 1]
           K   == KeySlots(n - 1)
<1>1. /\ Size \in Nat /\ Elements \in Nat /\ NewIndex \in DOMAIN PrimeTab
      /\ 2 * Elements <= p /\ Sound(entries, Size)
  BY CountElements, NewIndexFits DEF Good, Table, Size
<1>2. p \in Nat /\ p > 3 /\ IsPrime(p)
  BY <1>1, Primes
<1>3. /\ Sound(tab, p) /\ MarkSlots(tab, p) = {}
      /\ Held(tab, p) = {entries[i] : i \in K}
      /\ Cardinality(UsedSlots(tab, p)) = Cardinality(K)
  BY DEF RightAfter
<1>4. Placed[n] = PlaceNext(n, tab)
  BY <1>1, PlacedSteps
<1>5. n - 1 \in 0 .. Size - 1 /\ n - 1 \in 0 .. Size /\ n \in 0 .. Size
  BY <1>1
<1>6. K = {i \in 0 .. n - 2 : entries[i] \in Keys}
  <2>1. (n - 1) - 1 = n - 2
    BY <1>5
  <2> QED
    BY <2>1 DEF KeySlots
<1>7. KeySlots(n) = IF x \in Keys THEN K \union {n - 1} ELSE K
  BY <1>5, <1>6 DEF KeySlots
<1>8. n - 1 \notin K /\ IsFiniteSet(K) /\ IsFiniteSet(KeySlots(n))
  BY <1>5, <1>6, KeySlotsCounted
<1> HIDE DEF p, tab, K
<1>9. CASE x \notin Keys
  <2>1. Placed[n] = tab /\ KeySlots(n) = K
    BY <1>4, <1>7, <1>9 DEF PlaceNext
  <2> QED
    BY <1>3, <2>1 DEF RightAfter, p
<1>10. CASE x \in Keys
  <2> DEFINE h == HashOf[x]
             e == FirstProbe(tab, h, p, {EMPTY})
             s == Probe(h, p, e)
  <2>1. Placed[n] = Place(x, tab) /\ KeySlots(n) = K \union {n - 1}
    BY <1>4, <1>7, <1>10 DEF PlaceNext
  <2>2. Cardinality(KeySlots(n)) = Cardinality(K) + 1
    BY <1>8, <2>1, FS_AddElement
  <2>3. Cardinality(KeySlots(n)) <= Elements
    <3>1. KeySlots(n) \in SUBSET KeySlots(Size) /\ IsFiniteSet(KeySlots(Size))
          /\ Cardinality(KeySlots(Size)) = Elements
      BY <1>1, <1>5, KeySlotsCounted
    <3> QED
      BY <3>1, FS_Subset
  <2>4. Cardinality(UsedSlots(tab, p)) < p
    <3>1. Cardinality(K) \in Nat
      BY <1>8, FS_CardinalityType
    <3> QED
      BY <1>1, <1>2, <1>3, <2>2, <2>3, <3>1 DEF p
  <2>5. DOMAIN tab = 0 .. p - 1 /\ Cardinality(DOMAIN tab) = p
    <3>1. DOMAIN tab = 0 .. p - 1
      BY <1>3 DEF Sound
    <3>2. Cardinality(0 .. p - 1) = p
      BY <1>2, FS_Interval
    <3> QED
      BY <3>1, <3>2
  <2>6. Place(x, tab) = [tab EXCEPT ![s] = x]
    BY <2>5 DEF Place
  <2>7. h \in Nat /\ x # EMPTY /\ x # DELETED
    BY <1>10, TabAssumption
  <2> HIDE DEF h
  <2>8. EndsAt(tab, p, h, {EMPTY}, e)
    <3> HIDE DEF e
    <3>1. PICK y \in 0 .. p - 1 : tab[y] = EMPTY
      BY <1>2, <2>4, HasEmptySlot
    <3> QED
      BY <1>2, <2>7, <3>1, SearchEnds DEF e
  <2> HIDE DEF e
  <2>9. s \in 0 .. p - 1 /\ tab[s] = EMPTY /\ Reached(tab, p, h, s)
    <3>1. e \in 0 .. p - 1 /\ tab[s] = EMPTY
          /\ \A j \in 0 .. e - 1 : tab[Probe(h, p, j)] # EMPTY
      BY <2>8 DEF EndsAt
    <3>2. e \in Nat
      BY <3>1
    <3> QED
      BY <1>2, <2>7, <3>1, <3>2, ProbeIsSlot DEF Reached
  <2>10. x \notin Held(tab, p)
    <3>1. \A i \in K : i \in 0 .. Size - 1 /\ i # n - 1
      BY <1>1, <1>5, <1>6
    <3> QED
      BY <1>1, <1>3, <1>5, <1>10, <3>1 DEF Sound, Once
  <2> HIDE DEF s
  <2> DEFINE new == [tab EXCEPT ![s] = x]
  <2>11. Stored(tab, p, s, x, new)
    BY <1>2, <1>3, <1>10, <2>9, <2>10, StoreKey DEF h
  <2>12. Placed[n] = new
    BY <2>1, <2>6
  <2> HIDE DEF new
  <2>13. Held(new, p) = {entries[i] : i \in KeySlots(n)}
    BY <1>3, <2>1, <2>11 DEF Stored
  <2>14. Cardinality(UsedSlots(new, p)) = Cardinality(KeySlots(n))
    <3>1. s \notin UsedSlots(tab, p) /\ IsFiniteSet(UsedSlots(tab, p))
      BY <1>2, <2>9, SlotsFinite DEF UsedSlots
    <3>2. Cardinality(UsedSlots(tab, p) \union {s})
             = Cardinality(UsedSlots(tab, p)) + 1
      BY <3>1, FS_AddElement
    <3> QED
      BY <1>3, <2>2, <2>11, <3>2 DEF Stored
  <2>15. MarkSlots(new, p) = {}
    BY <1>3, <2>11 DEF Stored
  <2> QED
    BY <2>11, <2>12, <2>13, <2>14, <2>15 DEF RightAfter, Stored, p
<1> QED
  BY <1>9, <1>10

(* An empty table is right. *)
LEMMA EmptyRight ==
  ASSUME NEW p \in Nat, p > 3
  PROVE  /\ Sound(EmptyTable(p), p)
         /\ Held(EmptyTable(p), p) = {}
         /\ UsedSlots(EmptyTable(p), p) = {}
         /\ MarkSlots(EmptyTable(p), p) = {}
<1>1. EMPTY \notin Keys /\ EMPTY # DELETED
  BY TabAssumption
<1> QED
  BY <1>1 DEF EmptyTable, Sound, Once, OnPath, Contents, Held, UsedSlots,
              MarkSlots

(* A rebuilt table is right and holds the same elements, with no marks. *)
LEMMA RebuiltRight ==
  ASSUME Good(Table)
  PROVE  Good(Expanded) /\ HeldBy(Expanded) = Live
         /\ Expanded.used = Elements
         /\ 2 * Elements <= PrimeTab[Expanded.index]
<1> DEFINE p == PrimeTab[NewIndex]
           S == {n \in 0 .. Size : ~RightAfter(n)}
<1>1. /\ Size \in Nat /\ Elements \in Nat /\ NewIndex \in DOMAIN PrimeTab
      /\ 2 * Elements <= p
  BY CountElements, NewIndexFits
<1>2. p \in Nat /\ p > 3
  BY <1>1, Primes
<1>3. RightAfter(0)
  <2>1. Placed[0] = EmptyTable(p)
    BY <1>1, PlacedSteps
  <2>2. KeySlots(0) = {}
    BY DEF KeySlots
  <2> HIDE DEF p
  <2> QED
    BY <1>2, <2>1, <2>2, EmptyRight DEF RightAfter, p
<1>4. S = {}
  <2>1. SUFFICES ASSUME S # {} PROVE FALSE
    OBVIOUS
  <2>2. PICK n \in S : \A y \in S : n <= y
    <3>1. S \in SUBSET Nat
      BY <1>1
    <3> HIDE DEF S
    <3> QED
      BY <2>1, <3>1, LeastNat
  <2>3. n \in 0 .. Size /\ ~RightAfter(n)
    OBVIOUS
  <2>4. n \in 1 .. Size /\ n - 1 \in 0 .. Size
    BY <1>1, <1>3, <2>3
  <2>5. RightAfter(n - 1)
    BY <1>1, <2>2, <2>4
  <2> QED
    BY <2>3, <2>4, <2>5, PlaceRight
<1>5. RightAfter(Size)
  BY <1>1, <1>4
<1>6. /\ Sound(Rebuilt, p) /\ MarkSlots(Rebuilt, p) = {}
      /\ Held(Rebuilt, p) = Live
      /\ Cardinality(UsedSlots(Rebuilt, p)) = Elements
  BY <1>5, KeySlotsCounted DEF RightAfter, Rebuilt
<1>7. /\ Expanded.tab = Rebuilt /\ Expanded.index = NewIndex
      /\ Expanded.used = Elements /\ Expanded.marks = 0
  BY DEF Expanded, Elements
<1>8. Cardinality({}) = 0
  BY FS_EmptySet
<1>9. Elements < p
  BY <1>1, <1>2
<1> HIDE DEF p
<1>10. Good(Expanded)
  BY <1>1, <1>6, <1>7, <1>8, <1>9 DEF Good, p
<1> QED
  BY <1>1, <1>6, <1>7, <1>10 DEF HeldBy, p

-----------------------------------------------------------------------------
(* The operations. *)

(* The table as a record. *)
LEMMA TableFacts ==
  /\ Table.tab = entries /\ Table.index = size_index
  /\ Table.used = n_elements /\ Table.marks = n_deleted
  /\ HeldBy(Table) = Live
BY DEF Table, HeldBy, Held, Live, Slots, Size

(* A right table that is stored is the table. *)
LEMMA StoreKeeps ==
  ASSUME NEW t, Good(t), Store(t)
  PROVE  Good(Table)' /\ Live' = HeldBy(t)
<1>1. /\ entries' = t.tab /\ size_index' = t.index
      /\ n_elements' = t.used /\ n_deleted' = t.marks
  BY DEF Store
<1>2. /\ (Table.tab)' = t.tab /\ (Table.index)' = t.index
      /\ (Table.used)' = t.used /\ (Table.marks)' = t.marks
  BY <1>1 DEF Table
<1> QED
  BY <1>1, <1>2 DEF Good, Live, HeldBy, Held, Slots, Size

(* A lookup finds what is in the table. *)
LEMMA FoundRight ==
  ASSUME Good(Table), NEW k \in Keys
  PROVE  Found(k) <=> k \in Live
<1>1. /\ size_index \in DOMAIN PrimeTab /\ Sound(entries, Size)
      /\ Cardinality(UsedSlots(entries, Size)) < Size
  BY TableFacts DEF Good, Size
<1>2. Size \in Nat /\ Size > 3 /\ IsPrime(Size)
  BY <1>1, Primes DEF Size
<1>3. HashOf[k] \in Nat /\ k # EMPTY
  BY TabAssumption
<1> DEFINE e == FirstProbe(entries, HashOf[k], Size, {EMPTY, k})
<1>4. EndsAt(entries, Size, HashOf[k], {EMPTY, k}, e)
  <2> HIDE DEF e
  <2>1. PICK s \in 0 .. Size - 1 : entries[s] = EMPTY
    BY <1>1, <1>2, HasEmptySlot
  <2> QED
    BY <1>2, <1>3, <2>1, SearchEnds DEF e
<1>5. Found(k) <=> entries[Probe(HashOf[k], Size, e)] = k
  BY DEF Found
<1> HIDE DEF e
<1>6. Live = Held(entries, Size)
  BY TableFacts DEF HeldBy, Size
<1>7. /\ k \in Held(entries, Size)
         => entries[Probe(HashOf[k], Size, e)] = k
      /\ k \notin Held(entries, Size)
         => entries[Probe(HashOf[k], Size, e)] = EMPTY
  BY <1>1, <1>2, <1>4, SearchFinds
<1> QED
  BY <1>3, <1>5, <1>6, <1>7

(* htab_find_slot with INSERT, and the store *)
LEMMA InsertStep ==
  ASSUME IInv, NEW k \in Keys, Insert(k)
  PROVE  IInv' /\ Elems!Put(k)
<1> DEFINE t == IF Full THEN Expanded ELSE Table
<1>1. Good(Table) /\ Store(SlotFor(t, k)) /\ UNCHANGED <<answer, crashed>>
  BY DEF IInv, Insert
<1>2. /\ Size \in Nat /\ Size > 3 /\ n_elements \in Nat /\ Elements \in Nat
  BY <1>1, CountElements
<1>3. Good(t) /\ HeldBy(t) = Live /\ t.used + 1 < PrimeTab[t.index]
  <2>1. CASE Full
    <3>1. t = Expanded
      BY <2>1
    <3>2. /\ Good(Expanded) /\ HeldBy(Expanded) = Live
          /\ Expanded.used = Elements
          /\ 2 * Elements <= PrimeTab[Expanded.index]
      BY <1>1, RebuiltRight
    <3>3. PrimeTab[Expanded.index] \in Nat /\ PrimeTab[Expanded.index] > 3
      BY <3>2, Primes DEF Good
    <3> QED
      BY <1>2, <3>1, <3>2, <3>3
  <2>2. CASE ~Full
    <3>1. t = Table
      BY <2>2
    <3>2. Size * 3 > n_elements * 4
      BY <1>2, <2>2 DEF Full
    <3>3. n_elements + 1 < Size
      BY <1>2, <3>2
    <3> QED
      BY <1>1, <3>1, <3>3, TableFacts DEF Size
  <2> QED
    BY <2>1, <2>2
<1> HIDE DEF t
<1>4. Good(SlotFor(t, k)) /\ HeldBy(SlotFor(t, k)) = Live \union {k}
  BY <1>3, SlotForGood
<1>5. Good(Table)' /\ Live' = Live \union {k}
  BY <1>1, <1>4, StoreKeeps
<1> QED
  BY <1>1, <1>5 DEF IInv, Elems!Put

(* htab_find *)
LEMMA FindStep ==
  ASSUME IInv, NEW k \in Keys, Find(k)
  PROVE  IInv' /\ Elems!Look(k)
<1>1. Good(Table) /\ answer' = [key |-> k, found |-> Found(k)]
      /\ UNCHANGED <<entries, size_index, n_elements, n_deleted, crashed>>
  BY DEF IInv, Find
<1>2. Found(k) <=> k \in Live
  BY <1>1, FoundRight
<1>3. Found(k) \in BOOLEAN
  BY DEF Found
<1>4. Found(k) = (k \in Live)
  BY <1>2, <1>3
<1>5. Live' = Live
  BY <1>1 DEF Live, Slots, Size
<1>6. Good(Table)'
  BY <1>1 DEF Good, Table
<1>7. (answer \in [key : Keys \union {NoKey}, found : BOOLEAN])'
  BY <1>1, <1>3
<1> QED
  BY <1>1, <1>4, <1>5, <1>6, <1>7 DEF IInv, Elems!Look

(* htab_clear_slot on the slots of the elements in S. *)
LEMMA ClearStep ==
  ASSUME IInv, NEW t, t = Table \/ t = Expanded, NEW S \in SUBSET Live,
         Store(Clear(t, S)), UNCHANGED <<answer, crashed>>
  PROVE  IInv' /\ Elems!Take(S)
<1>1. Good(t) /\ HeldBy(t) = Live
  BY RebuiltRight, TableFacts DEF IInv
<1>2. t = [tab |-> t.tab, index |-> t.index, used |-> t.used,
           marks |-> t.marks]
  BY DEF Table, Expanded
<1>3. Good(Clear(t, S)) /\ HeldBy(Clear(t, S)) = Live \ S
  BY <1>1, <1>2, ClearGood
<1>4. Good(Table)' /\ Live' = Live \ S
  BY <1>3, StoreKeeps
<1> QED
  BY <1>4 DEF IInv, Elems!Take

(* htab_remove_elt *)
LEMMA RemoveStep ==
  ASSUME IInv, NEW k \in Keys, RemoveElt(k)
  PROVE  IInv' /\ (Elems!Take({k}) \/ UNCHANGED <<Live, answer>>)
<1>1. CASE Found(k)
  <2>1. k \in Live
    BY <1>1, FoundRight DEF IInv
  <2>2. Store(Clear(Table, {k})) /\ UNCHANGED <<answer, crashed>>
    BY <1>1 DEF RemoveElt
  <2> QED
    BY <2>1, <2>2, ClearStep
<1>2. CASE ~Found(k)
  <2>1. Store(Table) /\ crashed' = TRUE /\ UNCHANGED answer
    BY <1>2 DEF RemoveElt
  <2>2. Good(Table)' /\ Live' = Live
    BY <2>1, StoreKeeps, TableFacts DEF IInv
  <2> QED
    BY <2>1, <2>2 DEF IInv
<1> QED
  BY <1>1, <1>2

(* htab_traverse *)
LEMMA TraverseStep ==
  ASSUME IInv, NEW S \in SUBSET Keys, Traverse(S)
  PROVE  IInv' /\ Elems!Take(S)
<1>1. /\ S \in SUBSET Live /\ UNCHANGED <<answer, crashed>>
      /\ Store(Clear(Table, S)) \/ Store(Clear(Expanded, S))
  BY DEF Traverse
<1> QED
  BY <1>1, ClearStep

(* htab_empty *)
LEMMA EmptyStep ==
  ASSUME IInv, Empty
  PROVE  IInv' /\ Elems!Take(Live)
<1> DEFINE i == IF Size > EmptyAbove THEN HigherPrimeIndex(EmptyTo)
                                     ELSE size_index
           t == [tab |-> EmptyTable(PrimeTab[i]), index |-> i,
                 used |-> 0, marks |-> 0]
<1>1. Store(t) /\ UNCHANGED <<answer, crashed>>
  BY DEF Empty
<1>2. i \in DOMAIN PrimeTab
  <2>1. EmptyTo \in Nat /\ Reaches(EmptyTo)
    BY TabAssumption
  <2>2. HigherPrimeIndex(EmptyTo) \in DOMAIN PrimeTab
    BY <2>1, HigherPrime
  <2> QED
    BY <2>2 DEF IInv, Good, Table
<1> HIDE DEF i
<1>3. PrimeTab[i] \in Nat /\ PrimeTab[i] > 3
  BY <1>2, Primes
<1>4. Cardinality({}) = 0
  BY FS_EmptySet
<1>5. Good(t) /\ HeldBy(t) = {}
  BY <1>2, <1>3, <1>4, EmptyRight DEF Good, HeldBy
<1> HIDE DEF t
<1>6. Good(Table)' /\ Live' = {}
  BY <1>1, <1>5, StoreKeeps
<1> QED
  BY <1>1, <1>6 DEF IInv, Elems!Take

(* htab_create_alloc *)
LEMMA InitRight ==
  ASSUME Init
  PROVE  IInv /\ Elems!EInit
<1>1. PICK n \in InitSizes : size_index = HigherPrimeIndex(n)
  BY DEF Init
<1>2. n \in Nat /\ Reaches(n)
  BY TabAssumption
<1>3. size_index \in DOMAIN PrimeTab
  BY <1>1, <1>2, HigherPrime
<1>4. Size \in Nat /\ Size > 3
  BY <1>3, Primes DEF Size
<1>5. entries = EmptyTable(Size) /\ n_elements = 0 /\ n_deleted = 0
  BY DEF Init
<1>6. Cardinality({}) = 0
  BY FS_EmptySet
<1>7. Good(Table)
  BY <1>3, <1>4, <1>5, <1>6, EmptyRight, TableFacts DEF Good, Size
<1>8. Live = {}
  BY <1>4, <1>5, EmptyRight, TableFacts DEF HeldBy, Size
<1> QED
  BY <1>7, <1>8 DEF Init, IInv, Elems!EInit

(* A step keeps the invariant and is a step of the set of elements. *)
LEMMA StepKeeps ==
  ASSUME IInv, [Next]_vars
  PROVE  IInv' /\ [Elems!ENext]_(Elems!evars)
<1>1. ASSUME NEW k \in Keys, Insert(k) PROVE IInv' /\ Elems!ENext
  BY <1>1, InsertStep DEF Elems!ENext
<1>2. ASSUME NEW k \in Keys, Find(k) PROVE IInv' /\ Elems!ENext
  BY <1>2, FindStep DEF Elems!ENext
<1>3. ASSUME NEW k \in Keys, RemoveElt(k)
      PROVE  IInv' /\ [Elems!ENext]_(Elems!evars)
  BY <1>3, RemoveStep DEF Elems!ENext, Elems!evars
<1>4. ASSUME NEW S \in SUBSET Keys, Traverse(S) PROVE IInv' /\ Elems!ENext
  BY <1>4, TraverseStep DEF Elems!ENext
<1>5. ASSUME Empty PROVE IInv' /\ Elems!ENext
  <2>1. Live \in SUBSET Keys
    BY CountElements DEF IInv
  <2> QED
    BY <1>5, <2>1, EmptyStep DEF Elems!ENext
<1>6. ASSUME UNCHANGED vars PROVE IInv' /\ UNCHANGED <<Live, answer>>
  BY <1>6 DEF vars, IInv, Good, Table, Live, Slots, Size
<1> QED
  BY <1>1, <1>2, <1>3, <1>4, <1>5, <1>6 DEF Next, Elems!evars

-----------------------------------------------------------------------------
(* The invariant holds in every state. *)
LEMMA Inductive == Spec => []IInv
<1>1. Init => IInv
  BY InitRight
<1>2. IInv /\ [Next]_vars => IInv'
  BY StepKeeps
<1> QED
  BY <1>1, <1>2, PTL DEF Spec

(* The table and its counters keep their types: no more slots are in use   *)
(* than there are, and no more are marked than are in use.                 *)
THEOREM TableTypes == Spec => []TypeOK
<1>1. IInv => TypeOK
  <2>1. SUFFICES ASSUME IInv PROVE TypeOK
    OBVIOUS
  <2>2. /\ size_index \in DOMAIN PrimeTab /\ Sound(entries, Size)
        /\ n_elements < Size
    BY <2>1, TableFacts DEF IInv, Good, Size
  <2>3. Size \in Nat /\ n_elements \in Nat /\ n_deleted \in 0 .. n_elements
    BY <2>1, CountElements DEF IInv
  <2> QED
    BY <2>1, <2>2, <2>3 DEF TypeOK, IInv, Sound, Contents, Slots
<1> QED
  BY <1>1, Inductive, PTL

(* The counters say what the slots hold and no element is held twice, over *)
(* every reuse of a deletion mark and every rebuild.                       *)
THEOREM CountersExact == Spec => []CountsExact
<1>1. IInv => CountsExact
  <2>1. SUFFICES ASSUME IInv PROVE CountsExact
    OBVIOUS
  <2>2. /\ n_elements = Cardinality(UsedSlots(entries, Size))
        /\ n_deleted = Cardinality(MarkSlots(entries, Size))
    BY <2>1, TableFacts DEF IInv, Good, Size
  <2>3. Elements = Cardinality(Live)
    BY <2>1, CountElements DEF IInv
  <2> QED
    BY <2>2, <2>3 DEF CountsExact, UsedSlots, MarkSlots, Slots
<1> QED
  BY <1>1, Inductive, PTL

(* Every probe loop crosses an empty slot within the size of the table, in *)
(* every table that a long sequence of operations leaves: the size is a    *)
(* prime, so its probes visit every slot.                                  *)
THEOREM ProbesTerminate == Spec => []ProbesEnd
<1>1. IInv => ProbesEnd
  <2>1. SUFFICES ASSUME IInv, NEW k \in Keys
                 PROVE  \E i \in 0 .. Size - 1 :
                           entries[Probe(HashOf[k], Size, i)] = EMPTY
    BY DEF ProbesEnd
  <2>2. /\ size_index \in DOMAIN PrimeTab
        /\ Cardinality(UsedSlots(entries, Size)) < Size
    BY <2>1, TableFacts DEF IInv, Good, Size
  <2>3. Size \in Nat /\ Size > 3 /\ IsPrime(Size) /\ HashOf[k] \in Nat
    BY <2>2, Primes, TabAssumption DEF Size
  <2>4. PICK s \in 0 .. Size - 1 : entries[s] = EMPTY
    BY <2>2, <2>3, HasEmptySlot
  <2>5. PICK i \in 0 .. Size - 1 : Probe(HashOf[k], Size, i) = s
    BY <2>3, ProbesVisitAll
  <2> QED
    BY <2>4, <2>5
<1> QED
  BY <1>1, Inductive, PTL

(* The table implements the set of its elements: what is put in and not    *)
(* taken out is found, and nothing else, whatever collides.                *)
THEOREM Refinement == Spec => ImplementsSet
<1>1. Init => Elems!EInit
  BY InitRight
<1>2. IInv /\ [Next]_vars => [Elems!ENext]_(Elems!evars)
  BY StepKeeps
<1> QED
  BY <1>1, <1>2, Inductive, PTL DEF Spec, ImplementsSet, Elems!ESpec
=============================================================================
