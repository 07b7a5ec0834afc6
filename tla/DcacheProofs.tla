---------------------------- MODULE DcacheProofs ----------------------------
(***************************************************************************)
(* Proofs about Dcache for every cache and line size, memory, target map   *)
(* and set of user regions.                                                *)
(*                                                                         *)
(* CoherentWhileSynced and DirtyTracked are not inductive: that a write of *)
(* a line leaves no byte behind rests on every dirty byte being in memory  *)
(* that may be written, which rests on the bytes of an access being all in *)
(* the region of its first byte, which rests on the regions being apart.   *)
(***************************************************************************)
EXTENDS Dcache, FiniteSetTheorems, SequenceTheorems, WellFoundedInduction,
        TLAPS

(* No region begins in another. *)
StartsApart == \A r, s \in regions : r # s => ~Within(s.lo, r)

(* Lines begin at multiples of their size, and each is held once. *)
LinesInv == \A i \in DOMAIN valid : valid[i].addr % LineSize = 0
OnceInv  == \A i, j \in DOMAIN valid : valid[i].addr = valid[j].addr => i = j

(* The access in progress is within the memory and, when it writes, within *)
(* what may be written through the cache.                                  *)
OpInv ==
    /\ pc = "byte" => /\ at \in op.from .. op.to /\ op.to <= Top
                      /\ op.write => \A x \in op.from .. op.to - 1 : CanWrite(x)
    /\ pc = "writeback" => at \in 1 .. Len(valid) + 1
    /\ pc \in {"byte", "writeback"} => Top # 0

(* A line agrees with memory m where it says so; its dirty bytes may be    *)
(* written, and it is marked when it has any.                              *)
Fresh(b, m) == \A a \in Bytes(b) :
                  State(b, a) = "OK" /\ CanRead(a) => Data(b, a) = m[a]
Marked(b) == /\ \A a \in DirtyBytes(b) : CanWrite(a)
             /\ DirtyBytes(b) # {} => b.anydirty

SyncInv == synced => \A i \in DOMAIN valid :
                        Fresh(valid[i], memory) /\ Marked(valid[i])

IInv == TypeOK /\ StartsApart /\ LinesInv /\ OnceInv /\ OpInv /\ SyncInv

-----------------------------------------------------------------------------
(* Numbers. *)

(* A set of natural numbers has a least element. *)
LEMMA LeastNat ==
  ASSUME NEW S \in SUBSET Nat, S # {}
  PROVE  \E x \in S : \A y \in S : x <= y
<1>1. IsWellFoundedOn(OpToRel(<, Nat), Nat)
  BY NatLessThanWellFounded
<1>2. PICK x \in S : \A y \in S : ~(<<y, x>> \in OpToRel(<, Nat))
  BY <1>1, WFMin
<1>3. ASSUME NEW y \in S PROVE x <= y
  <2>1. ~(y < x)
    BY <1>2 DEF OpToRel
  <2> QED
    BY <2>1
<1> QED
  BY <1>3

(* The smallest address of an access is one of its addresses. *)
LEMMA SmallestIn ==
  ASSUME NEW S \in SUBSET Nat, S # {}
  PROVE  Smallest(S) \in S /\ \A y \in S : Smallest(S) <= y
BY LeastNat DEF Smallest

(* An access stays below the end of memory. *)
LEMMA AccessBounds ==
  ASSUME NEW S \in Accesses
  PROVE  /\ Smallest(S) \in Addresses
         /\ Cardinality(S) \in Nat
         /\ Smallest(S) + Cardinality(S) <= Top
         /\ Top # 0
<1> DEFINE low == Smallest(S)
<1>1. S \subseteq Addresses /\ S # {} /\ Top \in Nat
  BY DcacheAssumption DEF Addresses
<1>2. low \in S /\ \A y \in S : low <= y
  BY <1>1, SmallestIn DEF Addresses
<1> HIDE DEF low
<1>3. low \in Nat /\ low <= Top - 1
  BY <1>1, <1>2 DEF Addresses
<1>4. S \subseteq low .. Top - 1
  BY <1>1, <1>2, <1>3 DEF Addresses
<1>5. /\ IsFiniteSet(low .. Top - 1)
      /\ Cardinality(low .. Top - 1) = Top - 1 - low + 1
  BY <1>1, <1>3, FS_Interval
<1>6. IsFiniteSet(S) /\ Cardinality(S) <= Cardinality(low .. Top - 1)
  BY <1>4, <1>5, FS_Subset
<1>7. Cardinality(S) \in Nat
  BY <1>6, FS_CardinalityType
<1>8. low + Cardinality(S) <= Top
  BY <1>1, <1>3, <1>5, <1>6, <1>7
<1> QED
  BY <1>1, <1>2, <1>3, <1>7, <1>8 DEF low, Addresses

(* The remainder of a division is the only one in its range. *)
LEMMA ModUnique ==
  ASSUME NEW k \in Int, NEW c \in Nat \ {0}, NEW q \in Int, NEW r \in Int,
         0 <= r, r < c, k = c * q + r
  PROVE  r = k % c
OBVIOUS

(* A division. *)
LEMMA Division ==
  ASSUME NEW k \in Nat, NEW c \in Nat \ {0}
  PROVE  /\ k \div c \in Nat /\ k % c \in 0 .. c - 1
         /\ k = c * (k \div c) + (k % c)
OBVIOUS

(* The addresses of a line, from the address where it begins. *)
LEMMA LineAddresses ==
  ASSUME NEW x \in Nat, x % LineSize = 0, NEW o \in Offsets
  PROVE  (x + o) % LineSize = o
<1> DEFINE q == x \div LineSize
<1>1. q \in Nat /\ x = LineSize * q
  BY DcacheAssumption, Division
<1> HIDE DEF q
<1>2. x + o = LineSize * q + o
  BY <1>1
<1>3. o \in Nat /\ o < LineSize /\ LineSize \in Nat \ {0}
  BY DcacheAssumption DEF Offsets
<1>4. o = (x + o) % LineSize
  BY <1>1, <1>2, <1>3, ModUnique
<1> QED
  BY <1>4

(* The line of an address begins at a multiple of the line size and holds  *)
(* the address.                                                            *)
LEMMA LineOf ==
  ASSUME NEW a \in Nat
  PROVE  /\ Line(a) \in Nat /\ Line(a) % LineSize = 0
         /\ Line(a) <= a /\ a < Line(a) + LineSize
<1> DEFINE q == a \div LineSize
           r == a % LineSize
<1>1. /\ q \in Nat /\ r \in 0 .. LineSize - 1 /\ a = LineSize * q + r
      /\ LineSize \in Nat \ {0}
  BY DcacheAssumption, Division
<1>2. Line(a) = a - r
  BY DEF Line
<1> HIDE DEF q, r
<1>3. Line(a) = LineSize * q + 0 /\ LineSize * q \in Nat
  BY <1>1, <1>2
<1>4. \A l \in Int : l = LineSize * q + 0 => 0 = l % LineSize
  BY <1>1, ModUnique
<1> QED
  BY <1>1, <1>2, <1>3, <1>4

(* Two lines are the same or have no address in common. *)
LEMMA LinesApart ==
  ASSUME NEW x \in Nat, NEW y \in Nat, x % LineSize = 0, y % LineSize = 0,
         NEW a \in Nat, x <= a, a < x + LineSize, y <= a, a < y + LineSize
  PROVE  x = y
<1>1. a - x \in Offsets /\ a - y \in Offsets
  BY DcacheAssumption DEF Offsets
<1>2. a % LineSize = a - x
  <2>1. (x + (a - x)) % LineSize = a - x
    BY <1>1, LineAddresses
  <2> QED
    BY <2>1
<1>3. a % LineSize = a - y
  <2>1. (y + (a - y)) % LineSize = a - y
    BY <1>1, LineAddresses
  <2> QED
    BY <2>1
<1> QED
  BY <1>2, <1>3

(* A line that begins in memory ends in memory. *)
LEMMA LineInMemory ==
  ASSUME NEW x \in Addresses, x % LineSize = 0
  PROVE  x + LineSize <= Top
<1> DEFINE q == x \div LineSize
           p == Top \div LineSize
<1>1. /\ x \in Nat /\ Top \in Nat /\ x < Top
      /\ LineSize \in Nat \ {0} /\ Top % LineSize = 0
  BY DcacheAssumption DEF Addresses
<1>2. q \in Nat /\ p \in Nat /\ x = LineSize * q /\ Top = LineSize * p
  BY <1>1, Division
<1> HIDE DEF q, p
<1>3. q < p
  <2> SUFFICES ASSUME p <= q PROVE FALSE
    BY <1>2
  <2>1. PICK d \in Nat : q = p + d
    <3>1. q - p \in Nat /\ q = p + (q - p)
      BY <1>2
    <3> QED
      BY <3>1
  <2>2. x = LineSize * p + LineSize * d /\ LineSize * d \in Nat
    BY <1>1, <1>2, <2>1
  <2> QED
    BY <1>1, <1>2, <2>2
<1>4. PICK d \in Nat : p = q + 1 + d
  <2>1. p - q - 1 \in Nat /\ p = q + 1 + (p - q - 1)
    BY <1>2, <1>3
  <2> QED
    BY <2>1
<1>5. Top = LineSize * q + LineSize + LineSize * d /\ LineSize * d \in Nat
  BY <1>1, <1>2, <1>4
<1> QED
  BY <1>1, <1>2, <1>5

-----------------------------------------------------------------------------
(* Regions. *)

(* Regions that begin outside each other have no address in common. *)
LEMMA ApartEverywhere ==
  ASSUME TypeOK, StartsApart, NEW r \in regions, NEW s \in regions,
         NEW a \in Nat, Within(a, r), Within(a, s)
  PROVE  r = s
<1>1. /\ r.lo \in Nat /\ r.hi \in Nat /\ s.lo \in Nat /\ s.hi \in Nat
  BY DEF TypeOK, Regions
<1>2. CASE r.lo <= s.lo
  BY <1>1, <1>2 DEF StartsApart, Within
<1>3. CASE s.lo <= r.lo
  BY <1>1, <1>3 DEF StartsApart, Within
<1> QED
  BY <1>1, <1>2, <1>3

(* What lookup_mem_region finds. *)
LEMMA RegionFound ==
  ASSUME TypeOK, StartsApart, NEW r \in regions, r.enabled,
         NEW a \in Nat, Within(a, r)
  PROVE  Region(a) = r
<1>1. \A s \in {t \in regions : t.enabled} : Within(a, s) => s = r
  BY ApartEverywhere
<1> QED
  BY <1>1 DEF Region

(* A region with a cache is one that someone defined. *)
LEMMA CachedRegion ==
  ASSUME TypeOK, NEW a \in Nat, Region(a).mode # "NONE"
  PROVE  \/ regions = {} /\ ~Region(a).cache
         \/ /\ Region(a) \in regions /\ Region(a).enabled
            /\ Within(a, Region(a))
<1> DEFINE enabled == {r \in regions : r.enabled}
<1>1. CASE \E r \in enabled : Within(a, r)
  <2>1. Region(a) = CHOOSE r \in enabled : Within(a, r)
    BY <1>1 DEF Region
  <2> QED
    BY <1>1, <2>1
<1>2. CASE ~\E r \in enabled : Within(a, r)
  <2>1. /\ Region(a).mode = IF regions = {} THEN "RW" ELSE "NONE"
        /\ Region(a).cache = FALSE
    BY <1>2 DEF Region
  <2> QED
    BY <2>1
<1> QED
  BY <1>1, <1>2

(* The caching of an address depends on the regions alone. *)
LEMMA SameRegions ==
  ASSUME regions' = regions
  PROVE  \A a : /\ Region(a)' = Region(a)
                /\ CanRead(a)' <=> CanRead(a)
                /\ CanWrite(a)' <=> CanWrite(a)
BY DEF Region, CanRead, CanWrite

-----------------------------------------------------------------------------
(* Lines. *)

(* A block of the cache. *)
Aligned(b) == b \in Blocks /\ b.addr % LineSize = 0

(* A line's bytes are addresses of the memory, and an offset in the line   *)
(* for each of them.                                                       *)
LEMMA BytesOf ==
  ASSUME NEW b, Aligned(b)
  PROVE  /\ b.addr \in Nat
         /\ \A a \in Bytes(b) : /\ a \in Addresses /\ a \in Nat
                                /\ a % LineSize \in Offsets
                                /\ a = b.addr + (a % LineSize)
         /\ \A o \in Offsets : /\ b.addr + o \in Bytes(b)
                               /\ (b.addr + o) % LineSize = o
                               /\ b.addr + o \in Addresses
<1>1. /\ b.addr \in Addresses /\ b.addr \in Nat /\ b.addr % LineSize = 0
      /\ LineSize \in Nat \ {0} /\ Top \in Nat
  BY DcacheAssumption DEF Aligned, Blocks, Addresses
<1>2. b.addr + LineSize <= Top
  BY <1>1, LineInMemory
<1>3. \A o \in Offsets : (b.addr + o) % LineSize = o
  BY <1>1, LineAddresses
<1>4. \A o \in Offsets : /\ b.addr + o \in Bytes(b)
                         /\ b.addr + o \in Addresses
  BY <1>1, <1>2 DEF Bytes, Offsets, Addresses
<1>5. ASSUME NEW a \in Bytes(b)
      PROVE  /\ a \in Addresses /\ a \in Nat
             /\ a % LineSize \in Offsets
             /\ a = b.addr + (a % LineSize)
  <2>1. /\ a \in Nat /\ a - b.addr \in Offsets /\ a \in Addresses
        /\ b.addr + (a - b.addr) = a
    BY <1>1, <1>2 DEF Bytes, Offsets, Addresses
  <2>2. a % LineSize = a - b.addr
    BY <1>3, <2>1
  <2> QED
    BY <2>1, <2>2
<1> QED
  BY <1>1, <1>3, <1>4, <1>5

(* The bytes of a line have values and states. *)
LEMMA ByteTypes ==
  ASSUME NEW b, Aligned(b), NEW a \in Bytes(b)
  PROVE  /\ Data(b, a) \in Values
         /\ State(b, a) \in {"BAD", "DIRTY", "OK"}
<1>1. a % LineSize \in Offsets
  BY BytesOf
<1> QED
  BY <1>1 DEF Aligned, Blocks, Data, State

(* What dcache_write_line does to a line b and to memory: only dirty bytes *)
(* of the line are written, each with its own value; a byte becomes clean  *)
(* only by being written; and when all of it worked and the bytes could be *)
(* written at all, no byte is dirty any more.                              *)
Written(b, w) ==
    /\ w.memory \in [Addresses -> Values]
    /\ Aligned(w.block) /\ w.block.addr = b.addr
    /\ \A a \in Addresses :
          \/ w.memory[a] = memory[a]
          \/ a \in DirtyBytes(b) /\ w.memory[a] = Data(b, a)
    /\ \A a \in Bytes(b) :
          /\ Data(w.block, a) = Data(b, a)
          /\ \/ State(w.block, a) = State(b, a)
             \/ /\ State(b, a) = "DIRTY" /\ State(w.block, a) = "OK"
                /\ w.memory[a] = Data(b, a)
    /\ Marked(b) => Marked(w.block)
    /\ Marked(b) /\ w.ok => /\ DirtyBytes(w.block) = {}
                            /\ \A a \in DirtyBytes(b) : w.memory[a] = Data(b, a)

(* Whatever part of the bytes was written. *)
LEMMA WriteOutcome ==
  ASSUME TypeOK, NEW b, Aligned(b), NEW w, w \subseteq ToWrite(b),
         NEW r, r = Outcome(b, w)
  PROVE  Written(b, r)
<1> DEFINE todo == ToWrite(b)
           run == [a \in Bytes(b) |-> RunOf(b, a)]
<1>0. /\ r.ok = (w = todo)
      /\ r.memory = [a \in Addresses |-> IF a \in w THEN Data(b, a)
                                                    ELSE memory[a]]
      /\ r.block = [addr |-> b.addr, data |-> b.data,
                    state |-> [o \in Offsets |->
                       IF b.addr + o \in w /\ run[b.addr + o] \subseteq w
                       THEN "OK" ELSE b.state[o]],
                    anydirty |-> (w # todo)]
  BY BytesOf DEF Outcome
<1>a. /\ todo = {a \in DirtyBytes(b) : CanWrite(a)} /\ w \subseteq todo
      /\ \A a \in todo : run[a] \subseteq todo
  BY DEF ToWrite, RunOf, DirtyBytes
<1> HIDE DEF todo, run
<1> DEFINE nb == r.block
<1>1. /\ b.addr \in Addresses /\ b.data \in [Offsets -> Values]
      /\ b.state \in [Offsets -> {"BAD", "DIRTY", "OK"}]
      /\ b.addr % LineSize = 0
  BY DEF Aligned, Blocks
<1>2. /\ nb.addr = b.addr /\ nb.data = b.data /\ nb.anydirty = (w # todo)
      /\ nb.state = [o \in Offsets |->
                       IF b.addr + o \in w /\ run[b.addr + o] \subseteq w
                       THEN "OK" ELSE b.state[o]]
  BY <1>0
<1>3. nb.state \in [Offsets -> {"BAD", "DIRTY", "OK"}]
  BY <1>1, <1>2
<1>4. Aligned(nb)
  <2>1. nb \in [addr : Addresses, data : [Offsets -> Values],
                state : [Offsets -> {"BAD", "DIRTY", "OK"}],
                anydirty : BOOLEAN]
    BY <1>0, <1>1, <1>3
  <2> QED
    BY <1>1, <1>2, <2>1 DEF Aligned, Blocks
<1>5. /\ Bytes(nb) = Bytes(b)
      /\ todo \subseteq DirtyBytes(b) /\ DirtyBytes(b) \subseteq Bytes(b)
  BY <1>2, <1>a DEF Bytes, DirtyBytes
<1>6. ASSUME NEW a \in Bytes(b)
      PROVE  /\ Data(nb, a) = Data(b, a)
             /\ State(nb, a) = IF a \in w /\ run[a] \subseteq w
                               THEN "OK" ELSE State(b, a)
  <2>1. a % LineSize \in Offsets /\ b.addr + (a % LineSize) = a
    BY BytesOf
  <2> QED
    BY <1>2, <2>1 DEF Data, State
<1>7. r.memory \in [Addresses -> Values]
  <2>1. \A a \in w : Data(b, a) \in Values
    BY <1>5, <1>a, ByteTypes
  <2> QED
    BY <1>0, <2>1 DEF TypeOK
<1>8. ASSUME NEW a \in Addresses
      PROVE  \/ r.memory[a] = memory[a]
             \/ a \in DirtyBytes(b) /\ r.memory[a] = Data(b, a)
  BY <1>0, <1>5, <1>a
<1>9. ASSUME NEW a \in w
      PROVE  /\ a \in Bytes(b) /\ State(b, a) = "DIRTY"
             /\ r.memory[a] = Data(b, a)
  <2>1. a \in Addresses
    BY <1>5, <1>a, BytesOf
  <2> QED
    BY <1>0, <1>5, <1>a, <2>1 DEF DirtyBytes
<1>10. ASSUME NEW a \in Bytes(b)
       PROVE  /\ Data(nb, a) = Data(b, a)
              /\ \/ State(nb, a) = State(b, a)
                 \/ /\ State(b, a) = "DIRTY" /\ State(nb, a) = "OK"
                    /\ r.memory[a] = Data(b, a)
  BY <1>6, <1>9
<1>11. DirtyBytes(nb) \subseteq DirtyBytes(b)
  BY <1>5, <1>10 DEF DirtyBytes
<1>12. ASSUME Marked(b), w = todo
       PROVE  /\ DirtyBytes(nb) = {}
              /\ \A a \in DirtyBytes(b) : r.memory[a] = Data(b, a)
  <2>1. todo = DirtyBytes(b)
    BY <1>12, <1>a DEF Marked
  <2>2. \A a \in w : State(nb, a) = "OK"
    BY <1>6, <1>9, <1>12, <1>a
  <2>3. DirtyBytes(nb) = {}
    BY <1>5, <1>11, <1>12, <2>1, <2>2 DEF DirtyBytes
  <2> QED
    BY <1>9, <1>12, <2>1, <2>3
<1>13. Marked(b) => Marked(nb)
  <2>1. CASE w = todo
    BY <1>12, <2>1 DEF Marked
  <2>2. CASE w # todo
    BY <1>2, <1>11, <2>2 DEF Marked
  <2> QED
    BY <2>1, <2>2
<1> QED
  BY <1>0, <1>2, <1>4, <1>7, <1>8, <1>10, <1>12, <1>13 DEF Written

(* Every outcome of dcache_write_line is of this kind. *)
LEMMA WriteLineOutcome ==
  ASSUME TypeOK, NEW b, Aligned(b), NEW w \in WriteLine(b)
  PROVE  Written(b, w)
<1>1. CASE ~b.anydirty
  <2>1. w = [ok |-> TRUE, memory |-> memory, block |-> b]
    BY <1>1 DEF WriteLine
  <2>2. w.memory = memory /\ w.block = b
    BY <2>1
  <2>3. Marked(b) => DirtyBytes(b) = {}
    BY <1>1 DEF Marked
  <2> QED
    BY <2>2, <2>3 DEF Written, TypeOK
<1>2. CASE b.anydirty
  <2>1. PICK n \in b.addr .. b.addr + LineSize :
           w = Outcome(b, {a \in ToWrite(b) : a < n})
    BY <1>2 DEF WriteLine
  <2> QED
    BY <2>1, WriteOutcome
<1> QED
  BY <1>1, <1>2

-----------------------------------------------------------------------------
(* The list of lines. *)

(* What the invariant says of each line. *)
LEMMA LineFacts ==
  ASSUME IInv, NEW i \in DOMAIN valid
  PROVE  /\ Aligned(valid[i])
         /\ synced => Fresh(valid[i], memory) /\ Marked(valid[i])
         /\ i \in 1 .. Len(valid)
<1>1. valid[i] \in Blocks
  BY DEF IInv, TypeOK
<1> QED
  BY <1>1 DEF IInv, TypeOK, LinesInv, SyncInv, Aligned

(* The lines and their invariant, where every line of the new list is      *)
(* in order and none occurs twice.                                         *)
LEMMA NewLines ==
  ASSUME regions' = regions, synced' = synced,
         valid' \in Seq(Blocks), Len(valid') <= Lines,
         \A i \in DOMAIN valid' :
            /\ Aligned(valid'[i])
            /\ synced => Fresh(valid'[i], memory') /\ Marked(valid'[i]),
         \A i, j \in DOMAIN valid' : valid'[i].addr = valid'[j].addr => i = j
  PROVE  LinesInv' /\ OnceInv' /\ SyncInv'
<1>1. LinesInv' /\ OnceInv'
  BY DEF LinesInv, OnceInv, Aligned
<1>2. SyncInv'
  <2> SUFFICES ASSUME synced, NEW i \in DOMAIN valid'
               PROVE  Fresh(valid[i], memory)' /\ Marked(valid[i])'
    BY DEF SyncInv
  <2>1. Fresh(valid'[i], memory') /\ Marked(valid'[i])
    OBVIOUS
  <2>2. \A a : (CanRead(a)' <=> CanRead(a)) /\ (CanWrite(a)' <=> CanWrite(a))
    BY SameRegions
  <2>3. Fresh(valid[i], memory)'
    BY <2>1, <2>2 DEF Fresh, Bytes, State, Data
  <2>4. Marked(valid[i])'
    BY <2>1, <2>2 DEF Marked, DirtyBytes, Bytes, State
  <2> QED
    BY <2>3, <2>4
<1> QED
  BY <1>1, <1>2

(* Memory is written within one line only: the others agree with it still. *)
LEMMA OtherLines ==
  ASSUME IInv, NEW i \in DOMAIN valid, NEW j \in DOMAIN valid, i # j,
         NEW m,
         \A a \in Addresses : a \notin Bytes(valid[i]) => m[a] = memory[a]
  PROVE  synced => Fresh(valid[j], m) /\ Marked(valid[j])
<1> SUFFICES ASSUME synced PROVE Fresh(valid[j], m)
  BY LineFacts
<1>1. Aligned(valid[i]) /\ Aligned(valid[j]) /\ Fresh(valid[j], memory)
  BY LineFacts
<1>2. valid[i].addr # valid[j].addr
  BY DEF IInv, OnceInv
<1>3. ASSUME NEW a \in Bytes(valid[j]) PROVE m[a] = memory[a]
  <2>1. a \in Addresses /\ a \in Nat
    BY <1>1, BytesOf
  <2>2. a \notin Bytes(valid[i])
    <3> SUFFICES ASSUME a \in Bytes(valid[i]) PROVE FALSE
      OBVIOUS
    <3>1. /\ valid[i].addr \in Nat /\ valid[i].addr % LineSize = 0
          /\ valid[j].addr \in Nat /\ valid[j].addr % LineSize = 0
      BY <1>1, BytesOf DEF Aligned
    <3>2. /\ valid[i].addr <= a /\ a < valid[i].addr + LineSize
          /\ valid[j].addr <= a /\ a < valid[j].addr + LineSize
      BY <2>1, <3>1, DcacheAssumption DEF Bytes
    <3> QED
      BY <1>2, <2>1, <3>1, <3>2, LinesApart
  <2> QED
    BY <2>1, <2>2
<1> QED
  BY <1>1, <1>3 DEF Fresh

(* A line is replaced by a newer state of itself. *)
LEMMA ReplaceLine ==
  ASSUME IInv, regions' = regions, synced' = synced,
         NEW i \in DOMAIN valid, NEW nb, Aligned(nb),
         nb.addr = valid[i].addr, valid' = [valid EXCEPT ![i] = nb],
         synced => Fresh(nb, memory') /\ Marked(nb),
         \A a \in Addresses : a \notin Bytes(valid[i]) => memory'[a] = memory[a]
  PROVE  /\ valid' \in Seq(Blocks) /\ Len(valid') = Len(valid)
         /\ DOMAIN valid' = DOMAIN valid
         /\ \A j \in DOMAIN valid : valid'[j] = IF j = i THEN nb ELSE valid[j]
         /\ LinesInv' /\ OnceInv' /\ SyncInv'
<1>1. valid \in Seq(Blocks) /\ Len(valid) <= Lines /\ nb \in Blocks
  BY DEF IInv, TypeOK, Aligned
<1>2. /\ valid' \in Seq(Blocks) /\ Len(valid') = Len(valid)
      /\ DOMAIN valid' = DOMAIN valid
      /\ \A j \in DOMAIN valid : valid'[j] = IF j = i THEN nb ELSE valid[j]
  BY <1>1, ExceptSeq
<1>3. ASSUME NEW j \in DOMAIN valid
      PROVE  /\ Aligned(valid'[j])
             /\ synced => Fresh(valid'[j], memory') /\ Marked(valid'[j])
  <2>1. CASE j = i
    BY <1>2, <2>1
  <2>2. CASE j # i
    <3>1. valid'[j] = valid[j]
      BY <1>2, <2>2
    <3>2. synced => Fresh(valid[j], memory') /\ Marked(valid[j])
      BY <2>2, OtherLines
    <3> QED
      BY <3>1, <3>2, LineFacts
  <2> QED
    BY <2>1, <2>2
<1>4. \A j, k \in DOMAIN valid : valid'[j].addr = valid'[k].addr => j = k
  BY <1>2 DEF IInv, OnceInv
<1>5. LinesInv' /\ OnceInv' /\ SyncInv'
  BY <1>1, <1>2, <1>3, <1>4, NewLines
<1> QED
  BY <1>2, <1>5

(* A line that was written is as new as the memory it was written to. *)
LEMMA WrittenFresh ==
  ASSUME TypeOK, NEW b, Aligned(b), NEW w, Written(b, w)
  PROVE  /\ Fresh(b, memory) => Fresh(w.block, w.memory)
         /\ \A a \in Addresses : a \notin Bytes(b) => w.memory[a] = memory[a]
<1>1. Bytes(w.block) = Bytes(b)
  BY DEF Written, Bytes
<1>2. ASSUME Fresh(b, memory) PROVE Fresh(w.block, w.memory)
  <2> SUFFICES ASSUME NEW a \in Bytes(b), State(w.block, a) = "OK", CanRead(a)
               PROVE  Data(w.block, a) = w.memory[a]
    BY <1>1 DEF Fresh
  <2>1. a \in Addresses /\ Data(w.block, a) = Data(b, a)
    BY BytesOf DEF Written
  <2>2. CASE State(b, a) = "DIRTY"
    BY <2>1, <2>2 DEF Written
  <2>3. CASE State(b, a) # "DIRTY"
    <3>1. State(b, a) = "OK" /\ a \notin DirtyBytes(b)
      BY <2>3 DEF Written, DirtyBytes
    <3>2. w.memory[a] = memory[a]
      BY <2>1, <3>1 DEF Written
    <3> QED
      BY <1>2, <2>1, <3>1, <3>2 DEF Fresh
  <2> QED
    BY <2>2, <2>3
<1>3. \A a \in Addresses : a \notin Bytes(b) => w.memory[a] = memory[a]
  BY DEF Written, DirtyBytes
<1> QED
  BY <1>2, <1>3

-----------------------------------------------------------------------------
(* The steps.  NothingLost is what NoDirtyLost says of a step. *)
NothingLost ==
    synced /\ valid' # <<>> =>
       \A i \in DOMAIN valid : \A a \in DirtyBytes(valid[i]) \ Dirty' :
          memory'[a] = Data(valid[i], a)

(* Dirty bytes that are still in a line at the same place are not lost. *)
LEMMA DirtyKept ==
  ASSUME IInv, DOMAIN valid' = DOMAIN valid,
         \A i \in DOMAIN valid : \A a \in DirtyBytes(valid[i]) :
            \/ a \in DirtyBytes(valid'[i])
            \/ memory'[a] = Data(valid[i], a)
  PROVE  NothingLost
<1> SUFFICES ASSUME NEW i \in DOMAIN valid, NEW a \in DirtyBytes(valid[i]),
                    a \notin Dirty'
             PROVE  memory'[a] = Data(valid[i], a)
  BY DEF NothingLost
<1>1. a \in Addresses
  <2>1. a \in Bytes(valid[i])
    BY DEF DirtyBytes
  <2> QED
    BY <2>1, LineFacts, BytesOf
<1>2. a \notin DirtyBytes(valid'[i])
  BY <1>1 DEF Dirty, DirtyBytes, Bytes, State
<1> QED
  BY <1>2

(* A step that leaves the cache and the memory alone. *)
LEMMA CacheSame ==
  ASSUME IInv, UNCHANGED <<memory, regions, valid, synced>>
  PROVE  StartsApart' /\ LinesInv' /\ OnceInv' /\ SyncInv' /\ NothingLost
<1>1. StartsApart'
  BY DEF IInv, StartsApart, Within
<1>2. valid \in Seq(Blocks) /\ Len(valid) <= Lines
  BY DEF IInv, TypeOK
<1>3. LinesInv' /\ OnceInv' /\ SyncInv'
  BY <1>2, LineFacts, NewLines DEF IInv, OnceInv
<1>4. NothingLost
  BY DirtyKept
<1> QED
  BY <1>1, <1>3, <1>4

(* The writing of a line, in place. *)
LEMMA WriteInPlace ==
  ASSUME IInv, regions' = regions, synced' = synced,
         NEW i \in DOMAIN valid, NEW w \in WriteLine(valid[i]),
         memory' = w.memory, valid' = [valid EXCEPT ![i] = w.block]
  PROVE  /\ memory' \in [Addresses -> Values]
         /\ valid' \in Seq(Blocks) /\ Len(valid') = Len(valid)
         /\ StartsApart' /\ LinesInv' /\ OnceInv' /\ SyncInv' /\ NothingLost
<1> DEFINE b == valid[i]
<1>1. TypeOK /\ Aligned(b) /\ (synced => Fresh(b, memory) /\ Marked(b))
  BY LineFacts DEF IInv
<1>2. Written(b, w)
  BY <1>1, WriteLineOutcome
<1>3. /\ Fresh(b, memory) => Fresh(w.block, memory')
      /\ \A a \in Addresses : a \notin Bytes(b) => memory'[a] = memory[a]
  BY <1>1, <1>2, WrittenFresh
<1>4. /\ Aligned(w.block) /\ w.block.addr = b.addr
      /\ Marked(b) => Marked(w.block)
      /\ memory' \in [Addresses -> Values]
  BY <1>2 DEF Written
<1>5. /\ valid' \in Seq(Blocks) /\ Len(valid') = Len(valid)
      /\ DOMAIN valid' = DOMAIN valid
      /\ \A j \in DOMAIN valid : valid'[j] = IF j = i THEN w.block ELSE valid[j]
      /\ LinesInv' /\ OnceInv' /\ SyncInv'
  BY <1>1, <1>3, <1>4, ReplaceLine
<1>6. NothingLost
  <2>1. ASSUME NEW a \in DirtyBytes(b)
        PROVE  a \in DirtyBytes(w.block) \/ memory'[a] = Data(b, a)
    BY <1>2 DEF Written, DirtyBytes, Bytes
  <2> QED
    BY <1>5, <2>1, DirtyKept
<1>7. StartsApart'
  BY DEF IInv, StartsApart, Within
<1> QED
  BY <1>4, <1>5, <1>6, <1>7

-----------------------------------------------------------------------------
(* One step of the program, action by action. *)

(* The constants that every step keeps within their types. *)
LEMMA OpTypes ==
  /\ NoOp \in [write : BOOLEAN, from : Nat, to : Nat, value : Values]
  /\ 0 \in 0 .. Top + Lines /\ Top \in Nat /\ Lines \in Nat
BY DcacheAssumption DEF NoOp

(* What Finish leaves. *)
LEMMA Finished ==
  ASSUME NEW r \in {"none", "ok", "error"}, Finish(r)
  PROVE  /\ pc' = "idle" /\ at' \in 0 .. Top + Lines /\ OpInv'
         /\ op' \in [write : BOOLEAN, from : Nat, to : Nat, value : Values]
         /\ result' \in {"none", "ok", "error"}
BY OpTypes DEF Finish, OpInv

(* The line found for the next byte. *)
LEMMA HitFacts ==
  ASSUME IInv, Present
  PROVE  /\ Hit \in DOMAIN valid /\ valid[Hit].addr = Line(at)
         /\ at \in Bytes(valid[Hit]) /\ at % LineSize \in Offsets
         /\ at \in op.from .. op.to - 1 /\ at + 1 \in op.from .. op.to
         /\ op.to <= Top
<1>1. \A i, j \in Hits(at) : i <= j
  BY DEF Hits, IInv, OnceInv, TypeOK
<1>2. Hit \in Hits(at)
  BY <1>1 DEF Present, Hit
<1>3. Hit \in DOMAIN valid /\ valid[Hit].addr = Line(at)
  BY <1>2 DEF Hits
<1> HIDE DEF Hit
<1>4. /\ at \in op.from .. op.to /\ op.to <= Top /\ at < op.to /\ at \in Nat
      /\ op.from \in Nat /\ op.to \in Nat
  BY OpTypes DEF Present, IInv, OpInv, TypeOK
<1>5. at \in Bytes(valid[Hit])
  <2>1. Line(at) \in Nat /\ Line(at) <= at /\ at < Line(at) + LineSize
    BY <1>4, LineOf
  <2> QED
    BY <1>3, <1>4, <2>1, DcacheAssumption DEF Bytes
<1>6. at % LineSize \in Offsets
  BY <1>3, <1>5, LineFacts, BytesOf
<1> QED
  BY <1>3, <1>4, <1>5, <1>6

(* The invariant and NothingLost, from their parts. *)
LEMMA StepParts ==
  ASSUME TypeOK', StartsApart', LinesInv', OnceInv', OpInv', SyncInv'
  PROVE  IInv'
BY DEF IInv

(* dcache_peek_byte, the end of an access, and the endless split of a line *)
(* leave the cache alone.                                                  *)
LEMMA QuietSteps ==
  ASSUME IInv, PeekByte \/ LastByte \/ WrittenBack \/ RunAway
  PROVE  IInv' /\ NothingLost
<1>1. UNCHANGED <<memory, regions, mem_use_target, valid, synced>>
  BY DEF PeekByte, LastByte, WrittenBack, RunAway, target
<1>2. StartsApart' /\ LinesInv' /\ OnceInv' /\ SyncInv' /\ NothingLost
  BY <1>1, CacheSame
<1>3. /\ memory' \in [Addresses -> Values] /\ regions' \subseteq Regions
      /\ mem_use_target' \in BOOLEAN /\ valid' \in Seq(Blocks)
      /\ Len(valid') <= Lines /\ synced' \in BOOLEAN
  BY <1>1 DEF IInv, TypeOK
<1>4. /\ Len(valid) \in Nat
      /\ op \in [write : BOOLEAN, from : Nat, to : Nat, value : Values]
      /\ result \in {"none", "ok", "error"} /\ at \in 0 .. Top + Lines
  BY DEF IInv, TypeOK
<1>5. CASE PeekByte
  <2>1. /\ pc = "byte" /\ pc' = pc /\ op' = op /\ at' = at + 1
        /\ result' = result /\ Present /\ ~op.write
    BY <1>5 DEF PeekByte, Present
  <2>2. at' \in op.from .. op.to /\ op.to <= Top /\ at' \in 0 .. Top + Lines
    BY <1>4, <2>1, HitFacts, OpTypes
  <2>3. OpInv'
    BY <2>1, <2>2 DEF OpInv, IInv
  <2>4. TypeOK'
    BY <1>3, <1>4, <2>1, <2>2 DEF TypeOK
  <2> QED
    BY <1>2, <2>3, <2>4, StepParts
<1>6. CASE LastByte
  <2>1. CASE op.write
    <3>1. /\ pc = "byte" /\ pc' = "writeback" /\ at' = 1 /\ op' = op
          /\ result' = result /\ Top # 0
      BY <1>6, <2>1 DEF LastByte, IInv, OpInv
    <3>2. OpInv'
      BY <1>1, <1>4, <3>1 DEF OpInv
    <3>3. TypeOK'
      BY <1>3, <1>4, <3>1, OpTypes DEF TypeOK
    <3> QED
      BY <1>2, <3>2, <3>3, StepParts
  <2>2. CASE ~op.write
    <3>1. Finish("ok")
      BY <1>6, <2>2 DEF LastByte
    <3>2. OpInv' /\ TypeOK'
      BY <1>3, <3>1, Finished DEF TypeOK
    <3> QED
      BY <1>2, <3>2, StepParts
  <2> QED
    BY <2>1, <2>2
<1>7. CASE WrittenBack
  <2>1. Finish("ok")
    BY <1>7 DEF WrittenBack
  <2>2. OpInv' /\ TypeOK'
    BY <1>3, <2>1, Finished DEF TypeOK
  <2> QED
    BY <1>2, <2>2, StepParts
<1>8. CASE RunAway
  <2>1. pc' = "runaway" /\ op' = op /\ at' = at /\ result' = result
    BY <1>8 DEF RunAway
  <2>2. OpInv' /\ TypeOK'
    BY <1>3, <1>4, <2>1 DEF OpInv, TypeOK
  <2> QED
    BY <1>2, <2>2, StepParts
<1> QED
  BY <1>5, <1>6, <1>7, <1>8

(* An access that goes on in the same line of code keeps its bounds. *)
LEMMA OpGoesOn ==
  ASSUME IInv, regions' = regions, UNCHANGED <<pc, op, at>>,
         pc # "writeback"
  PROVE  OpInv'
<1>1. \A a : CanWrite(a)' <=> CanWrite(a)
  BY SameRegions
<1> QED
  BY <1>1 DEF IInv, OpInv

(* dcache_writeback *)
LEMMA WriteBackStep ==
  ASSUME IInv, WriteBack
  PROVE  IInv' /\ NothingLost
<1>1. PICK w \in WriteLine(valid[at]) :
        /\ memory' = w.memory /\ valid' = [valid EXCEPT ![at] = w.block]
        /\ IF w.ok THEN at' = at + 1 /\ UNCHANGED <<pc, op, result>>
           ELSE \E r \in {"ok", "error"} : Finish(r)
  BY DEF WriteBack
<1>2. /\ UNCHANGED <<regions, mem_use_target, synced>>
      /\ pc = "writeback" /\ at <= Len(valid)
  BY DEF WriteBack
<1>3. /\ at \in 1 .. Len(valid) /\ at \in DOMAIN valid /\ Len(valid) \in Nat
      /\ Len(valid) <= Lines /\ Top # 0
  BY <1>2 DEF IInv, OpInv, TypeOK
<1>4. /\ memory' \in [Addresses -> Values]
      /\ valid' \in Seq(Blocks) /\ Len(valid') = Len(valid)
      /\ StartsApart' /\ LinesInv' /\ OnceInv' /\ SyncInv' /\ NothingLost
  BY <1>1, <1>2, <1>3, WriteInPlace
<1>5. CASE w.ok
  <2>1. at' = at + 1 /\ UNCHANGED <<pc, op, result>>
    BY <1>1, <1>5
  <2>2. OpInv'
    BY <1>2, <1>3, <1>4, <2>1 DEF OpInv
  <2>3. TypeOK'
    BY <1>2, <1>3, <1>4, <2>1, OpTypes DEF IInv, TypeOK
  <2> QED
    BY <1>4, <2>2, <2>3, StepParts
<1>6. CASE ~w.ok
  <2>1. PICK r \in {"ok", "error"} : Finish(r)
    BY <1>1, <1>6
  <2>2. OpInv' /\ TypeOK'
    BY <1>2, <1>3, <1>4, <2>1, Finished DEF IInv, TypeOK
  <2> QED
    BY <1>4, <2>2, StepParts
<1> QED
  BY <1>5, <1>6

(* dcache_read_line of a line that has just been written. *)
LEMMA ReadFresh ==
  ASSUME TypeOK, NEW b, Aligned(b), NEW m \in [Addresses -> Values]
  PROVE  /\ Aligned(ReadLine(b, m)) /\ ReadLine(b, m).addr = b.addr
         /\ Fresh(ReadLine(b, m), m) /\ Marked(ReadLine(b, m))
<1> DEFINE nb == ReadLine(b, m)
<1>1. /\ b.addr \in Addresses /\ b.data \in [Offsets -> Values]
      /\ b.addr % LineSize = 0
      /\ \A o \in Offsets : b.addr + o \in Addresses
  BY BytesOf DEF Aligned, Blocks
<1>2. /\ nb.addr = b.addr /\ nb.anydirty = FALSE
      /\ nb.data = [o \in Offsets |-> IF CanRead(b.addr + o) THEN m[b.addr + o]
                                                        ELSE b.data[o]]
      /\ nb.state = [o \in Offsets |-> "OK"]
      /\ nb = [addr |-> nb.addr, data |-> nb.data, state |-> nb.state,
               anydirty |-> nb.anydirty]
  BY DEF ReadLine
<1> HIDE DEF nb
<1>3. /\ nb.data \in [Offsets -> Values]
      /\ nb.state \in [Offsets -> {"BAD", "DIRTY", "OK"}]
  BY <1>1, <1>2
<1>4. Aligned(nb)
  <2>1. nb \in [addr : Addresses, data : [Offsets -> Values],
                state : [Offsets -> {"BAD", "DIRTY", "OK"}],
                anydirty : BOOLEAN]
    BY <1>1, <1>2, <1>3
  <2> QED
    BY <1>1, <1>2, <2>1 DEF Aligned, Blocks
<1>5. ASSUME NEW a \in Bytes(nb)
      PROVE  State(nb, a) = "OK" /\ (CanRead(a) => Data(nb, a) = m[a])
  <2>1. a % LineSize \in Offsets /\ nb.addr + (a % LineSize) = a
    BY <1>4, BytesOf
  <2> QED
    BY <1>2, <2>1 DEF State, Data
<1>6. Fresh(nb, m) /\ Marked(nb)
  BY <1>5 DEF Fresh, Marked, DirtyBytes
<1> QED
  BY <1>2, <1>4, <1>6 DEF nb

(* dcache_peek_byte of a byte that is not there. *)
LEMMA FillStep ==
  ASSUME IInv, FillLine
  PROVE  IInv' /\ NothingLost
<1> DEFINE h == Hit
           b == valid[h]
<1>0. /\ UNCHANGED <<regions, mem_use_target, synced>>
      /\ Present /\ pc = "byte" /\ h \in DOMAIN valid
      /\ TypeOK /\ Len(valid) \in Nat /\ Len(valid) <= Lines
      /\ Aligned(b) /\ (synced => Fresh(b, memory) /\ Marked(b))
  BY HitFacts, LineFacts DEF FillLine, Present, IInv, TypeOK
<1>1. PICK w \in WriteLine(b), read \in BOOLEAN :
        /\ memory' = w.memory
        /\ IF w.ok /\ read
           THEN /\ valid' = [valid EXCEPT ![h] = ReadLine(w.block, w.memory)]
                /\ UNCHANGED <<pc, op, at, result>>
           ELSE /\ valid' = [valid EXCEPT ![h] = w.block]
                /\ Finish("error")
  BY DEF FillLine
<1> HIDE DEF h
<1>2. CASE w.ok /\ read
  <2>1. /\ valid' = [valid EXCEPT ![h] = ReadLine(w.block, w.memory)]
        /\ UNCHANGED <<pc, op, at, result>>
    BY <1>1, <1>2
  <2>2. Written(b, w)
    BY <1>0, <1>1, WriteLineOutcome
  <2>3. \A a \in Addresses : a \notin Bytes(b) => memory'[a] = memory[a]
    BY <1>0, <1>1, <2>2, WrittenFresh
  <2>4. /\ memory' \in [Addresses -> Values] /\ Aligned(w.block)
        /\ w.block.addr = b.addr
    BY <1>1, <2>2 DEF Written
  <2> DEFINE nb == ReadLine(w.block, w.memory)
  <2>5. /\ Aligned(nb) /\ nb.addr = b.addr /\ Fresh(nb, memory') /\ Marked(nb)
    BY <1>0, <1>1, <2>4, ReadFresh
  <2> HIDE DEF nb
  <2>6. valid' = [valid EXCEPT ![h] = nb]
    BY <2>1 DEF nb
  <2>7. /\ valid' \in Seq(Blocks) /\ Len(valid') = Len(valid)
        /\ DOMAIN valid' = DOMAIN valid
        /\ \A j \in DOMAIN valid : valid'[j] = IF j = h THEN nb ELSE valid[j]
        /\ LinesInv' /\ OnceInv' /\ SyncInv'
    BY <1>0, <2>3, <2>5, <2>6, ReplaceLine
  <2>8. NothingLost
    <3> SUFFICES ASSUME synced PROVE NothingLost
      BY DEF NothingLost
    <3>1. ASSUME NEW a \in DirtyBytes(b) PROVE memory'[a] = Data(b, a)
      BY <1>0, <1>1, <1>2, <2>2 DEF Written
    <3> QED
      BY <2>7, <3>1, DirtyKept
  <2>9. StartsApart'
    BY <1>0 DEF IInv, StartsApart, Within
  <2>10. OpInv'
    BY <1>0, <2>1, OpGoesOn
  <2>11. TypeOK'
    BY <1>0, <2>1, <2>4, <2>7 DEF TypeOK
  <2> QED
    BY <2>7, <2>8, <2>9, <2>10, <2>11, StepParts
<1>3. CASE ~(w.ok /\ read)
  <2>1. valid' = [valid EXCEPT ![h] = w.block] /\ Finish("error")
    BY <1>1, <1>3
  <2>2. /\ memory' \in [Addresses -> Values]
        /\ valid' \in Seq(Blocks) /\ Len(valid') = Len(valid)
        /\ StartsApart' /\ LinesInv' /\ OnceInv' /\ SyncInv' /\ NothingLost
    BY <1>0, <1>1, <2>1, WriteInPlace
  <2>3. OpInv' /\ TypeOK'
    BY <1>0, <2>1, <2>2, Finished DEF TypeOK
  <2> QED
    BY <2>2, <2>3, StepParts
<1> QED
  BY <1>2, <1>3

(* dcache_poke_byte *)
LEMMA PokeStep ==
  ASSUME IInv, PokeByte
  PROVE  IInv' /\ NothingLost
<1> DEFINE h == Hit
           b == valid[h]
           o == at % LineSize
           nb == Poked(b, TRUE)
<1>0. /\ UNCHANGED <<memory, regions, mem_use_target, synced, pc, op, result>>
      /\ Present /\ pc = "byte" /\ op.write /\ at' = at + 1
      /\ valid' = [valid EXCEPT ![h] = nb]
  BY DEF PokeByte, target, Present
<1>1. /\ h \in DOMAIN valid /\ at \in Bytes(b) /\ o \in Offsets
      /\ at \in op.from .. op.to - 1 /\ at + 1 \in op.from .. op.to
      /\ op.to <= Top /\ CanWrite(at)
  BY <1>0, HitFacts DEF IInv, OpInv
<1>2. Aligned(b) /\ (synced => Fresh(b, memory) /\ Marked(b))
  BY <1>1, LineFacts
<1>3. /\ nb.addr = b.addr /\ nb.anydirty = TRUE
      /\ nb.data = [b.data EXCEPT ![o] = op.value]
      /\ nb.state = [b.state EXCEPT ![o] = "DIRTY"]
      /\ nb = [addr |-> nb.addr, data |-> nb.data, state |-> nb.state,
               anydirty |-> nb.anydirty]
  BY DEF Poked
<1> HIDE DEF h, nb
<1>4. /\ b.addr \in Addresses /\ b.addr % LineSize = 0
      /\ b.data \in [Offsets -> Values]
      /\ b.state \in [Offsets -> {"BAD", "DIRTY", "OK"}]
      /\ op.value \in Values
  BY <1>2 DEF Aligned, Blocks, IInv, TypeOK
<1>5. Aligned(nb)
  <2>1. /\ nb.data \in [Offsets -> Values]
        /\ nb.state \in [Offsets -> {"BAD", "DIRTY", "OK"}]
    BY <1>1, <1>3, <1>4
  <2>2. nb \in [addr : Addresses, data : [Offsets -> Values],
                state : [Offsets -> {"BAD", "DIRTY", "OK"}],
                anydirty : BOOLEAN]
    BY <1>3, <1>4, <2>1
  <2> QED
    BY <1>3, <1>4, <2>2 DEF Aligned, Blocks
<1>6. Bytes(nb) = Bytes(b)
  BY <1>3 DEF Bytes
<1>7. ASSUME NEW a \in Bytes(b)
      PROVE  IF a = at THEN State(nb, a) = "DIRTY"
             ELSE State(nb, a) = State(b, a) /\ Data(nb, a) = Data(b, a)
  <2>1. /\ a % LineSize \in Offsets /\ a = b.addr + (a % LineSize)
        /\ at = b.addr + o
    BY <1>1, <1>2, BytesOf
  <2>2. a # at => a % LineSize # o
    BY <2>1
  <2> QED
    BY <1>1, <1>3, <1>4, <2>1, <2>2 DEF State, Data
<1>8. synced => Fresh(nb, memory') /\ Marked(nb)
  <2> SUFFICES ASSUME synced PROVE Fresh(nb, memory) /\ Marked(nb)
    BY <1>0
  <2>1. Fresh(b, memory) /\ Marked(b)
    BY <1>2
  <2>2. Fresh(nb, memory)
    BY <1>6, <1>7, <2>1 DEF Fresh
  <2>3. \A a \in DirtyBytes(nb) : CanWrite(a)
    BY <1>1, <1>6, <1>7, <2>1 DEF Marked, DirtyBytes
  <2> QED
    BY <1>3, <2>2, <2>3 DEF Marked
<1>9. /\ valid' \in Seq(Blocks) /\ Len(valid') = Len(valid)
      /\ DOMAIN valid' = DOMAIN valid
      /\ \A j \in DOMAIN valid : valid'[j] = IF j = h THEN nb ELSE valid[j]
      /\ LinesInv' /\ OnceInv' /\ SyncInv'
  BY <1>0, <1>1, <1>3, <1>5, <1>8, ReplaceLine
<1>10. NothingLost
  <2>1. \A a \in DirtyBytes(b) : a \in DirtyBytes(nb)
    BY <1>6, <1>7 DEF DirtyBytes
  <2> QED
    BY <1>9, <2>1, DirtyKept
<1>11. StartsApart'
  BY <1>0 DEF IInv, StartsApart, Within
<1>12. OpInv'
  <2>1. \A a : CanWrite(a)' <=> CanWrite(a)
    BY <1>0, SameRegions
  <2> QED
    BY <1>0, <1>1, <2>1 DEF IInv, OpInv
<1>13. TypeOK'
  <2>1. at' \in 0 .. Top + Lines
    BY <1>0, <1>1, OpTypes DEF IInv, TypeOK
  <2> QED
    BY <1>0, <1>9, <2>1 DEF IInv, TypeOK
<1> QED
  BY <1>9, <1>10, <1>11, <1>12, <1>13, StepParts

-----------------------------------------------------------------------------
(* A new line is added to the ones that stay. *)
LEMMA AppendLine ==
  ASSUME regions' = regions, synced' = synced,
         NEW rest \in Seq(Blocks), Len(rest) + 1 <= Lines, NEW nb, Aligned(nb),
         Fresh(nb, memory'), Marked(nb), valid' = Append(rest, nb),
         \A i \in DOMAIN rest :
            /\ Aligned(rest[i]) /\ rest[i].addr # nb.addr
            /\ synced => Fresh(rest[i], memory') /\ Marked(rest[i]),
         \A i, j \in DOMAIN rest : rest[i].addr = rest[j].addr => i = j
  PROVE  /\ valid' \in Seq(Blocks) /\ Len(valid') <= Lines
         /\ \A i \in DOMAIN rest : i \in DOMAIN valid' /\ valid'[i] = rest[i]
         /\ LinesInv' /\ OnceInv' /\ SyncInv'
<1>1. nb \in Blocks
  BY DEF Aligned
<1>2. /\ valid' \in Seq(Blocks) /\ Len(valid') = Len(rest) + 1
      /\ DOMAIN valid' = 1 .. Len(rest) + 1 /\ DOMAIN rest = 1 .. Len(rest)
      /\ Len(rest) \in Nat
      /\ \A i \in 1 .. Len(rest) : valid'[i] = rest[i]
      /\ valid'[Len(rest) + 1] = nb
  BY <1>1, AppendProperties
<1>3. \A i \in DOMAIN valid' : i = Len(rest) + 1 \/ i \in DOMAIN rest
  BY <1>2
<1>4. \A i \in DOMAIN valid' :
        /\ Aligned(valid'[i])
        /\ synced => Fresh(valid'[i], memory') /\ Marked(valid'[i])
  BY <1>2, <1>3
<1>5. \A i, j \in DOMAIN valid' : valid'[i].addr = valid'[j].addr => i = j
  BY <1>2, <1>3
<1>6. LinesInv' /\ OnceInv' /\ SyncInv'
  BY <1>2, <1>4, <1>5, NewLines
<1> QED
  BY <1>2, <1>6

(* The block dcache_alloc hands out: none of its bytes is there. *)
LEMMA NewBlockFacts ==
  ASSUME IInv, Missing, NEW d \in [Offsets -> Values], NEW m
  PROVE  /\ Aligned(NewBlock(d)) /\ NewBlock(d).addr = Line(at)
         /\ Fresh(NewBlock(d), m) /\ Marked(NewBlock(d))
         /\ \A i \in DOMAIN valid : valid[i].addr # Line(at)
<1> DEFINE nb == NewBlock(d)
<1>1. at \in Addresses /\ at \in Nat
  BY OpTypes DEF Missing, IInv, OpInv, TypeOK, Addresses
<1>2. Line(at) \in Addresses /\ Line(at) % LineSize = 0
  BY <1>1, LineOf, OpTypes DEF Addresses
<1>3. /\ nb.addr = Line(at) /\ nb.data = d /\ nb.anydirty = FALSE
      /\ nb.state = [o \in Offsets |-> "BAD"]
      /\ nb = [addr |-> nb.addr, data |-> nb.data, state |-> nb.state,
               anydirty |-> nb.anydirty]
  BY DEF NewBlock
<1> HIDE DEF nb
<1>4. Aligned(nb)
  <2>1. nb \in [addr : Addresses, data : [Offsets -> Values],
                state : [Offsets -> {"BAD", "DIRTY", "OK"}],
                anydirty : BOOLEAN]
    BY <1>2, <1>3
  <2> QED
    BY <1>2, <1>3, <2>1 DEF Aligned, Blocks
<1>5. ASSUME NEW a \in Bytes(nb) PROVE State(nb, a) = "BAD"
  <2>1. a % LineSize \in Offsets
    BY <1>4, BytesOf
  <2> QED
    BY <1>3, <2>1 DEF State
<1>6. Fresh(nb, m) /\ Marked(nb)
  BY <1>5 DEF Fresh, Marked, DirtyBytes
<1>7. \A i \in DOMAIN valid : valid[i].addr # Line(at)
  BY DEF Missing, Hits
<1> QED
  BY <1>3, <1>4, <1>6, <1>7 DEF nb

(* dcache_alloc from the free list. *)
LEMMA AllocFreeStep ==
  ASSUME IInv, AllocFree
  PROVE  IInv' /\ NothingLost
<1>0. /\ UNCHANGED <<memory, regions, mem_use_target, pc, op, at, result,
                     synced>>
      /\ Missing /\ pc = "byte" /\ Len(valid) < Lines
      /\ valid \in Seq(Blocks)
  BY DEF AllocFree, Missing, target, IInv, TypeOK
<1>1. PICK d \in [Offsets -> Values] : valid' = Append(valid, NewBlock(d))
  BY DEF AllocFree
<1>2. /\ Aligned(NewBlock(d)) /\ NewBlock(d).addr = Line(at)
      /\ Fresh(NewBlock(d), memory) /\ Marked(NewBlock(d))
      /\ \A i \in DOMAIN valid : valid[i].addr # Line(at)
  BY <1>0, NewBlockFacts
<1>3. \A i \in DOMAIN valid :
         /\ Aligned(valid[i]) /\ valid[i].addr # NewBlock(d).addr
         /\ synced => Fresh(valid[i], memory') /\ Marked(valid[i])
  BY <1>0, <1>2, LineFacts
<1>4. \A i, j \in DOMAIN valid : valid[i].addr = valid[j].addr => i = j
  BY DEF IInv, OnceInv
<1>5. Len(valid) + 1 <= Lines
  BY <1>0, OpTypes
<1>6. /\ valid' \in Seq(Blocks) /\ Len(valid') <= Lines
      /\ \A i \in DOMAIN valid : i \in DOMAIN valid' /\ valid'[i] = valid[i]
      /\ LinesInv' /\ OnceInv' /\ SyncInv'
  BY <1>0, <1>1, <1>2, <1>3, <1>4, <1>5, AppendLine
<1>7. NothingLost
  <2> SUFFICES ASSUME NEW i \in DOMAIN valid, NEW a \in DirtyBytes(valid[i])
               PROVE  a \in Dirty'
    BY DEF NothingLost
  <2>1. a \in Addresses
    BY <1>3, BytesOf DEF DirtyBytes
  <2> QED
    BY <1>6, <2>1 DEF Dirty, DirtyBytes, Bytes, State
<1>8. StartsApart'
  BY <1>0 DEF IInv, StartsApart, Within
<1>9. OpInv'
  BY <1>0, OpGoesOn
<1>10. TypeOK'
  BY <1>0, <1>6 DEF IInv, TypeOK
<1> QED
  BY <1>6, <1>7, <1>8, <1>9, <1>10, StepParts

(* dcache_alloc from the oldest line. *)
LEMMA AllocOldestStep ==
  ASSUME IInv, AllocOldest
  PROVE  IInv' /\ NothingLost
<1> DEFINE b == valid[1]
<1>0. /\ UNCHANGED <<regions, mem_use_target, synced>>
      /\ Missing /\ pc = "byte" /\ Len(valid) = Lines /\ TypeOK
      /\ valid \in Seq(Blocks) /\ Lines \in Nat \ {0} /\ Head(valid) = b
      /\ 1 \in DOMAIN valid
  BY DcacheAssumption DEF AllocOldest, Missing, IInv, TypeOK
<1>1. PICK w \in WriteLine(b) :
        /\ memory' = w.memory
        /\ IF w.ok
           THEN /\ valid' = Append(Tail(valid), NewBlock(w.block.data))
                /\ UNCHANGED <<pc, op, at, result>>
           ELSE /\ valid' = [valid EXCEPT ![1] = w.block]
                /\ Finish("error")
  BY <1>0 DEF AllocOldest
<1>2. CASE w.ok
  <2> DEFINE rest == Tail(valid)
             nb == NewBlock(w.block.data)
  <2>1. valid' = Append(rest, nb) /\ UNCHANGED <<pc, op, at, result>>
    BY <1>1, <1>2
  <2>2. Aligned(b) /\ (synced => Marked(b))
    BY <1>0, LineFacts
  <2>3. Written(b, w)
    BY <1>0, <1>1, <2>2, WriteLineOutcome
  <2>4. \A a \in Addresses : a \notin Bytes(b) => memory'[a] = memory[a]
    BY <1>0, <1>1, <2>2, <2>3, WrittenFresh
  <2>5. /\ memory' \in [Addresses -> Values]
        /\ w.block.data \in [Offsets -> Values]
    BY <1>1, <2>3 DEF Written, Aligned, Blocks
  <2>6. /\ rest \in Seq(Blocks) /\ Len(rest) = Len(valid) - 1
        /\ \A i \in DOMAIN rest : rest[i] = valid[i + 1]
        /\ DOMAIN rest = 1 .. Len(valid) - 1 /\ DOMAIN valid = 1 .. Len(valid)
    BY <1>0, HeadTailProperties, EmptySeq
  <2>7. /\ Aligned(nb) /\ nb.addr = Line(at) /\ Fresh(nb, memory') /\ Marked(nb)
        /\ \A i \in DOMAIN valid : valid[i].addr # Line(at)
    BY <1>0, <2>5, NewBlockFacts
  <2> HIDE DEF rest, nb
  <2>8. ASSUME NEW i \in DOMAIN rest
        PROVE  /\ i + 1 \in DOMAIN valid /\ i + 1 # 1
               /\ rest[i] = valid[i + 1]
               /\ Aligned(rest[i]) /\ rest[i].addr # nb.addr
               /\ synced => Fresh(rest[i], memory') /\ Marked(rest[i])
    <3>1. i + 1 \in DOMAIN valid /\ i + 1 # 1 /\ rest[i] = valid[i + 1]
      BY <1>0, <2>6
    <3>2. synced => Fresh(valid[i + 1], memory') /\ Marked(valid[i + 1])
      BY <1>0, <2>4, <3>1, OtherLines
    <3> QED
      BY <2>7, <3>1, <3>2, LineFacts
  <2>9. \A i, j \in DOMAIN rest : rest[i].addr = rest[j].addr => i = j
    <3> SUFFICES ASSUME NEW i \in DOMAIN rest, NEW j \in DOMAIN rest,
                        rest[i].addr = rest[j].addr
                 PROVE  i = j
      OBVIOUS
    <3>1. i + 1 = j + 1
      BY <2>8 DEF IInv, OnceInv
    <3> QED
      BY <2>6, <3>1
  <2>10. Len(rest) + 1 <= Lines
    BY <1>0, <2>6
  <2>11. /\ valid' \in Seq(Blocks) /\ Len(valid') <= Lines
         /\ \A i \in DOMAIN rest : i \in DOMAIN valid' /\ valid'[i] = rest[i]
         /\ LinesInv' /\ OnceInv' /\ SyncInv'
    BY <1>0, <2>1, <2>6, <2>7, <2>8, <2>9, <2>10, AppendLine
  <2>12. NothingLost
    <3> SUFFICES ASSUME synced, NEW i \in DOMAIN valid,
                        NEW a \in DirtyBytes(valid[i]), a \notin Dirty'
                 PROVE  memory'[a] = Data(valid[i], a)
      BY DEF NothingLost
    <3>1. CASE i = 1
      BY <1>1, <1>2, <2>2, <2>3, <3>1 DEF Written
    <3>2. CASE i # 1
      <4>1. i - 1 \in DOMAIN rest /\ (i - 1) + 1 = i
        BY <1>0, <2>6, <3>2
      <4>2. valid'[i - 1] = valid[i] /\ i - 1 \in DOMAIN valid'
        BY <2>6, <2>11, <4>1
      <4>3. a \in Addresses
        BY LineFacts, BytesOf DEF DirtyBytes
      <4>4. a \in Dirty'
        BY <4>2, <4>3 DEF Dirty, DirtyBytes, Bytes, State
      <4> QED
        BY <4>4
    <3> QED
      BY <3>1, <3>2
  <2>13. StartsApart'
    BY <1>0 DEF IInv, StartsApart, Within
  <2>14. OpInv'
    BY <1>0, <2>1, OpGoesOn
  <2>15. TypeOK'
    BY <1>0, <2>1, <2>5, <2>11 DEF TypeOK
  <2> QED
    BY <2>11, <2>12, <2>13, <2>14, <2>15, StepParts
<1>3. CASE ~w.ok
  <2>1. valid' = [valid EXCEPT ![1] = w.block] /\ Finish("error")
    BY <1>1, <1>3
  <2>2. /\ memory' \in [Addresses -> Values]
        /\ valid' \in Seq(Blocks) /\ Len(valid') = Len(valid)
        /\ StartsApart' /\ LinesInv' /\ OnceInv' /\ SyncInv' /\ NothingLost
    BY <1>0, <1>1, <2>1, WriteInPlace
  <2>3. OpInv' /\ TypeOK'
    BY <1>0, <2>1, <2>2, Finished DEF TypeOK
  <2> QED
    BY <2>2, <2>3, StepParts
<1> QED
  BY <1>2, <1>3

-----------------------------------------------------------------------------
(* Accesses. *)

(* Where an access is allowed, the region that allows it has a bound, and  *)
(* the addresses up to it may be cached like the first.                    *)
LEMMA RegionSpan ==
  ASSUME IInv, NEW a \in Addresses, Region(a).mode # "NONE"
  PROVE  /\ Region(a).hi \in Nat
         /\ Region(a).hi # 0 => a < Region(a).hi
         /\ \A x \in Nat : a <= x /\ (x < Region(a).hi \/ Region(a).hi = 0) =>
              /\ Region(x).cache <=> Region(a).cache
              /\ Region(a).cache => Region(x).mode = Region(a).mode
<1>0. TypeOK /\ StartsApart /\ a \in Nat
  BY DEF IInv, Addresses
<1>1. CASE regions = {}
  <2>1. \A x : Region(x) = [hi |-> 0, mode |-> "RW", cache |-> FALSE]
    BY <1>1 DEF Region
  <2> QED
    BY <2>1
<1>2. CASE regions # {}
  <2> DEFINE r == Region(a)
  <2>1. r \in regions /\ r.enabled /\ Within(a, r)
    BY <1>0, <1>2, CachedRegion
  <2> HIDE DEF r
  <2>2. r.lo \in Nat /\ r.hi \in Nat /\ r.lo <= a /\ (a < r.hi \/ r.hi = 0)
    BY <1>0, <2>1 DEF TypeOK, Regions, Within
  <2>3. ASSUME NEW x \in Nat, a <= x, x < r.hi \/ r.hi = 0
        PROVE  Region(x) = r
    <3>1. Within(x, r)
      BY <1>0, <2>2, <2>3 DEF Within
    <3> QED
      BY <1>0, <2>1, <3>1, RegionFound
  <2>4. \A x \in Nat : a <= x /\ (x < r.hi \/ r.hi = 0) => Region(x) = r
    BY <2>3
  <2> QED
    BY <2>2, <2>4 DEF r
<1> QED
  BY <1>1, <1>2

(* memory_xfer_partial *)
LEMMA AccessStep ==
  ASSUME IInv, NEW write \in BOOLEAN, NEW a \in Addresses, NEW n \in Nat,
         NEW v \in Values, a + n <= Top, Top # 0, Access(write, a, n, v)
  PROVE  IInv' /\ NothingLost
<1> DEFINE r == Region(a)
           to == IF a + n < r.hi \/ r.hi = 0 THEN a + n ELSE r.hi
           denied == \/ r.mode = "NONE" \/ (r.mode = "WO" /\ ~write)
                     \/ (r.mode \in {"RO", "FLASH"} /\ write)
<1>0. /\ UNCHANGED <<regions, mem_use_target, valid, synced>> /\ pc = "idle"
      /\ TypeOK /\ a \in Nat /\ Top \in Nat
  BY OpTypes DEF Access, IInv, Addresses
<1>1. StartsApart'
  BY <1>0 DEF IInv, StartsApart, Within
<1>2. CASE denied
  <2>1. Finish("error") /\ memory' = memory
    BY <1>2 DEF Access
  <2>2. LinesInv' /\ OnceInv' /\ SyncInv' /\ NothingLost
    BY <1>0, <2>1, CacheSame
  <2>3. OpInv' /\ TypeOK'
    BY <1>0, <2>1, Finished DEF TypeOK
  <2> QED
    BY <1>1, <2>2, <2>3, StepParts
<1>3. CASE ~denied /\ r.cache
  <2>1. /\ pc' = "byte" /\ at' = a /\ result' = "none" /\ memory' = memory
        /\ op' = [write |-> write, from |-> a, to |-> to, value |-> v]
    BY <1>3 DEF Access
  <2>2. LinesInv' /\ OnceInv' /\ SyncInv' /\ NothingLost
    BY <1>0, <2>1, CacheSame
  <2>3. /\ r.hi \in Nat /\ (r.hi # 0 => a < r.hi)
        /\ \A x \in Nat : a <= x /\ (x < r.hi \/ r.hi = 0) =>
             Region(x).cache /\ Region(x).mode = r.mode
    BY <1>3, RegionSpan
  <2> HIDE DEF r
  <2>4. to \in Nat /\ a <= to /\ to <= Top
    BY <1>0, <2>3
  <2>5. ASSUME write, NEW x \in a .. to - 1 PROVE CanWrite(x)
    <3>1. x \in Nat /\ a <= x /\ (x < r.hi \/ r.hi = 0)
      BY <1>0, <2>3, <2>4, <2>5
    <3>2. Region(x).cache /\ Region(x).mode = r.mode
      BY <2>3, <3>1
    <3> QED
      BY <1>3, <2>5, <3>2 DEF CanWrite
  <2> HIDE DEF to, denied
  <2>6. op'.write = write /\ op'.from = a /\ op'.to = to
    BY <2>1
  <2>7. OpInv'
    <3>1. \A x : CanWrite(x)' <=> CanWrite(x)
      BY <1>0, SameRegions
    <3> QED
      BY <1>0, <2>1, <2>4, <2>5, <2>6, <3>1 DEF OpInv
  <2>8. TypeOK'
    <3>1. op' \in [write : BOOLEAN, from : Nat, to : Nat, value : Values]
      BY <1>0, <2>1, <2>4
    <3>2. at' \in 0 .. Top + Lines
      BY <2>1, OpTypes DEF Addresses
    <3> QED
      BY <1>0, <2>1, <3>1, <3>2 DEF TypeOK
  <2> QED
    BY <1>1, <2>2, <2>7, <2>8, StepParts
<1>4. CASE ~denied /\ ~r.cache
  <2>1. PICK k \in a .. to :
          /\ memory' = IF write THEN [x \in Addresses |->
                          IF a <= x /\ x < k THEN v ELSE memory[x]]
                       ELSE memory
          /\ Finish(IF k = to THEN "ok" ELSE "error")
    BY <1>4 DEF Access
  <2>2. /\ r.hi \in Nat /\ (r.hi # 0 => a < r.hi)
        /\ \A x \in Nat : a <= x /\ (x < r.hi \/ r.hi = 0) => ~Region(x).cache
    BY <1>4, RegionSpan
  <2> HIDE DEF r
  <2>3. to \in Nat /\ k \in Nat
    BY <1>0, <2>1, <2>2
  <2>4. ASSUME NEW x \in Addresses, memory'[x] # memory[x] PROVE ~CanRead(x)
    <3>1. a <= x /\ x < k /\ x \in Nat
      BY <2>1, <2>4 DEF Addresses
    <3>2. x < r.hi \/ r.hi = 0
      BY <1>0, <2>1, <2>2, <2>3, <3>1
    <3> QED
      BY <2>2, <3>1, <3>2 DEF CanRead
  <2>5. memory' \in [Addresses -> Values]
    BY <1>0, <2>1 DEF TypeOK
  <2>6. ASSUME NEW i \in DOMAIN valid
        PROVE  /\ Aligned(valid[i])
               /\ synced => Fresh(valid[i], memory') /\ Marked(valid[i])
    <3>1. Aligned(valid[i]) /\ \A x \in Bytes(valid[i]) : x \in Addresses
      BY LineFacts, BytesOf
    <3>2. Fresh(valid[i], memory) => Fresh(valid[i], memory')
      BY <2>4, <3>1 DEF Fresh
    <3> QED
      BY <3>1, <3>2, LineFacts
  <2>7. LinesInv' /\ OnceInv' /\ SyncInv'
    <3>1. valid' \in Seq(Blocks) /\ Len(valid') <= Lines /\ valid' = valid
      BY <1>0 DEF TypeOK
    <3> QED
      BY <1>0, <2>6, <3>1, NewLines DEF IInv, OnceInv
  <2>8. NothingLost
    BY <1>0, DirtyKept
  <2>9. OpInv' /\ TypeOK'
    BY <1>0, <2>1, <2>5, Finished DEF TypeOK
  <2> QED
    BY <1>1, <2>7, <2>8, <2>9, StepParts
<1> QED
  BY <1>2, <1>3, <1>4

-----------------------------------------------------------------------------
(* The commands that change the regions. *)

(* Testing a new region against its two neighbours is enough. *)
LEMMA DefineApart ==
  ASSUME NEW list \in SUBSET Regions, NEW r \in Regions,
         \A s, t \in list : s # t => ~Within(t.lo, s),
         \A n \in Neighbours(r, list) : ~Overlap(r, n)
  PROVE  \A s, t \in list \union {r} : s # t => ~Within(t.lo, s)
<1>0. /\ r.lo \in Nat /\ r.hi \in Nat
      /\ \A s \in list : s.lo \in Nat /\ s.hi \in Nat
  BY DEF Regions
<1>1. ASSUME NEW s \in list, s.lo >= r.lo
      PROVE  \E n \in Neighbours(r, list) :
                n.lo >= r.lo /\ \A m \in list : m.lo >= r.lo => n.lo <= m.lo
  <2> DEFINE S == {m.lo : m \in {m \in list : m.lo >= r.lo}}
  <2>1. S \in SUBSET Nat /\ S # {}
    BY <1>0, <1>1
  <2>2. PICK x \in S : \A y \in S : x <= y
    BY <2>1, LeastNat
  <2>3. PICK n \in list : n.lo >= r.lo /\ n.lo = x
    BY <2>2
  <2>4. \A m \in list : m.lo >= r.lo => n.lo <= m.lo
    BY <2>2, <2>3
  <2> QED
    BY <2>3, <2>4 DEF Neighbours
<1>2. ASSUME NEW s \in list, s.lo < r.lo
      PROVE  \E n \in Neighbours(r, list) :
                n \in list /\ n.lo < r.lo /\ s.lo <= n.lo
  <2> DEFINE S == {r.lo - m.lo : m \in {m \in list : m.lo < r.lo}}
  <2>1. S \in SUBSET Nat /\ S # {}
    BY <1>0, <1>2
  <2>2. PICK x \in S : \A y \in S : x <= y
    BY <2>1, LeastNat
  <2>3. PICK n \in list : n.lo < r.lo /\ r.lo - n.lo = x
    BY <2>2
  <2>4. \A m \in list : m.lo < r.lo => m.lo <= n.lo
    <3> SUFFICES ASSUME NEW m \in list, m.lo < r.lo PROVE m.lo <= n.lo
      OBVIOUS
    <3>1. r.lo - n.lo <= r.lo - m.lo
      BY <2>2, <2>3
    <3> QED
      BY <1>0, <3>1
  <2> QED
    BY <1>2, <2>3, <2>4 DEF Neighbours
<1>3. ASSUME NEW s \in list, s # r PROVE ~Within(s.lo, r)
  <2> SUFFICES ASSUME Within(s.lo, r) PROVE FALSE
    OBVIOUS
  <2>1. r.lo <= s.lo /\ (s.lo < r.hi \/ r.hi = 0)
    BY DEF Within
  <2>2. PICK n \in Neighbours(r, list) : n.lo >= r.lo /\ n.lo <= s.lo
    BY <1>0, <1>1, <2>1
  <2>3. n.lo \in Nat /\ n.hi \in Nat
    BY <1>0 DEF Neighbours
  <2>4. Overlap(r, n)
    BY <1>0, <2>1, <2>2, <2>3 DEF Overlap
  <2> QED
    BY <2>4
<1>4. ASSUME NEW s \in list, s # r PROVE ~Within(r.lo, s)
  <2> SUFFICES ASSUME Within(r.lo, s) PROVE FALSE
    OBVIOUS
  <2>1. s.lo <= r.lo /\ (r.lo < s.hi \/ s.hi = 0)
    BY DEF Within
  <2>2. CASE s.lo < r.lo
    <3>1. PICK n \in Neighbours(r, list) :
             n \in list /\ n.lo < r.lo /\ s.lo <= n.lo
      BY <1>2, <2>2
    <3>2. n = s
      BY <1>0, <2>1, <3>1 DEF Within
    <3> QED
      BY <1>0, <2>1, <3>1, <3>2 DEF Overlap
  <2>3. CASE s.lo = r.lo
    <3>1. s \in Neighbours(r, list)
      BY <1>0, <2>3 DEF Neighbours
    <3> QED
      BY <1>0, <2>1, <3>1 DEF Overlap
  <2> QED
    BY <1>0, <2>1, <2>2, <2>3
<1> QED
  BY <1>3, <1>4

(* The list a command starts from. *)
LEMMA UserListApart ==
  ASSUME IInv, NEW list \in UserLists
  PROVE  list \in SUBSET Regions /\ \A s, t \in list : s # t => ~Within(t.lo, s)
BY DEF UserLists, IInv, TypeOK, StartsApart

(* A command leaves no access in progress. *)
LEMMA CommandParts ==
  ASSUME IInv, Command, UNCHANGED <<pc, at>>,
         memory' \in [Addresses -> Values], regions' \subseteq Regions,
         mem_use_target' \in BOOLEAN, synced' \in BOOLEAN,
         valid' = <<>> \/ valid' = valid
  PROVE  TypeOK' /\ OpInv'
<1>1. /\ pc' = "idle" /\ at' \in 0 .. Top + Lines /\ result' = "none"
      /\ op' \in [write : BOOLEAN, from : Nat, to : Nat, value : Values]
  BY DEF Command, IInv, TypeOK
<1>2. valid' \in Seq(Blocks) /\ Len(valid') <= Lines
  <2>1. CASE valid' = valid
    BY <2>1 DEF IInv, TypeOK
  <2>2. CASE valid' = <<>>
    <3>1. Len(valid') = 0 /\ Lines \in Nat /\ 0 <= Lines
      BY <2>2, OpTypes, DcacheAssumption
    <3>2. valid' \in Seq(Blocks)
      BY <2>2, EmptySeq
    <3> QED
      BY <3>1, <3>2
  <2> QED
    BY <2>1, <2>2
<1> QED
  BY <1>1, <1>2 DEF TypeOK, OpInv

(* An empty cache. *)
LEMMA EmptyCache ==
  ASSUME valid' = <<>>
  PROVE  LinesInv' /\ OnceInv' /\ SyncInv' /\ NothingLost
BY DEF LinesInv, OnceInv, SyncInv, NothingLost

(* The debuggee runs. *)
LEMMA ResumeStep ==
  ASSUME IInv, NEW a \in Changing, NEW v \in Values, Resume(a, v)
  PROVE  IInv' /\ NothingLost
<1>1. /\ Command /\ UNCHANGED <<regions, mem_use_target, pc, at>>
      /\ valid' = <<>> /\ synced' = TRUE
      /\ memory' = [memory EXCEPT ![a] = v]
  BY DEF Resume, Invalidate
<1>2. memory' \in [Addresses -> Values]
  BY <1>1 DEF IInv, TypeOK
<1>3. TypeOK' /\ OpInv'
  BY <1>1, <1>2, CommandParts DEF IInv, TypeOK
<1>4. StartsApart'
  BY <1>1 DEF IInv, StartsApart, Within
<1> QED
  BY <1>1, <1>3, <1>4, EmptyCache, StepParts

(* mem, mem auto: the cache stays, and is no longer counted as in step     *)
(* with the regions unless it is empty or the regions did not change.      *)
LEMMA RegionsBehindCache ==
  ASSUME IInv, UNCHANGED <<memory, valid>>,
         synced' = (synced /\ (valid = <<>> \/ regions' = regions))
  PROVE  LinesInv' /\ OnceInv' /\ SyncInv' /\ NothingLost
<1>1. NothingLost
  BY DirtyKept
<1>2. CASE valid = <<>>
  BY <1>2, EmptyCache
<1>3. CASE ~synced'
  <2>1. LinesInv' /\ OnceInv'
    BY <1>1 DEF IInv, LinesInv, OnceInv
  <2>2. SyncInv'
    BY <1>3 DEF SyncInv
  <2> QED
    BY <1>1, <2>1, <2>2
<1>4. CASE synced' /\ valid # <<>>
  <2>1. regions' = regions /\ synced' = synced
    BY <1>4 DEF IInv, TypeOK
  <2> QED
    BY <1>1, <2>1, CacheSame
<1> QED
  BY <1>1, <1>2, <1>3, <1>4

(* mem LO HI *)
LEMMA DefineStep ==
  ASSUME IInv, NEW r \in UserRegions, DefineRegion(r)
  PROVE  IInv' /\ NothingLost
<1>1. /\ Command /\ UNCHANGED <<memory, valid, pc, at>>
      /\ mem_use_target' = FALSE
      /\ synced' = (synced /\ (valid = <<>> \/ regions' = regions))
  BY DEF DefineRegion
<1>2. PICK list \in UserLists :
          regions' = IF Empty(r) \/ \E n \in Neighbours(r, list) : Overlap(r, n)
                     THEN list ELSE list \union {r}
  BY DEF DefineRegion
<1>3. r \in Regions
  BY DcacheAssumption
<1>4. /\ list \in SUBSET Regions
      /\ \A s, t \in list : s # t => ~Within(t.lo, s)
  BY UserListApart
<1>5. regions' \subseteq Regions /\ StartsApart'
  <2>1. CASE regions' = list
    BY <1>4, <2>1 DEF StartsApart, Within
  <2>2. CASE regions' # list
    <3>1. /\ regions' = list \union {r}
          /\ \A n \in Neighbours(r, list) : ~Overlap(r, n)
      BY <1>2, <2>2
    <3>2. \A s, t \in list \union {r} : s # t => ~Within(t.lo, s)
      BY <1>3, <1>4, <3>1, DefineApart
    <3> QED
      BY <1>3, <1>4, <3>1, <3>2 DEF StartsApart, Within
  <2> QED
    BY <2>1, <2>2
<1>6. LinesInv' /\ OnceInv' /\ SyncInv' /\ NothingLost
  BY <1>1, RegionsBehindCache
<1>7. TypeOK' /\ OpInv'
  BY <1>1, <1>5, CommandParts DEF IInv, TypeOK
<1> QED
  BY <1>5, <1>6, <1>7, StepParts

(* mem auto *)
LEMMA AutoStep ==
  ASSUME IInv, AutoRegions
  PROVE  IInv' /\ NothingLost
<1>1. /\ Command /\ UNCHANGED <<memory, valid, pc, at>>
      /\ mem_use_target' = TRUE /\ regions' = TargetMap
      /\ synced' = (synced /\ (valid = <<>> \/ regions' = regions))
  BY DEF AutoRegions
<1>2. regions' \subseteq Regions /\ StartsApart'
  BY <1>1, DcacheAssumption, MapAssumption DEF StartsApart, Within
<1>3. LinesInv' /\ OnceInv' /\ SyncInv' /\ NothingLost
  BY <1>1, RegionsBehindCache
<1>4. TypeOK' /\ OpInv'
  BY <1>1, <1>2, CommandParts DEF IInv, TypeOK
<1> QED
  BY <1>2, <1>3, <1>4, StepParts

(* enable mem, disable mem, delete mem *)
LEMMA SwitchStep ==
  ASSUME IInv, NEW r \in regions, SwitchRegion(r) \/ DeleteRegion(r)
  PROVE  IInv' /\ NothingLost
<1>1. /\ Command /\ UNCHANGED <<memory, pc, at>> /\ valid' = <<>>
      /\ mem_use_target' = FALSE /\ synced' = TRUE
  BY DEF SwitchRegion, DeleteRegion, Invalidate
<1>2. PICK list \in UserLists :
        \/ regions' = list
        \/ regions' = list \ {r}
        \/ r \in list
             /\ regions' = (list \ {r}) \union {[r EXCEPT !.enabled = ~@]}
  BY DEF SwitchRegion, DeleteRegion
<1>3. /\ list \in SUBSET Regions
      /\ \A s, t \in list : s # t => ~Within(t.lo, s)
  BY UserListApart
<1>4. regions' \subseteq Regions /\ StartsApart'
  <2>1. CASE regions' = list \/ regions' = list \ {r}
    BY <1>3, <2>1 DEF StartsApart, Within
  <2>2. CASE /\ r \in list
             /\ regions' = (list \ {r}) \union {[r EXCEPT !.enabled = ~@]}
    <3> DEFINE nr == [r EXCEPT !.enabled = ~@]
    <3>1. nr \in Regions /\ nr.lo = r.lo /\ nr.hi = r.hi
      BY <1>3, <2>2 DEF Regions
    <3>2. regions' = (list \ {r}) \union {nr}
      BY <2>2
    <3> HIDE DEF nr
    <3>3. \A s, t \in (list \ {r}) \union {nr} : s # t => ~Within(t.lo, s)
      BY <1>3, <2>2, <3>1 DEF Within
    <3> QED
      BY <1>3, <3>1, <3>2, <3>3 DEF StartsApart, Within
  <2> QED
    BY <1>2, <2>1, <2>2
<1>5. TypeOK' /\ OpInv'
  BY <1>1, <1>4, CommandParts DEF IInv, TypeOK
<1> QED
  BY <1>1, <1>4, <1>5, EmptyCache, StepParts

-----------------------------------------------------------------------------
(* Every step preserves the invariant and loses no dirty byte. *)
LEMMA StepKeeps ==
  ASSUME IInv, [Next]_vars
  PROVE  IInv' /\ NothingLost
<1>1. ASSUME NEW S \in Accesses, NEW v \in Values,
             Access(TRUE, Smallest(S), Cardinality(S), v)
      PROVE  IInv' /\ NothingLost
  BY <1>1, AccessBounds, AccessStep
<1>2. ASSUME NEW S \in Accesses,
             Access(FALSE, Smallest(S), Cardinality(S), 0)
      PROVE  IInv' /\ NothingLost
  BY <1>2, AccessBounds, AccessStep, DcacheAssumption
<1>3. CASE UNCHANGED vars
  <2>1. StartsApart' /\ LinesInv' /\ OnceInv' /\ SyncInv' /\ NothingLost
    BY <1>3, CacheSame DEF vars
  <2>2. TypeOK'
    BY <1>3 DEF vars, IInv, TypeOK
  <2>3. OpInv'
    <3>1. \A x : CanWrite(x)' <=> CanWrite(x)
      BY <1>3, SameRegions DEF vars
    <3> QED
      BY <1>3, <3>1 DEF vars, IInv, OpInv
  <2> QED
    BY <2>1, <2>2, <2>3, StepParts
<1>4. CASE \E a \in Changing, v \in Values : Resume(a, v)
  BY <1>4, ResumeStep
<1>5. CASE \E r \in UserRegions : DefineRegion(r)
  BY <1>5, DefineStep
<1>6. CASE \E r \in regions : SwitchRegion(r) \/ DeleteRegion(r)
  BY <1>6, SwitchStep
<1> QED
  BY <1>1, <1>2, <1>3, <1>4, <1>5, <1>6, QuietSteps, WriteBackStep, FillStep,
     PokeStep, AllocFreeStep, AllocOldestStep, AutoStep DEF Next

(* The invariant holds at the start. *)
LEMMA InitInv == Init => IInv
<1> SUFFICES ASSUME Init PROVE IInv
  OBVIOUS
<1>1. TypeOK
  BY DcacheAssumption, OpTypes, EmptySeq DEF Init, TypeOK
<1>2. StartsApart
  BY MapAssumption DEF Init, StartsApart, Within
<1>3. LinesInv /\ OnceInv /\ SyncInv /\ OpInv
  BY DEF Init, LinesInv, OnceInv, SyncInv, OpInv
<1> QED
  BY <1>1, <1>2, <1>3 DEF IInv

(* It holds in every state. *)
LEMMA Inductive == Spec => []IInv
<1>1. IInv /\ [Next]_vars => IInv'
  BY StepKeeps
<1> QED
  BY <1>1, InitInv, PTL DEF Spec

-----------------------------------------------------------------------------
(* The cache, its blocks and the access in progress keep their types; in   *)
(* particular no more blocks are in use than there are.                    *)
THEOREM CacheTypes == Spec => []TypeOK
<1>1. IInv => TypeOK
  BY DEF IInv
<1> QED
  BY <1>1, Inductive, PTL

(* No two regions the user sees overlap, whatever is defined, enabled,     *)
(* disabled and deleted: create_mem_region tests the neighbours only.      *)
THEOREM RegionsNeverOverlap == Spec => []RegionsApart
<1>1. IInv => RegionsApart
  BY ApartEverywhere DEF IInv, RegionsApart, Addresses
<1> QED
  BY <1>1, Inductive, PTL

(* What a line marks as the same as in memory is, and a line is held once, *)
(* while no region was defined behind the cache's back.                    *)
THEOREM Coherent == Spec => []CoherentWhileSynced
<1>1. IInv => CoherentWhileSynced
  BY DEF IInv, SyncInv, Fresh, OnceInv, CoherentWhileSynced
<1> QED
  BY <1>1, Inductive, PTL

(* A line with a dirty byte is marked dirty, whatever writing of the line  *)
(* failed on the way.                                                      *)
THEOREM DirtyLinesMarked == Spec => []DirtyTracked
<1>1. IInv => DirtyTracked
  BY DEF IInv, SyncInv, Marked, DirtyTracked
<1> QED
  BY <1>1, Inductive, PTL

(* A dirty byte leaves the cache for the target's memory only, unless the  *)
(* whole cache is dropped.                                                 *)
THEOREM DirtyBytesReachMemory == Spec => NoDirtyLost
<1>1. IInv /\ [Next]_vars =>
        [synced /\ valid' # <<>> =>
           \A i \in DOMAIN valid : \A a \in DirtyBytes(valid[i]) \ Dirty' :
              memory'[a] = Data(valid[i], a)]_vars
  BY StepKeeps DEF NothingLost
<1> QED
  BY <1>1, Inductive, PTL DEF Spec, NoDirtyLost
=============================================================================
