------------------------------ MODULE Dcache ------------------------------
(***************************************************************************)
(* gdb's cache of target memory (gdb/dcache.c), the memory regions that    *)
(* say what may be cached (gdb/memattr.c), and memory_xfer_partial of      *)
(* gdb/target.c, which sends an access through the cache or past it.       *)
(*                                                                         *)
(* An access is made byte by byte and ends with a writeback of all lines.  *)
(* Every raw write to the target may fail, or be quit, part of the way.    *)
(***************************************************************************)
EXTENDS Integers, Sequences, FiniteSets

CONSTANTS Lines,        \* DCACHE_SIZE
          LineSize,     \* LINE_SIZE
          Top,          \* addresses are 0 .. Top - 1
          Values,       \* what a byte may hold
          Accesses,     \* the accesses made, as sets of addresses in a row
          Changing,     \* where the debuggee changes its own memory
          TargetMap,    \* the regions the target provides
          UserRegions   \* those the user may define

VARIABLES memory,   \* the debuggee's
          regions,  \* mem_region_list
          mem_use_target, \* it is the target's
          valid,    \* the blocks in use, oldest first
          pc,       \* of the access in progress
          op,       \* that access
          at,       \* its next byte, or the line being written back
          result,   \* how the last access ended
          synced    \* history: no mem command changed the regions since the
                    \*   cache was last empty without emptying it

target == <<memory, regions, mem_use_target>>
vars == <<memory, regions, mem_use_target, valid, pc, op, at, result,
          synced>>

Addresses == 0 .. Top - 1
Offsets == 0 .. LineSize - 1
Blocks  == [addr : Addresses, data : [Offsets -> Values],
            state : [Offsets -> {"BAD", "DIRTY", "OK"}], anydirty : BOOLEAN]
Modes   == {"NONE", "RW", "RO", "WO", "FLASH"}
Regions == [lo : Nat, hi : Nat, mode : Modes, cache : BOOLEAN,
            enabled : BOOLEAN]

ASSUME DcacheAssumption ==
    /\ Lines \in Nat \ {0} /\ LineSize \in Nat \ {0} /\ Top \in Nat
    /\ Top % LineSize = 0 /\ 0 \in Values
    /\ Accesses \subseteq SUBSET (0 .. Top - 1)
    /\ {} \notin Accesses        \* no length, no work (memory_xfer_partial)
    /\ Changing \subseteq 0 .. Top - 1
    /\ TargetMap \subseteq Regions /\ UserRegions \subseteq Regions

NoOp == [write |-> FALSE, from |-> 0, to |-> 0, value |-> 0]

Init == /\ memory = [a \in Addresses |-> 0]
        /\ regions = TargetMap
        /\ mem_use_target = TRUE
        /\ valid = <<>>
        /\ pc = "idle"
        /\ op = NoOp
        /\ at = 0
        /\ result = "none"
        /\ synced = TRUE

-----------------------------------------------------------------------------
(* Regions.  An hi of 0 means that the region has no upper bound. *)

Smallest(S) == CHOOSE x \in S : \A y \in S : x <= y
Within(a, r) == r.lo <= a /\ (a < r.hi \/ r.hi = 0)

(* target_memory_map ignores a map in which a region begins in another.    *)
ASSUME MapAssumption ==
    \A r, s \in TargetMap : r # s => ~Within(s.lo, r)

(* lookup_mem_region: an enabled region, or the gap around the address,    *)
(* which is inaccessible once any region is defined.                       *)
Region(a) ==
    LET enabled == {r \in regions : r.enabled}
        above   == {r.lo : r \in {r \in enabled : a <= r.lo}}
    IN  IF \E r \in enabled : Within(a, r)
        THEN CHOOSE r \in enabled : Within(a, r)
        ELSE [hi |-> IF above = {} THEN 0 ELSE Smallest(above),
              mode |-> IF regions = {} THEN "RW" ELSE "NONE",
              cache |-> FALSE]

CanRead(a)  == Region(a).cache /\ Region(a).mode # "WO"
CanWrite(a) == Region(a).cache /\ Region(a).mode # "RO"

(* Mutant: a new region around an old one is not noticed. *)
OverlapOfEnds(r, n) == \/ r.lo >= n.lo /\ (r.lo < n.hi \/ n.hi = 0)
                       \/ r.hi > n.lo /\ (r.hi <= n.hi \/ n.hi = 0)

(* create_mem_region's test, on the neighbours of the new region: the      *)
(* sorted list's last one below it and the first from it on.               *)
Neighbours(r, list) ==
    {n \in list : \/ /\ n.lo < r.lo
                     /\ \A m \in list : m.lo < r.lo => m.lo <= n.lo
                  \/ /\ n.lo >= r.lo
                     /\ \A m \in list : m.lo >= r.lo => n.lo <= m.lo}
Overlap(r, n) == \/ r.lo >= n.lo /\ (r.lo < n.hi \/ n.hi = 0)
                 \/ r.hi > n.lo /\ (r.hi <= n.hi \/ n.hi = 0)
                 \/ r.lo <= n.lo /\ (r.hi >= n.hi \/ r.hi = 0)

-----------------------------------------------------------------------------
(* A line. *)

Line(a)   == a - (a % LineSize)                      \* MASK
Bytes(b)  == b.addr .. b.addr + LineSize - 1
State(b, a) == b.state[a % LineSize]
Data(b, a)  == b.data[a % LineSize]
DirtyBytes(b) == {a \in Bytes(b) : State(b, a) = "DIRTY"}

(* The loops over the regions of a line compute the length of a part from  *)
(* the region's hi, and have no case for 0: they never reach the end.      *)
Unbounded(b) == \E a \in Bytes(b) : Region(a).hi = 0

(* The dirty bytes of a line that may be written, and the run of them that *)
(* one target_write transfers together with a.                             *)
ToWrite(b) == {a \in DirtyBytes(b) : CanWrite(a)}
RunOf(b, a) ==
    {c \in ToWrite(b) :
        /\ Region(c) = Region(a)
        /\ \A x \in Bytes(b) : (a <= x /\ x <= c) \/ (c <= x /\ x <= a)
                                   => x \in ToWrite(b)}

(* A line of which the bytes in w were written.  A run of them is marked   *)
(* only when all of it was.                                                *)
Outcome(b, w) ==
    [ok |-> w = ToWrite(b),
     memory |-> [a \in Addresses |-> IF a \in w THEN Data(b, a)
                                                ELSE memory[a]],
     block |-> [addr |-> b.addr,
                data |-> b.data,
                state |-> [o \in Offsets |->
                   IF b.addr + o \in w /\ RunOf(b, b.addr + o) \subseteq w
                   THEN "OK" ELSE b.state[o]],
                anydirty |-> w # ToWrite(b)]]

(* What dcache_write_line can make of a line: the bytes are written in     *)
(* order, up to where the target gives up.                                 *)
WriteLine(b) ==
    IF ~b.anydirty
    THEN {[ok |-> TRUE, memory |-> memory, block |-> b]}
    ELSE {Outcome(b, {a \in ToWrite(b) : a < n}) :
             n \in b.addr .. b.addr + LineSize}

(* dcache_read_line of a clean line from memory m: parts that are not      *)
(* readable through the cache are skipped, and the whole line is marked.   *)
ReadLine(b, m) ==
    [addr |-> b.addr,
     data |-> [o \in Offsets |-> IF CanRead(b.addr + o) THEN m[b.addr + o]
                                                        ELSE b.data[o]],
     state |-> [o \in Offsets |-> "OK"],
     anydirty |-> FALSE]

-----------------------------------------------------------------------------
(* An access: memory_xfer_partial, then dcache_xfer_memory. *)

Finish(r) == /\ pc' = "idle"
             /\ op' = NoOp
             /\ at' = 0
             /\ result' = r

(* The part of the access that the region allows is made. *)
Access(write, a, n, v) ==
    LET r  == Region(a)
        to == IF a + n < r.hi \/ r.hi = 0 THEN a + n ELSE r.hi
    IN  /\ pc = "idle"
        /\ IF \/ r.mode = "NONE" \/ (r.mode = "WO" /\ ~write)
              \/ (r.mode \in {"RO", "FLASH"} /\ write)
           THEN Finish("error") /\ UNCHANGED memory
           ELSE IF r.cache
           THEN /\ pc' = "byte"
                /\ op' = [write |-> write, from |-> a, to |-> to, value |-> v]
                /\ at' = a
                /\ result' = "none"
                /\ UNCHANGED memory
           ELSE \E k \in a .. to :              \* past the cache
                  /\ memory' = IF write THEN [x \in Addresses |->
                                  IF a <= x /\ x < k THEN v ELSE memory[x]]
                               ELSE memory
                  /\ Finish(IF k = to THEN "ok" ELSE "error")
        /\ UNCHANGED <<regions, mem_use_target, valid, synced>>

Hits(a) == {i \in DOMAIN valid : valid[i].addr = Line(a)}
Missing == pc = "byte" /\ at < op.to /\ Hits(at) = {}
Hit     == CHOOSE i \in Hits(at) : \A j \in Hits(at) : i <= j
Present == pc = "byte" /\ at < op.to /\ Hits(at) # {}

(* dcache_alloc; the block keeps the bytes it had for another address. *)
NewBlock(d) == [addr |-> Line(at), data |-> d,
                state |-> [o \in Offsets |-> "BAD"], anydirty |-> FALSE]

AllocFree == /\ Missing /\ Len(valid) < Lines
             /\ \E d \in [Offsets -> Values] :
                   valid' = Append(valid, NewBlock(d))
             /\ UNCHANGED <<target, pc, op, at, result, synced>>

(* Mutant: the block stays at the head of the list as well. *)
AllocOldestKept ==
    /\ Missing /\ Len(valid) = Lines
    /\ \E w \in WriteLine(Head(valid)) :
          /\ w.ok
          /\ memory' = w.memory
          /\ valid' = Append(valid, NewBlock(w.block.data))
    /\ UNCHANGED <<regions, mem_use_target, pc, op, at, result, synced>>

(* Mutant: the oldest line is taken without a look at its dirty bytes. *)
AllocOldestUnwritten ==
    /\ Missing /\ Len(valid) = Lines
    /\ valid' = Append(Tail(valid), NewBlock(Head(valid).data))
    /\ UNCHANGED <<target, pc, op, at, result, synced>>

(* The oldest line is written and taken; if it cannot be written, the      *)
(* access fails and the line stays.                                        *)
AllocOldest ==
    /\ Missing /\ Len(valid) = Lines
    /\ ~(Head(valid).anydirty /\ Unbounded(Head(valid)))
    /\ \E w \in WriteLine(Head(valid)) :
          /\ memory' = w.memory
          /\ IF w.ok
             THEN /\ valid' = Append(Tail(valid), NewBlock(w.block.data))
                  /\ UNCHANGED <<pc, op, at, result>>
             ELSE /\ valid' = [valid EXCEPT ![1] = w.block]
                  /\ Finish("error")
    /\ UNCHANGED <<regions, mem_use_target, synced>>

(* dcache_peek_byte *)
PeekByte == /\ Present /\ ~op.write
            /\ State(valid[Hit], at) # "BAD"
            /\ at' = at + 1
            /\ UNCHANGED <<target, valid, pc, op, result, synced>>

(* A byte that is not there: the line is written, then read; either may    *)
(* fail, and the reading changes nothing unless all of it succeeds.        *)
FillLine ==
    /\ Present /\ ~op.write
    /\ State(valid[Hit], at) = "BAD"
    /\ ~Unbounded(valid[Hit])
    /\ \E w \in WriteLine(valid[Hit]), read \in BOOLEAN :
          /\ memory' = w.memory
          /\ IF w.ok /\ read
             THEN /\ valid' = [valid EXCEPT ![Hit] = ReadLine(w.block, w.memory)]
                  /\ UNCHANGED <<pc, op, at, result>>
             ELSE /\ valid' = [valid EXCEPT ![Hit] = w.block]
                  /\ Finish("error")
    /\ UNCHANGED <<regions, mem_use_target, synced>>

(* The block with the next byte stored. *)
Poked(b, marked) == [addr |-> b.addr,
                     data |-> [b.data EXCEPT ![at % LineSize] = op.value],
                     state |-> [b.state EXCEPT ![at % LineSize] = "DIRTY"],
                     anydirty |-> marked]

(* Mutant: the byte is stored but the line is not marked. *)
PokeByteUnmarked ==
    /\ Present /\ op.write
    /\ valid' = [valid EXCEPT ![Hit] = Poked(@, @.anydirty)]
    /\ at' = at + 1
    /\ UNCHANGED <<target, pc, op, result, synced>>

(* dcache_poke_byte *)
PokeByte == /\ Present /\ op.write
            /\ valid' = [valid EXCEPT ![Hit] = Poked(@, TRUE)]
            /\ at' = at + 1
            /\ UNCHANGED <<target, pc, op, result, synced>>

LastByte == /\ pc = "byte" /\ at = op.to
            /\ IF op.write
               THEN pc' = "writeback" /\ at' = 1 /\ UNCHANGED <<op, result>>
               ELSE Finish("ok")
            /\ UNCHANGED <<target, valid, synced>>

(* dcache_writeback, line by line.  It stops at a line that cannot be      *)
(* written, and its verdict is not looked at; only a quit is reported.     *)
WriteBack ==
    /\ pc = "writeback" /\ at <= Len(valid)
    /\ ~(valid[at].anydirty /\ Unbounded(valid[at]))
    /\ \E w \in WriteLine(valid[at]) :
          /\ memory' = w.memory
          /\ valid' = [valid EXCEPT ![at] = w.block]
          /\ IF w.ok THEN at' = at + 1 /\ UNCHANGED <<pc, op, result>>
             ELSE \E r \in {"ok", "error"} : Finish(r)
    /\ UNCHANGED <<regions, mem_use_target, synced>>

WrittenBack == /\ pc = "writeback" /\ at > Len(valid)
               /\ Finish("ok")
               /\ UNCHANGED <<target, valid, synced>>

(* A line with a part that has no upper bound: the loop over its parts     *)
(* does not come to an end.                                                *)
RunAway == /\ \/ Missing /\ Len(valid) = Lines /\ Head(valid).anydirty
                    /\ Unbounded(Head(valid))
              \/ Present /\ ~op.write /\ State(valid[Hit], at) = "BAD"
                    /\ Unbounded(valid[Hit])
              \/ pc = "writeback" /\ at <= Len(valid) /\ valid[at].anydirty
                    /\ Unbounded(valid[at])
           /\ pc' = "runaway"
           /\ UNCHANGED <<target, valid, op, at, result, synced>>

-----------------------------------------------------------------------------
(* dcache_invalidate *)
Invalidate == /\ valid' = <<>>
              /\ synced' = TRUE

Command == pc = "idle" /\ result' = "none" /\ UNCHANGED op

(* Mutant: the cache outlives a resume. *)
ResumeKeepingCache(a, v) ==
    /\ Command
    /\ memory' = [memory EXCEPT ![a] = v]
    /\ UNCHANGED <<regions, mem_use_target, valid, pc, at, synced>>

(* target_resume and target_load: the debuggee runs, and its memory is not *)
(* what it was.                                                            *)
Resume(a, v) == /\ Command
                /\ Invalidate
                /\ memory' = [memory EXCEPT ![a] = v]
                /\ UNCHANGED <<regions, mem_use_target, pc, at>>

(* require_user_regions: the user's list starts as a copy of the target's, *)
(* empty if no access has fetched that yet.                                *)
UserLists == IF mem_use_target THEN {regions, {}} ELSE {regions}

(* mem LO HI ...: the cache is left as it is.  A region with no address is *)
(* refused, but the list is the user's by then.                            *)
Empty(r) == r.hi # 0 /\ r.lo >= r.hi
DefineRegion(r) ==
    /\ Command
    /\ mem_use_target' = FALSE
    /\ \E list \in UserLists :
          regions' = IF Empty(r) \/ \E n \in Neighbours(r, list) : Overlap(r, n)
                     THEN list ELSE list \union {r}
    /\ synced' = (synced /\ (valid = <<>> \/ regions' = regions))
    /\ UNCHANGED <<memory, valid, pc, at>>

(* mem auto: so it is here. *)
AutoRegions == /\ Command
               /\ ~mem_use_target
               /\ mem_use_target' = TRUE
               /\ regions' = TargetMap
               /\ synced' = (synced /\ (valid = <<>> \/ regions' = regions))
               /\ UNCHANGED <<memory, valid, pc, at>>

(* enable mem, disable mem *)
SwitchRegion(r) ==
    /\ Command
    /\ Invalidate
    /\ mem_use_target' = FALSE
    /\ \E list \in UserLists :
          regions' = IF r \in list
                     THEN (list \ {r}) \union {[r EXCEPT !.enabled = ~@]}
                     ELSE list
    /\ UNCHANGED <<memory, pc, at>>

(* delete mem *)
DeleteRegion(r) == /\ Command
                   /\ Invalidate
                   /\ mem_use_target' = FALSE
                   /\ \E list \in UserLists : regions' = list \ {r}
                   /\ UNCHANGED <<memory, pc, at>>

Next == \/ \E S \in Accesses, v \in Values :
              Access(TRUE, Smallest(S), Cardinality(S), v)
        \/ \E S \in Accesses : Access(FALSE, Smallest(S), Cardinality(S), 0)
        \/ AllocFree \/ AllocOldest \/ PeekByte \/ FillLine \/ PokeByte
        \/ LastByte \/ WriteBack \/ WrittenBack \/ RunAway
        \/ \E a \in Changing, v \in Values : Resume(a, v)
        \/ \E r \in UserRegions : DefineRegion(r)
        \/ AutoRegions
        \/ \E r \in regions : SwitchRegion(r) \/ DeleteRegion(r)

Spec == Init /\ [][Next]_vars

-----------------------------------------------------------------------------
TypeOK == /\ memory \in [Addresses -> Values]
          /\ regions \subseteq Regions
          /\ mem_use_target \in BOOLEAN
          /\ valid \in Seq(Blocks) /\ Len(valid) <= Lines
          /\ pc \in {"idle", "byte", "writeback", "runaway"}
          /\ op \in [write : BOOLEAN, from : Nat, to : Nat, value : Values]
          /\ at \in 0 .. Top + Lines
          /\ result \in {"none", "ok", "error"}
          /\ synced \in BOOLEAN

(* No two regions the user sees overlap, unbounded ones included: testing  *)
(* the neighbours in the list is enough.                                   *)
RegionsApart == \A r, s \in regions : r # s =>
                   \A a \in Addresses : ~(Within(a, r) /\ Within(a, s))

(* A byte marked as the same as in memory is, and a line is held once:     *)
(* through evictions, partial and failed writes, and reads that fill a     *)
(* line around bytes not written yet, while no region was defined behind   *)
(* the cache's back.                                                       *)
CoherentWhileSynced ==
    synced => \A i \in DOMAIN valid :
      /\ \A a \in Bytes(valid[i]) :
            State(valid[i], a) = "OK" /\ CanRead(a)
               => Data(valid[i], a) = memory[a]
      /\ \A j \in DOMAIN valid : valid[i].addr = valid[j].addr => i = j

(* A line that holds a dirty byte is marked dirty, whatever writing of the *)
(* line failed on the way: dcache_write_line skips lines not so marked.    *)
DirtyTracked ==
    synced => \A i \in DOMAIN valid :
                 DirtyBytes(valid[i]) # {} => valid[i].anydirty

Dirty == {a \in Addresses : \E i \in DOMAIN valid : a \in DirtyBytes(valid[i])}

(* A dirty byte leaves the cache only for the target's memory, or because  *)
(* the whole cache is dropped: dcache_alloc never evicts it unwritten.     *)
NoDirtyLost ==
    [][synced /\ valid' # <<>> =>
         \A i \in DOMAIN valid : \A a \in DirtyBytes(valid[i]) \ Dirty' :
            memory'[a] = Data(valid[i], a)]_vars

(* ENTRY_OK means that the data is the same in the cache as it is in       *)
(* remote memory, as the comment on the states in dcache.c has it.         *)
OkMeansSame == \A i \in DOMAIN valid : \A a \in Bytes(valid[i]) :
                  State(valid[i], a) = "OK" /\ CanRead(a)
                     => Data(valid[i], a) = memory[a]

(* dcache_xfer_memory returns 0 for error: a write it reports as done has  *)
(* reached the target.                                                     *)
ReportedWritten ==
    [][op.write /\ result' = "ok" =>
         \A a \in op.from .. op.to - 1 : memory'[a] = op.value]_vars

(* An hi of 0 is a region without an upper bound (memattr.h), also to the  *)
(* code that splits a line by regions: it comes to an end.                 *)
SplitEnds == pc # "runaway"
=============================================================================
