------------------------- MODULE BreakpointsProofs -------------------------
(***************************************************************************)
(* The properties of Breakpoints, for any addresses and any number of      *)
(* breakpoints.                                                            *)
(***************************************************************************)
EXTENDS Breakpoints, SequenceTheorems, WellFoundedInduction, TLAPS

(* A location is inserted, or one is enabled, at an address.               *)
Holds(c, a) == \E i \in DOMAIN c : c[i].inserted /\ c[i].address = a
Wants(c, a) == \E i \in DOMAIN c : c[i].enabled /\ c[i].address = a

(* Of the enabled locations at an address the first is no duplicate.       *)
Later(c, i) == \E j \in DOMAIN c : /\ j < i /\ c[j].enabled
                                   /\ c[j].address = c[i].address
DupRight(c) == \A i \in DOMAIN c :
                  c[i].enabled => (c[i].duplicate <=> Later(c, i))

(* A location that is disabled and says it is inserted has handed over to  *)
(* the one that should be.                                                 *)
Covers(c, a) == \E f \in DOMAIN c : /\ should_be_inserted(c[f])
                                    /\ c[f].inserted /\ c[f].address = a
Covered(c) == \A k \in DOMAIN c :
                 c[k].inserted /\ ~c[k].enabled => Covers(c, c[k].address)

(* Shadows hold what the program P has at the addresses U; so has memory,  *)
(* but where a location is inserted.                                       *)
Shadows(c, U, P) == \A i \in DOMAIN c :
    c[i].inserted /\ c[i].address \in U => c[i].shadow = P[c[i].address]
InMemory(s, U, P) == \A a \in U :
    s.memory[a] = IF Holds(s.chain, a) THEN Trap ELSE P[a]

Good(s, U, P) == /\ DupRight(s.chain) /\ Covered(s.chain)
                 /\ Shadows(s.chain, U, P) /\ InMemory(s, U, P)

(* The breakpoints of single stepping.                                     *)
SlotsInv ==
    /\ stepping => at = "running"
    /\ Disturbances \subseteq disturbed
    /\ \A k \in 1..2 :
          slots[k] # None /\ slots[k].address \notin disturbed
              => slots[k].shadow = program[slots[k].address]

(* While the process runs over no breakpoint the enabled ones are there.   *)
AllThere(c) == \A i \in DOMAIN c : c[i].enabled => Holds(c, c[i].address)
RunInv == at = "running" /\ ~over => AllThere(chain)

IInv == /\ TypeOK /\ Good(State, Undisturbed, program)
        /\ SlotsInv /\ RunInv

-----------------------------------------------------------------------------
(* Loops.                                                                  *)

(* What holds at 0 and goes from each number up to n to the next.          *)
LEMMA UpTo ==
    ASSUME NEW n \in Nat, NEW S, 0 \in S, \A k \in 1..n : k - 1 \in S => k \in S
    PROVE  n \in S
<1> SUFFICES ASSUME n \notin S
             PROVE  FALSE
  OBVIOUS
<1> DEFINE T == (0..n) \ S
<1>1. IsWellFoundedOn(OpToRel(<, Nat), Nat)
  BY NatLessThanWellFounded
<1>2. T \in SUBSET Nat /\ T # {}
  OBVIOUS
<1> HIDE DEF T
<1>3. PICK x \in T : \A y \in T : ~(<<y, x>> \in OpToRel(<, Nat))
  BY <1>1, <1>2, WFMin
<1>4. x \in 1..n /\ x \notin S
  BY DEF T
<1>5. x - 1 \in S
  <2>1. x - 1 \in 0..n /\ x - 1 \in Nat /\ x \in Nat /\ x - 1 < x
    BY <1>4
  <2>2. x - 1 \notin T
    BY <1>3, <2>1 DEF OpToRel
  <2> QED
    BY <2>1, <2>2 DEF T
<1> QED
  BY <1>4, <1>5

(* A loop of n steps within a set is defined.                              *)
IsLoop(u, n, s, step) ==
    u = [k \in 0..n |-> IF k = 0 THEN s ELSE step[<<u[k-1], k>>]]

(* Such a loop is a function.                                              *)
LEMMA LoopDefined ==
    ASSUME NEW n \in Nat, NEW T, NEW s \in T, NEW step \in [T \X (1..n) -> T]
    PROVE  \E u \in [0..n -> T] : IsLoop(u, n, s, step)
<1> DEFINE Right(j, u) == \A k \in 0..j : u[k] = IF k = 0 THEN s
                                                 ELSE step[<<u[k-1], k>>]
           S == {j \in 0..n : \E u \in [0..j -> T] : Right(j, u)}
<1>1. 0 \in S
  <2> DEFINE g == [k \in 0..0 |-> s]
  <2>1. g \in [0..0 -> T] /\ Right(0, g) /\ 0 \in 0..n
    OBVIOUS
  <2> HIDE DEF g, Right
  <2> QED
    BY <2>1
<1>2. ASSUME NEW i \in 1..n, i - 1 \in S PROVE i \in S
  <2> DEFINE j == i - 1
  <2>1. PICK g \in [0..j -> T] : Right(j, g)
    BY <1>2
  <2>2. /\ j \in 0..i /\ j # i /\ i # 0 /\ j \in 0..j
        /\ \A k \in 0..i : k # i => k \in 0..j
        /\ \A k \in 0..j : k \in 0..i /\ k # i /\ (k # 0 => k - 1 \in 0..j)
    OBVIOUS
  <2> HIDE DEF j
  <2> DEFINE u == [k \in 0..i |-> IF k = i THEN step[<<g[j], i>>] ELSE g[k]]
  <2>3. g[j] \in T /\ step[<<g[j], i>>] \in T
    BY <2>1, <2>2
  <2>4. u \in [0..i -> T]
    BY <2>1, <2>2, <2>3
  <2>5. u[i] = step[<<g[j], i>>] /\ \A k \in 0..j : u[k] = g[k]
    BY <2>2
  <2>6. ASSUME NEW k \in 0..i
        PROVE  u[k] = IF k = 0 THEN s ELSE step[<<u[k-1], k>>]
    <3>1. CASE k = i
      <4>1. u[k-1] = g[j]
        BY <2>2, <2>5, <3>1 DEF j
      <4> QED
        BY <2>2, <2>5, <3>1, <4>1
    <3>2. CASE k # i
      <4>1. k \in 0..j /\ u[k] = g[k] /\ (k # 0 => u[k-1] = g[k-1])
        BY <2>2, <2>5, <3>2
      <4>2. g[k] = IF k = 0 THEN s ELSE step[<<g[k-1], k>>]
        BY <2>1, <4>1
      <4> QED
        BY <4>1, <4>2
    <3> QED
      BY <3>1, <3>2
  <2> HIDE DEF u
  <2> QED
    BY <2>4, <2>6
<1> HIDE DEF S
<1>3. n \in S
  BY <1>1, <1>2, UpTo
<1>4. PICK u \in [0..n -> T] : Right(n, u)
  BY <1>3 DEF S
<1>5. u = [k \in 0..n |-> u[k]]
  BY <1>4
<1> QED
  BY <1>4, <1>5 DEF IsLoop

(* A list with one of its elements changed.                                *)
LEMMA WithSeq ==
    ASSUME NEW S, NEW c \in Seq(S), NEW i \in DOMAIN c, NEW loc \in S
    PROVE  /\ With(c, i, loc) \in Seq(S) /\ Len(With(c, i, loc)) = Len(c)
           /\ DOMAIN With(c, i, loc) = DOMAIN c
           /\ With(c, i, loc)[i] = loc
           /\ \A k \in DOMAIN c : k # i => With(c, i, loc)[k] = c[k]
<1>1. Len(c) \in Nat /\ DOMAIN c = 1..Len(c) /\ c \in [1..Len(c) -> S]
  BY LenProperties
<1>2. With(c, i, loc) \in [1..Len(c) -> S]
  BY <1>1 DEF With
<1>3. With(c, i, loc) \in Seq(S) /\ DOMAIN With(c, i, loc) = 1..Len(c)
  BY <1>1, <1>2, SeqDef
<1> QED
  BY <1>1, <1>2, <1>3, LenProperties DEF With

(* A set of natural numbers has a least element.                           *)
LEMMA Least ==
    ASSUME NEW S \in SUBSET Nat, S # {}
    PROVE  \E x \in S : \A y \in S : x <= y
<1>1. IsWellFoundedOn(OpToRel(<, Nat), Nat)
  BY NatLessThanWellFounded
<1>2. PICK x \in S : \A y \in S : ~(<<y, x>> \in OpToRel(<, Nat))
  BY <1>1, WFMin
<1>3. ASSUME NEW y \in S PROVE x <= y
  <2>1. ~(y < x)
    BY <1>2 DEF OpToRel
  <2> QED
    BY <2>1
<1> QED
  BY <1>3

(* And one with a bound has a greatest element.                            *)
LEMMA Greatest ==
    ASSUME NEW n \in Nat, NEW S \in SUBSET (1..n), S # {}
    PROVE  \E x \in S : \A y \in S : y <= x
<1> DEFINE T == {k \in 0..n : n - k \in S}
<1>1. PICK z : z \in S
  OBVIOUS
<1>2. n - z \in T
  <2>1. n - z \in 0..n /\ n - (n - z) = z
    BY <1>1
  <2> QED
    BY <1>1, <2>1
<1>3. T \in SUBSET Nat /\ T # {}
  BY <1>2
<1>4. PICK x \in T : \A y \in T : x <= y
  <2> HIDE DEF T
  <2> QED
    BY <1>3, Least
<1>5. ASSUME NEW y \in S PROVE y <= n - x
  <2>1. n - y \in 0..n /\ n - (n - y) = y
    OBVIOUS
  <2>2. n - y \in T
    BY <2>1
  <2>3. x <= n - y /\ x \in Nat
    BY <1>3, <1>4, <2>2
  <2>4. y \in Nat
    OBVIOUS
  <2> HIDE DEF T
  <2> QED
    BY <2>3, <2>4
<1> QED
  BY <1>4, <1>5

-----------------------------------------------------------------------------
(* The steps of the loops.                                                 *)

States == [chain : Seq(Location), memory : [Addr -> Contents],
           error : BOOLEAN]

(* The locations of c and d are the same, at the same addresses, and the   *)
(* same ones are enabled.                                                  *)
SameLocs(c, d) ==
    /\ DOMAIN d = DOMAIN c
    /\ \A i \in DOMAIN c : /\ d[i].enabled = c[i].enabled
                           /\ d[i].address = c[i].address

(* t is s with its locations in order.                                     *)
InOrder(s, t, U, P) == /\ t \in States /\ Good(t, U, P)
                       /\ SameLocs(s.chain, t.chain)
                       /\ Len(t.chain) = Len(s.chain)

(* What a location in memory is, and one that is not.                      *)
LEMMA PutFields ==
    ASSUME NEW loc \in Location, NEW shadow \in Contents
    PROVE  /\ Put(loc, shadow) \in Location
           /\ Put(loc, shadow).address = loc.address
           /\ Put(loc, shadow).enabled = loc.enabled
           /\ Put(loc, shadow).duplicate = loc.duplicate
           /\ Put(loc, shadow).inserted = TRUE
           /\ Put(loc, shadow).shadow = shadow
BY DEF Put, Location

(* What a location is that has been taken out.                             *)
LEMMA OutFields ==
    ASSUME NEW loc \in Location
    PROVE  /\ Out(loc) \in Location
           /\ Out(loc).address = loc.address
           /\ Out(loc).enabled = loc.enabled
           /\ Out(loc).duplicate = loc.duplicate
           /\ Out(loc).inserted = FALSE
BY DEF Out, Location, Contents, Code

(* The fields of a location have their types.                              *)
LEMMA LocationsOf ==
    ASSUME NEW c \in Seq(Location)
    PROVE  /\ Len(c) \in Nat /\ DOMAIN c = 1..Len(c)
           /\ c \in [1..Len(c) -> Location]
           /\ \A i \in DOMAIN c :
                 /\ c[i] \in Location /\ c[i].address \in Addr
                 /\ c[i].enabled \in BOOLEAN /\ c[i].inserted \in BOOLEAN
                 /\ c[i].duplicate \in BOOLEAN /\ c[i].shadow \in Contents
<1>1. Len(c) \in Nat /\ DOMAIN c = 1..Len(c) /\ c \in [1..Len(c) -> Location]
  BY LenProperties
<1> QED
  BY <1>1 DEF Location

(* A read gives an instruction, and the program's where shadows and memory *)
(* are right.                                                              *)
LEMMA ReadsRight ==
    ASSUME NEW s \in States, NEW a \in Addr, NEW U, NEW P
    PROVE  /\ Reads(s, a) \in Contents
           /\ a \in U /\ Shadows(s.chain, U, P) /\ InMemory(s, U, P)
                => Reads(s, a) = P[a]
<1> DEFINE here == {i \in DOMAIN s.chain :
                       s.chain[i].inserted /\ s.chain[i].address = a}
           last == CHOOSE i \in here : \A j \in here : j <= i
<1>1. s.chain \in Seq(Location) /\ s.memory \in [Addr -> Contents]
  BY DEF States
<1>2. Len(s.chain) \in Nat /\ DOMAIN s.chain = 1..Len(s.chain)
      /\ \A i \in DOMAIN s.chain : s.chain[i].shadow \in Contents
  BY <1>1, LocationsOf
<1>3. Reads(s, a) = IF here = {} THEN s.memory[a] ELSE s.chain[last].shadow
  BY DEF Reads
<1>4. here # {} => last \in here
  <2>1. here \in SUBSET (1..Len(s.chain))
    BY <1>2
  <2> HIDE DEF here
  <2> QED
    BY <1>2, <2>1, Greatest
<1>5. here # {} <=> Holds(s.chain, a)
  BY DEF Holds
<1> HIDE DEF last
<1>6. CASE here = {}
  BY <1>1, <1>3, <1>5, <1>6 DEF InMemory
<1>7. CASE here # {}
  <2>1. /\ last \in DOMAIN s.chain /\ s.chain[last].inserted
        /\ s.chain[last].address = a /\ Reads(s, a) = s.chain[last].shadow
    BY <1>3, <1>4, <1>7
  <2> QED
    BY <1>2, <2>1 DEF Shadows
<1> QED
  BY <1>6, <1>7

(* What insert_bp_location does: nothing, an error, or a trap in memory.   *)
LEMMA InsertCases ==
    ASSUME NEW s \in States, NEW i \in DOMAIN s.chain
    PROVE  LET t == insert_bp_location(s, i)
               loc == s.chain[i]
           IN /\ t \in States
              /\ IF ~should_be_inserted(loc) \/ loc.inserted THEN t = s
                 ELSE IF loc.address \in Unwritable
                 THEN t.chain = s.chain /\ t.memory = s.memory /\ t.error
                 ELSE /\ t.chain = With(s.chain, i,
                                        Put(loc, Reads(s, loc.address)))
                      /\ t.memory = [s.memory EXCEPT ![loc.address] = Trap]
                      /\ t.error = s.error
<1> DEFINE loc == s.chain[i]
           t == insert_bp_location(s, i)
           c == With(s.chain, i, Put(loc, Reads(s, loc.address)))
           m == [s.memory EXCEPT ![loc.address] = Trap]
<1>1. s.chain \in Seq(Location) /\ s.memory \in [Addr -> Contents]
      /\ s.error \in BOOLEAN /\ loc \in Location /\ loc.address \in Addr
  BY LocationsOf DEF States
<1>2. Put(loc, Reads(s, loc.address)) \in Location
  BY <1>1, ReadsRight, PutFields
<1>3. c \in Seq(Location) /\ m \in [Addr -> Contents]
  BY <1>1, <1>2, WithSeq DEF Contents
<1>4. CASE ~should_be_inserted(loc) \/ loc.inserted
  <2>1. t = s
    BY <1>4 DEF insert_bp_location
  <2> QED
    BY <2>1, <1>4
<1>5. CASE ~(~should_be_inserted(loc) \/ loc.inserted)
           /\ loc.address \in Unwritable
  <2>1. t = [s EXCEPT !.error = TRUE]
    BY <1>5 DEF insert_bp_location
  <2>2. t \in States /\ t.chain = s.chain /\ t.memory = s.memory /\ t.error
    BY <2>1 DEF States
  <2> QED
    BY <2>2, <1>5
<1>6. CASE ~(~should_be_inserted(loc) \/ loc.inserted)
           /\ loc.address \notin Unwritable
  <2>1. t = [s EXCEPT !.chain = c, !.memory = m]
    BY <1>6 DEF insert_bp_location, States
  <2> HIDE DEF c, m
  <2>2. t \in States /\ t.chain = c /\ t.memory = m /\ t.error = s.error
    BY <1>3, <2>1 DEF States
  <2> QED
    BY <2>2, <1>6 DEF c, m
<1> QED
  BY <1>4, <1>5, <1>6

(* What remove_breakpoint does: nothing, or the shadow goes back to        *)
(* memory.                                                                 *)
LEMMA RemoveCases ==
    ASSUME NEW s \in States, NEW i \in DOMAIN s.chain
    PROVE  LET t == remove_breakpoint(s, i)
               loc == s.chain[i]
           IN /\ t \in States /\ t.error = s.error
              /\ IF ~loc.inserted THEN t = s
                 ELSE /\ t.chain = With(s.chain, i, Out(loc))
                      /\ t.memory = [s.memory EXCEPT ![loc.address] =
                                                        loc.shadow]
<1> DEFINE loc == s.chain[i]
           t == remove_breakpoint(s, i)
           c == With(s.chain, i, Out(loc))
           m == [s.memory EXCEPT ![loc.address] = loc.shadow]
<1>1. s.chain \in Seq(Location) /\ s.memory \in [Addr -> Contents]
      /\ s.error \in BOOLEAN /\ loc \in Location /\ loc.address \in Addr
      /\ loc.shadow \in Contents
  BY LocationsOf DEF States
<1>2. c \in Seq(Location) /\ m \in [Addr -> Contents]
  BY <1>1, OutFields, WithSeq
<1>3. CASE ~loc.inserted
  <2>1. t = s
    BY <1>3 DEF remove_breakpoint
  <2> QED
    BY <2>1, <1>3
<1>4. CASE loc.inserted
  <2>1. t = [s EXCEPT !.chain = c, !.memory = m]
    BY <1>4 DEF remove_breakpoint, States
  <2> HIDE DEF c, m
  <2>2. t \in States /\ t.chain = c /\ t.memory = m /\ t.error = s.error
    BY <1>2, <2>1 DEF States
  <2> QED
    BY <2>2, <1>4 DEF c, m
<1> QED
  BY <1>3, <1>4

(* One more location is inserted, or cannot be.                            *)
LEMMA InsertKeeps ==
    ASSUME NEW s \in States, NEW i \in DOMAIN s.chain, NEW U, NEW P,
           Good(s, U, P), U \subseteq Addr
    PROVE  LET t == insert_bp_location(s, i)
           IN /\ t \in States /\ Good(t, U, P) /\ SameLocs(s.chain, t.chain)
              /\ \A k \in DOMAIN s.chain :
                    /\ t.chain[k].duplicate = s.chain[k].duplicate
                    /\ s.chain[k].inserted => t.chain[k].inserted
              /\ ~t.error => /\ ~s.error
                             /\ should_be_inserted(t.chain[i])
                                  => t.chain[i].inserted
<1> DEFINE t == insert_bp_location(s, i)
           loc == s.chain[i]
           c == s.chain
           d == t.chain
           Ends == /\ t \in States /\ Good(t, U, P) /\ SameLocs(c, d)
                   /\ \A k \in DOMAIN c :
                         /\ d[k].duplicate = c[k].duplicate
                         /\ c[k].inserted => d[k].inserted
                   /\ ~t.error => /\ ~s.error
                                  /\ should_be_inserted(d[i])
                                       => d[i].inserted
<1> SUFFICES Ends
  OBVIOUS
<1>0. /\ s.chain \in Seq(Location) /\ loc \in Location /\ loc.address \in Addr
      /\ s.memory \in [Addr -> Contents]
      /\ \A k \in DOMAIN c : c[k] \in Location
  BY LocationsOf DEF States
<1>1. t \in States
  BY InsertCases
<1>2. CASE ~should_be_inserted(loc) \/ loc.inserted
  <2>1. t = s
    BY <1>2, InsertCases
  <2> HIDE DEF t
  <2>2. d = c
    BY <2>1
  <2> QED
    BY <1>1, <1>2, <2>1, <2>2 DEF SameLocs
<1>3. CASE ~(~should_be_inserted(loc) \/ loc.inserted)
           /\ loc.address \in Unwritable
  <2>1. t.chain = s.chain /\ t.memory = s.memory /\ t.error
    BY <1>3, InsertCases
  <2> HIDE DEF t
  <2>2. SameLocs(c, d)
    BY <2>1 DEF SameLocs
  <2>3. Good(t, U, P)
    BY <2>1 DEF Good, InMemory
  <2> QED
    BY <1>1, <2>1, <2>2, <2>3
<1>4. CASE ~(~should_be_inserted(loc) \/ loc.inserted)
           /\ loc.address \notin Unwritable
  <2> DEFINE put == Put(loc, Reads(s, loc.address))
  <2>1. /\ d = With(c, i, put)
        /\ t.memory = [s.memory EXCEPT ![loc.address] = Trap]
        /\ t.error = s.error
    BY <1>4, InsertCases
  <2>2. /\ put \in Location /\ put.address = loc.address
        /\ put.enabled = loc.enabled /\ put.duplicate = loc.duplicate
        /\ put.inserted /\ put.shadow = Reads(s, loc.address)
    BY <1>0, ReadsRight, PutFields
  <2>3. loc.address \in U => put.shadow = P[loc.address]
    BY <1>0, <2>2, ReadsRight DEF Good
  <2>4. /\ DOMAIN d = DOMAIN c /\ d[i] = put
        /\ \A k \in DOMAIN c : k # i => d[k] = c[k]
    <3> HIDE DEF t, put
    <3> QED
      BY <1>0, <2>1, <2>2, WithSeq
  <2>5. loc.enabled /\ ~loc.duplicate
    BY <1>4 DEF should_be_inserted
  <2> HIDE DEF t, put
  <2>6. /\ \A k \in DOMAIN c : /\ d[k].address = c[k].address
                               /\ d[k].enabled = c[k].enabled
                               /\ d[k].duplicate = c[k].duplicate
                               /\ c[k].inserted => d[k].inserted
                               /\ d[k].inserted => c[k].inserted \/ k = i
        /\ d[i].inserted /\ d[i].address = loc.address
    <3>1. ASSUME NEW k \in DOMAIN c
          PROVE  /\ d[k].address = c[k].address
                 /\ d[k].enabled = c[k].enabled
                 /\ d[k].duplicate = c[k].duplicate
                 /\ c[k].inserted => d[k].inserted
                 /\ d[k].inserted => c[k].inserted \/ k = i
      <4>1. CASE k = i
        BY <2>2, <2>4, <4>1
      <4>2. CASE k # i
        BY <2>4, <4>2
      <4> QED
        BY <4>1, <4>2
    <3> QED
      BY <3>1, <2>2, <2>4
  <2>7. SameLocs(c, d)
    BY <2>4, <2>6 DEF SameLocs
  <2>8. Good(t, U, P)
    <3>1. DupRight(d)
      <4>1. DupRight(c)
        BY DEF Good
      <4>2. \A k \in DOMAIN c : Later(d, k) <=> Later(c, k)
        BY <2>4, <2>6 DEF Later
      <4> QED
        BY <2>4, <2>6, <4>1, <4>2 DEF DupRight
    <3>2. Covered(d)
      <4>1. Covered(c)
        BY DEF Good
      <4>2. \A a : Covers(c, a) => Covers(d, a)
        BY <2>4, <2>6 DEF Covers, should_be_inserted
      <4>3. ASSUME NEW k \in DOMAIN d, d[k].inserted, ~d[k].enabled
            PROVE  Covers(d, d[k].address)
        <5>1. k # i /\ d[k] = c[k]
          BY <2>4, <2>5, <2>6, <4>3
        <5> QED
          BY <2>4, <4>1, <4>2, <4>3, <5>1 DEF Covered
      <4> QED
        BY <4>3 DEF Covered
    <3>3. Shadows(d, U, P)
      <4>1. Shadows(c, U, P)
        BY DEF Good
      <4> QED
        BY <2>2, <2>3, <2>4, <4>1 DEF Shadows
    <3>4. InMemory(t, U, P)
      <4>1. InMemory(s, U, P)
        BY DEF Good
      <4>2. ASSUME NEW a \in U
            PROVE  t.memory[a] = IF Holds(d, a) THEN Trap ELSE P[a]
        <5>1. CASE a = loc.address
          BY <1>0, <2>1, <2>4, <2>6, <5>1 DEF Holds
        <5>2. CASE a # loc.address
          <6>1. Holds(d, a) <=> Holds(c, a)
            BY <2>4, <2>6, <5>2 DEF Holds
          <6>2. t.memory[a] = s.memory[a]
            BY <1>0, <2>1, <5>2
          <6> QED
            BY <4>1, <6>1, <6>2 DEF InMemory
        <5> QED
          BY <5>1, <5>2
      <4> QED
        BY <4>2 DEF InMemory
    <3> QED
      BY <3>1, <3>2, <3>3, <3>4 DEF Good
  <2> QED
    BY <1>1, <2>1, <2>6, <2>7, <2>8
<1> QED
  BY <1>2, <1>3, <1>4

(* insert_bp_location gives a state with as many locations.                *)
LEMMA InsertTyped ==
    ASSUME NEW s \in States, NEW i \in DOMAIN s.chain
    PROVE  /\ insert_bp_location(s, i) \in States
           /\ Len(insert_bp_location(s, i).chain) = Len(s.chain)
<1> DEFINE loc == s.chain[i]
           put == Put(loc, Reads(s, loc.address))
<1>1. s.chain \in Seq(Location) /\ put \in Location
  BY LocationsOf, ReadsRight, PutFields DEF States
<1>2. Len(With(s.chain, i, put)) = Len(s.chain)
  <2> HIDE DEF put
  <2> QED
    BY <1>1, WithSeq
<1>3. \/ insert_bp_location(s, i) = s
      \/ insert_bp_location(s, i).chain = s.chain
      \/ insert_bp_location(s, i).chain = With(s.chain, i, put)
  BY InsertCases
<1> QED
  BY <1>2, <1>3, InsertCases

(* remove_breakpoint gives a state with as many locations.                 *)
LEMMA RemoveTyped ==
    ASSUME NEW s \in States, NEW i \in DOMAIN s.chain
    PROVE  /\ remove_breakpoint(s, i) \in States
           /\ Len(remove_breakpoint(s, i).chain) = Len(s.chain)
<1> DEFINE loc == s.chain[i]
<1>1. s.chain \in Seq(Location) /\ Out(loc) \in Location
  BY LocationsOf, OutFields DEF States
<1>2. Len(With(s.chain, i, Out(loc))) = Len(s.chain)
  BY <1>1, WithSeq
<1>3. \/ remove_breakpoint(s, i) = s
      \/ remove_breakpoint(s, i).chain = With(s.chain, i, Out(loc))
  BY RemoveCases
<1> QED
  BY <1>2, <1>3, RemoveCases

(* The loop of insert_breakpoint_locations takes every location in turn. *)
LEMMA InsertLoop ==
    ASSUME NEW s \in States, NEW n, n = Len(s.chain)
    PROVE  \E u \in [0..n -> States] :
              /\ u[0] = s /\ insert_breakpoint_locations(s) = u[n]
              /\ \A k \in 1..n : /\ u[k] = insert_bp_location(u[k-1], k)
                                 /\ Len(u[k-1].chain) = n
<1> DEFINE T == {x \in States : Len(x.chain) = n}
           step == [x \in T \X (1..n) |-> insert_bp_location(x[1], x[2])]
           Is(v) == v = [k \in 0..n |-> IF k = 0 THEN s
                                        ELSE insert_bp_location(v[k-1], k)]
           w == CHOOSE v : Is(v)
<1>1. n \in Nat /\ s \in T
  BY LocationsOf DEF States
<1>2. \A x \in T, k \in 1..n : insert_bp_location(x, k) \in T
  <2>1. ASSUME NEW x \in T, NEW k \in 1..n PROVE insert_bp_location(x, k) \in T
    <3>1. x \in States /\ k \in DOMAIN x.chain
      BY <1>1, LocationsOf DEF States
    <3>2. /\ insert_bp_location(x, k) \in States
          /\ Len(insert_bp_location(x, k).chain) = Len(x.chain)
      BY <3>1, InsertTyped
    <3> QED
      BY <3>2
  <2> QED
    BY <2>1
<1>3. step \in [T \X (1..n) -> T]
  <2> HIDE DEF T
  <2> QED
    BY <1>2
<1>4. PICK u \in [0..n -> T] :
         IsLoop(u, n, s, step)
  <2> HIDE DEF T, step
  <2> QED
    BY <1>1, <1>3, LoopDefined
<1>5. u[0] = s
      /\ \A k \in 1..n : u[k-1] \in T /\ u[k] = insert_bp_location(u[k-1], k)
  <2>1. 0 \in 0..n /\ \A k \in 1..n : k \in 0..n /\ k # 0 /\ k - 1 \in 0..n
    BY <1>1
  <2>2. \A k \in 1..n : u[k] = step[<<u[k-1], k>>] /\ u[k-1] \in T
    <3> HIDE DEF T, step
    <3> QED
      BY <1>4, <2>1 DEF IsLoop
  <2>3. u[0] = s
    BY <1>4, <2>1 DEF IsLoop
  <2> HIDE DEF T
  <2> QED
    BY <2>2, <2>3
<1>6. Is(u)
  <2>1. u = [k \in 0..n |-> u[k]]
    BY <1>4
  <2>2. \A k \in 0..n : k # 0 => k \in 1..n
    BY <1>1
  <2> HIDE DEF T, step
  <2> QED
    BY <1>5, <2>1, <2>2
<1>7. Is(w)
  <2> HIDE DEF Is
  <2> QED
    BY <1>6
<1>8. insert_breakpoint_locations(s) = w[n]
  BY DEF insert_breakpoint_locations
<1> HIDE DEF w
<1>9. w[n] = u[n]
  <2> DEFINE S == {k \in 0..n : w[k] = u[k]}
  <2>1. 0 \in S
    BY <1>1, <1>5, <1>7
  <2>2. ASSUME NEW k \in 1..n, k - 1 \in S PROVE k \in S
    <3>1. k \in 0..n /\ k # 0 /\ w[k-1] = u[k-1]
      BY <1>1, <2>2
    <3>2. w[k] = insert_bp_location(w[k-1], k)
      BY <1>7, <3>1
    <3> QED
      BY <1>5, <3>1, <3>2
  <2> HIDE DEF S
  <2>3. n \in S
    BY <1>1, <2>1, <2>2, UpTo
  <2> QED
    BY <2>3 DEF S
<1>10. u \in [0..n -> States] /\ \A k \in 1..n : Len(u[k-1].chain) = n
  BY <1>4, <1>5
<1> QED
  BY <1>5, <1>8, <1>9, <1>10

(* The loop of remove_breakpoints takes every location in turn.          *)
LEMMA RemoveLoop ==
    ASSUME NEW s \in States, NEW n, n = Len(s.chain)
    PROVE  \E u \in [0..n -> States] :
              /\ u[0] = s /\ remove_breakpoints(s) = u[n]
              /\ \A k \in 1..n : /\ u[k] = remove_breakpoint(u[k-1], k)
                                 /\ Len(u[k-1].chain) = n
<1> DEFINE T == {x \in States : Len(x.chain) = n}
           step == [x \in T \X (1..n) |-> remove_breakpoint(x[1], x[2])]
           Is(v) == v = [k \in 0..n |-> IF k = 0 THEN s
                                        ELSE remove_breakpoint(v[k-1], k)]
           w == CHOOSE v : Is(v)
<1>1. n \in Nat /\ s \in T
  BY LocationsOf DEF States
<1>2. \A x \in T, k \in 1..n : remove_breakpoint(x, k) \in T
  <2>1. ASSUME NEW x \in T, NEW k \in 1..n PROVE remove_breakpoint(x, k) \in T
    <3>1. x \in States /\ k \in DOMAIN x.chain
      BY <1>1, LocationsOf DEF States
    <3>2. /\ remove_breakpoint(x, k) \in States
          /\ Len(remove_breakpoint(x, k).chain) = Len(x.chain)
      BY <3>1, RemoveTyped
    <3> QED
      BY <3>2
  <2> QED
    BY <2>1
<1>3. step \in [T \X (1..n) -> T]
  <2> HIDE DEF T
  <2> QED
    BY <1>2
<1>4. PICK u \in [0..n -> T] :
         IsLoop(u, n, s, step)
  <2> HIDE DEF T, step
  <2> QED
    BY <1>1, <1>3, LoopDefined
<1>5. u[0] = s
      /\ \A k \in 1..n : u[k-1] \in T /\ u[k] = remove_breakpoint(u[k-1], k)
  <2>1. 0 \in 0..n /\ \A k \in 1..n : k \in 0..n /\ k # 0 /\ k - 1 \in 0..n
    BY <1>1
  <2>2. \A k \in 1..n : u[k] = step[<<u[k-1], k>>] /\ u[k-1] \in T
    <3> HIDE DEF T, step
    <3> QED
      BY <1>4, <2>1 DEF IsLoop
  <2>3. u[0] = s
    BY <1>4, <2>1 DEF IsLoop
  <2> HIDE DEF T
  <2> QED
    BY <2>2, <2>3
<1>6. Is(u)
  <2>1. u = [k \in 0..n |-> u[k]]
    BY <1>4
  <2>2. \A k \in 0..n : k # 0 => k \in 1..n
    BY <1>1
  <2> HIDE DEF T, step
  <2> QED
    BY <1>5, <2>1, <2>2
<1>7. Is(w)
  <2> HIDE DEF Is
  <2> QED
    BY <1>6
<1>8. remove_breakpoints(s) = w[n]
  BY DEF remove_breakpoints
<1> HIDE DEF w
<1>9. w[n] = u[n]
  <2> DEFINE S == {k \in 0..n : w[k] = u[k]}
  <2>1. 0 \in S
    BY <1>1, <1>5, <1>7
  <2>2. ASSUME NEW k \in 1..n, k - 1 \in S PROVE k \in S
    <3>1. k \in 0..n /\ k # 0 /\ w[k-1] = u[k-1]
      BY <1>1, <2>2
    <3>2. w[k] = remove_breakpoint(w[k-1], k)
      BY <1>7, <3>1
    <3> QED
      BY <1>5, <3>1, <3>2
  <2> HIDE DEF S
  <2>3. n \in S
    BY <1>1, <2>1, <2>2, UpTo
  <2> QED
    BY <2>3 DEF S
<1>10. u \in [0..n -> States] /\ \A k \in 1..n : Len(u[k-1].chain) = n
  BY <1>4, <1>5
<1> QED
  BY <1>5, <1>8, <1>9, <1>10

(* Among the enabled locations at an address one is the first.             *)
LEMMA FirstEnabled ==
    ASSUME NEW c \in Seq(Location), NEW a, Wants(c, a)
    PROVE  \E f \in DOMAIN c :
              /\ c[f].enabled /\ c[f].address = a /\ ~Later(c, f)
              /\ \A j \in DOMAIN c : c[j].enabled /\ c[j].address = a => f <= j
<1> DEFINE S == {j \in DOMAIN c : c[j].enabled /\ c[j].address = a}
<1>1. DOMAIN c \in SUBSET Nat
  BY LocationsOf
<1>2. S \in SUBSET Nat /\ S # {}
  BY <1>1 DEF Wants
<1>3. PICK f \in S : \A j \in S : f <= j
  <2> HIDE DEF S
  <2> QED
    BY <1>2, Least
<1>4. ~Later(c, f)
  <2>1. \A j \in DOMAIN c : c[j].enabled /\ c[j].address = a => ~(j < f)
    BY <1>1, <1>3
  <2> QED
    BY <1>3, <2>1 DEF Later
<1> QED
  BY <1>3, <1>4

(* insert_breakpoint_locations leaves what is in memory in order, and,     *)
(* when nothing failed, a trap for every enabled location.                 *)
LEMMA InsertAll ==
    ASSUME NEW s \in States, NEW U, NEW P, Good(s, U, P), U \subseteq Addr
    PROVE  /\ InOrder(s, insert_breakpoint_locations(s), U, P)
           /\ ~insert_breakpoint_locations(s).error
                 => AllThere(insert_breakpoint_locations(s).chain)
<1> DEFINE n == Len(s.chain)
           t == insert_breakpoint_locations(s)
<1>1. n \in Nat /\ DOMAIN s.chain = 1..n
  BY LocationsOf DEF States
<1>2. PICK u \in [0..n -> States] :
         /\ u[0] = s /\ t = u[n]
         /\ \A k \in 1..n : /\ u[k] = insert_bp_location(u[k-1], k)
                            /\ Len(u[k-1].chain) = n
  BY InsertLoop
<1> HIDE DEF t, n
<1> DEFINE Right(k) ==
              /\ Good(u[k], U, P) /\ SameLocs(s.chain, u[k].chain)
              /\ ~u[k].error =>
                    \A j \in 1..k : should_be_inserted(u[k].chain[j])
                                       => u[k].chain[j].inserted
           S == {k \in 0..n : Right(k)}
<1>3. 0 \in S
  <2>1. Right(0)
    BY <1>2 DEF SameLocs
  <2> HIDE DEF Right
  <2> QED
    BY <1>1, <2>1
<1>4. ASSUME NEW k \in 1..n, k - 1 \in S PROVE k \in S
  <2> DEFINE x == u[k-1]
             y == u[k]
  <2>1. k \in 0..n /\ k - 1 \in 0..n /\ k \in Nat
        /\ \A j \in 1..k : j = k \/ j \in 1..(k-1)
    BY <1>1
  <2>2. /\ Good(x, U, P) /\ SameLocs(s.chain, x.chain)
        /\ ~x.error => \A j \in 1..(k-1) :
                          should_be_inserted(x.chain[j]) => x.chain[j].inserted
    BY <1>4
  <2>3. x \in States /\ y = insert_bp_location(x, k) /\ k \in DOMAIN x.chain
    <3>1. x \in States /\ Len(x.chain) = n
      BY <1>2, <2>1
    <3>2. DOMAIN x.chain = 1..n
      BY <3>1, LocationsOf DEF States
    <3> QED
      BY <1>2, <3>1, <3>2
  <2> HIDE DEF x, y
  <2>4. /\ Good(y, U, P) /\ SameLocs(x.chain, y.chain)
        /\ \A j \in DOMAIN x.chain :
              /\ y.chain[j].duplicate = x.chain[j].duplicate
              /\ x.chain[j].inserted => y.chain[j].inserted
        /\ ~y.error => /\ ~x.error
                       /\ should_be_inserted(y.chain[k])
                             => y.chain[k].inserted
    BY <2>2, <2>3, InsertKeeps
  <2>5. SameLocs(s.chain, y.chain)
    BY <2>2, <2>4 DEF SameLocs
  <2>6. ASSUME ~y.error, NEW j \in 1..k, should_be_inserted(y.chain[j])
        PROVE  y.chain[j].inserted
    <3>1. CASE j = k
      BY <2>4, <2>6, <3>1
    <3>2. CASE j \in 1..(k-1)
      <4>1. j \in DOMAIN x.chain
        BY <1>1, <2>1, <2>2, <3>2 DEF SameLocs
      <4>2. should_be_inserted(x.chain[j])
        BY <2>4, <2>6, <4>1 DEF should_be_inserted, SameLocs
      <4> QED
        BY <2>2, <2>4, <2>6, <3>2, <4>1, <4>2
    <3> QED
      BY <2>1, <3>1, <3>2
  <2>7. Right(k)
    BY <2>4, <2>5, <2>6 DEF y
  <2> HIDE DEF Right
  <2> QED
    BY <2>1, <2>7
<1>5. n \in S
  <2> HIDE DEF S
  <2> QED
    BY <1>1, <1>3, <1>4, UpTo
<1>6. /\ t \in States /\ Good(t, U, P) /\ SameLocs(s.chain, t.chain)
      /\ ~t.error => \A j \in 1..n : should_be_inserted(t.chain[j])
                                        => t.chain[j].inserted
  BY <1>1, <1>2, <1>5
<1>7. DOMAIN t.chain = 1..n /\ t.chain \in Seq(Location)
  BY <1>1, <1>6 DEF SameLocs, States
<1>8. ASSUME ~t.error PROVE AllThere(t.chain)
  <2>1. ASSUME NEW i \in DOMAIN t.chain, t.chain[i].enabled
        PROVE  Holds(t.chain, t.chain[i].address)
    <3> DEFINE c == t.chain
               a == c[i].address
    <3>1. Wants(c, a) /\ c \in Seq(Location)
      BY <1>7, <2>1 DEF Wants
    <3> HIDE DEF c, a
    <3>2. PICK f \in DOMAIN c :
             c[f].enabled /\ c[f].address = a /\ ~Later(c, f)
      BY <3>1, FirstEnabled
    <3> USE DEF c, a
    <3>3. should_be_inserted(t.chain[f])
      BY <1>6, <3>2 DEF Good, DupRight, should_be_inserted
    <3> QED
      BY <1>6, <1>7, <1>8, <3>2, <3>3 DEF Holds
  <2> QED
    BY <2>1 DEF AllThere
<1>9. Len(t.chain) = n
  BY <1>1, <1>7, LocationsOf
<1>10. InOrder(s, t, U, P)
  BY <1>6, <1>9 DEF InOrder, n
<1> QED
  BY <1>8, <1>10 DEF t

(* t is s with the i-th location, which is at a, taken out of memory.      *)
IsWithout(s, i, a, t, U, P) ==
    /\ t \in States /\ t.error = s.error /\ SameLocs(s.chain, t.chain)
    /\ ~t.chain[i].inserted
    /\ t.chain[i].duplicate = s.chain[i].duplicate
    /\ \A k \in DOMAIN s.chain : k # i => t.chain[k] = s.chain[k]
    /\ \A b : b # a => /\ Holds(t.chain, b) <=> Holds(s.chain, b)
                       /\ b \in Addr => t.memory[b] = s.memory[b]
    /\ a \in U => t.memory[a] = P[a]
    /\ Shadows(t.chain, U, P)

(* So remove_breakpoint leaves it.                                         *)
LEMMA RemoveStep ==
    ASSUME NEW s \in States, NEW i \in DOMAIN s.chain, NEW U, NEW P,
           s.chain[i].inserted, Shadows(s.chain, U, P)
    PROVE  IsWithout(s, i, s.chain[i].address, remove_breakpoint(s, i), U, P)
<1> DEFINE c == s.chain
           t == remove_breakpoint(s, i)
           a == c[i].address
           d == t.chain
<1>1. /\ c \in Seq(Location) /\ c[i] \in Location /\ a \in Addr
      /\ s.memory \in [Addr -> Contents]
  BY LocationsOf DEF States
<1>2. /\ t \in States /\ t.error = s.error
      /\ d = With(c, i, Out(c[i]))
      /\ t.memory = [s.memory EXCEPT ![a] = c[i].shadow]
  BY RemoveCases
<1>3. /\ Out(c[i]) \in Location /\ Out(c[i]).address = a
      /\ Out(c[i]).enabled = c[i].enabled /\ ~Out(c[i]).inserted
      /\ Out(c[i]).duplicate = c[i].duplicate
  BY <1>1, OutFields
<1>4. /\ DOMAIN d = DOMAIN c /\ d[i] = Out(c[i])
      /\ \A k \in DOMAIN c : k # i => d[k] = c[k]
  BY <1>1, <1>2, <1>3, WithSeq
<1>5. SameLocs(c, d)
  <2>1. ASSUME NEW k \in DOMAIN c
        PROVE  d[k].enabled = c[k].enabled /\ d[k].address = c[k].address
    <3>1. CASE k = i
      BY <1>3, <1>4, <3>1
    <3>2. CASE k # i
      BY <1>4, <3>2
    <3> QED
      BY <3>1, <3>2
  <2> QED
    BY <1>4, <2>1 DEF SameLocs
<1>6. ASSUME NEW b, b # a PROVE Holds(d, b) <=> Holds(c, b)
  BY <1>3, <1>4, <1>6 DEF Holds
<1>7. /\ \A b \in Addr : b # a => t.memory[b] = s.memory[b]
      /\ t.memory[a] = c[i].shadow
  BY <1>1, <1>2
<1>8. Shadows(d, U, P)
  BY <1>3, <1>4 DEF Shadows
<1>9. a \in U => t.memory[a] = P[a]
  BY <1>7 DEF Shadows
<1> HIDE DEF t, a
<1>10. IsWithout(s, i, a, t, U, P)
  BY <1>2, <1>3, <1>4, <1>5, <1>6, <1>7, <1>8, <1>9 DEF IsWithout
<1> QED
  BY <1>10 DEF t, a

(* remove_breakpoints takes every location out of memory.                  *)
LEMMA RemoveAll ==
    ASSUME NEW s \in States, NEW U, NEW P, Good(s, U, P), U \subseteq Addr
    PROVE  /\ InOrder(s, remove_breakpoints(s), U, P)
           /\ \A a : ~Holds(remove_breakpoints(s).chain, a)
<1> DEFINE n == Len(s.chain)
           t == remove_breakpoints(s)
<1>1. n \in Nat /\ DOMAIN s.chain = 1..n
  BY LocationsOf DEF States
<1>2. PICK u \in [0..n -> States] :
         /\ u[0] = s /\ t = u[n]
         /\ \A k \in 1..n : /\ u[k] = remove_breakpoint(u[k-1], k)
                            /\ Len(u[k-1].chain) = n
  BY RemoveLoop
<1> HIDE DEF t, n
<1> DEFINE Memory(x) == \A a \in U :
                \/ x.memory[a] = P[a]
                \/ x.memory[a] = Trap /\ Holds(x.chain, a)
           Right(k) ==
              /\ SameLocs(s.chain, u[k].chain) /\ u[k].error = s.error
              /\ Shadows(u[k].chain, U, P) /\ Memory(u[k])
              /\ \A j \in DOMAIN s.chain :
                    u[k].chain[j].duplicate = s.chain[j].duplicate
              /\ \A j \in 1..k : ~u[k].chain[j].inserted
           S == {k \in 0..n : Right(k)}
<1>3. 0 \in S
  <2>1. Right(0)
    BY <1>2 DEF SameLocs, Good, InMemory
  <2> HIDE DEF Right
  <2> QED
    BY <1>1, <2>1
<1>4. ASSUME NEW k \in 1..n, k - 1 \in S PROVE k \in S
  <2> DEFINE x == u[k-1]
             y == u[k]
  <2>1. k \in 0..n /\ k - 1 \in 0..n /\ k \in Nat
        /\ \A j \in 1..k : j = k \/ (j \in 1..(k-1) /\ j # k)
    BY <1>1
  <2>2. /\ SameLocs(s.chain, x.chain) /\ x.error = s.error
        /\ Shadows(x.chain, U, P) /\ Memory(x)
        /\ \A j \in DOMAIN s.chain :
              x.chain[j].duplicate = s.chain[j].duplicate
        /\ \A j \in 1..(k-1) : ~x.chain[j].inserted
    BY <1>4
  <2>3. x \in States /\ y = remove_breakpoint(x, k) /\ k \in DOMAIN x.chain
        /\ DOMAIN x.chain = 1..n
    <3>1. x \in States /\ Len(x.chain) = n
      BY <1>2, <2>1
    <3>2. DOMAIN x.chain = 1..n
      BY <3>1, LocationsOf DEF States
    <3> QED
      BY <1>2, <3>1, <3>2
  <2>4. Right(k) <=> /\ SameLocs(s.chain, y.chain) /\ y.error = s.error
                     /\ Shadows(y.chain, U, P) /\ Memory(y)
                     /\ \A j \in DOMAIN s.chain :
                           y.chain[j].duplicate = s.chain[j].duplicate
                     /\ \A j \in 1..k : ~y.chain[j].inserted
    OBVIOUS
  <2> HIDE DEF x, y, Right
  <2>5. CASE ~x.chain[k].inserted
    <3>1. y = x
      BY <2>3, <2>5, RemoveCases
    <3> QED
      BY <2>1, <2>2, <2>4, <2>5, <3>1
  <2>6. CASE x.chain[k].inserted
    <3> DEFINE a == x.chain[k].address
    <3>0. IsWithout(x, k, a, y, U, P)
      BY <2>2, <2>3, <2>6, RemoveStep
    <3>1. /\ y.error = x.error
          /\ SameLocs(x.chain, y.chain)
          /\ ~y.chain[k].inserted
          /\ y.chain[k].duplicate = x.chain[k].duplicate
          /\ \A j \in DOMAIN x.chain : j # k => y.chain[j] = x.chain[j]
          /\ \A b : b # a => /\ Holds(y.chain, b) <=> Holds(x.chain, b)
                             /\ b \in Addr => y.memory[b] = x.memory[b]
          /\ a \in U => y.memory[a] = P[a]
          /\ Shadows(y.chain, U, P)
      <4> HIDE DEF Memory, a
      <4> QED
        BY <3>0 DEF IsWithout
    <3>2. SameLocs(s.chain, y.chain)
      BY <2>2, <3>1 DEF SameLocs
    <3>3. Memory(y)
      <4>1. ASSUME NEW b \in U
            PROVE  \/ y.memory[b] = P[b]
                   \/ y.memory[b] = Trap /\ Holds(y.chain, b)
        BY <2>2, <3>1
      <4> QED
        BY <4>1
    <3>4. ASSUME NEW j \in 1..k PROVE ~y.chain[j].inserted
      <4>1. j \in DOMAIN x.chain
        BY <1>1, <2>1, <2>3
      <4> QED
        BY <2>1, <2>2, <3>1, <4>1
    <3>5. \A j \in DOMAIN s.chain : y.chain[j].duplicate = s.chain[j].duplicate
      <4>1. DOMAIN s.chain = DOMAIN x.chain
        BY <2>2 DEF SameLocs
      <4>2. ASSUME NEW j \in DOMAIN s.chain
            PROVE  y.chain[j].duplicate = x.chain[j].duplicate
        BY <3>1, <4>1
      <4> QED
        BY <2>2, <4>2
    <3> QED
      BY <2>1, <2>2, <2>4, <3>1, <3>2, <3>3, <3>4, <3>5
  <2> QED
    BY <2>1, <2>3, <2>5, <2>6
<1>5. n \in S
  <2> HIDE DEF S
  <2> QED
    BY <1>1, <1>3, <1>4, UpTo
<1>6. /\ t \in States /\ SameLocs(s.chain, t.chain) /\ t.error = s.error
      /\ Shadows(t.chain, U, P) /\ Memory(t)
      /\ \A j \in DOMAIN s.chain : t.chain[j].duplicate = s.chain[j].duplicate
      /\ \A j \in 1..n : ~t.chain[j].inserted
  BY <1>1, <1>2, <1>5
<1>7. DOMAIN t.chain = 1..n /\ t.chain \in Seq(Location)
  BY <1>1, <1>6 DEF SameLocs, States
<1>8. \A a : ~Holds(t.chain, a)
  BY <1>6, <1>7 DEF Holds
<1>9. Good(t, U, P)
  <2>1. \A i \in DOMAIN s.chain : Later(t.chain, i) <=> Later(s.chain, i)
    BY <1>6 DEF Later, SameLocs
  <2>2. DupRight(t.chain)
    BY <1>6, <2>1 DEF DupRight, SameLocs, Good
  <2>3. Covered(t.chain)
    BY <1>6, <1>7 DEF Covered
  <2>4. InMemory(t, U, P)
    BY <1>6, <1>8 DEF InMemory
  <2> QED
    BY <1>6, <2>2, <2>3, <2>4 DEF Good
<1>10. Len(t.chain) = n
  BY <1>1, <1>7, LocationsOf
<1>11. InOrder(s, t, U, P)
  BY <1>6, <1>9, <1>10 DEF InOrder, n
<1> QED
  BY <1>8, <1>11 DEF t

-----------------------------------------------------------------------------
(* The walk of update_global_location_list.                                *)

(* The first enabled location at an address is inserted and not marked as  *)
(* a duplicate.                                                            *)
FirstIsIn(c, a) == \E f \in DOMAIN c :
    /\ c[f].enabled /\ c[f].address = a /\ ~Later(c, f)
    /\ c[f].inserted /\ ~c[f].duplicate

(* No other location is enabled at the address of the i-th.                *)
Sole(c, i) == \A j \in DOMAIN c :
                 c[j].enabled /\ c[j].address = c[i].address => j = i

(* An inserted location beyond the first p and before the i-th, at its     *)
(* address.                                                                *)
Between(c, p, i) == \E x \in DOMAIN c : /\ p < x /\ x < i /\ c[x].inserted
                                        /\ c[x].address = c[i].address
After(c, i) == \E k \in DOMAIN c : /\ i < k /\ c[k].inserted
                                   /\ c[k].address = c[i].address

(* The state after p locations.  Between two of them a trap may be missing *)
(* where nothing is enabled.  The last conjunct is why a location that is  *)
(* taken out for want of an heir is not made the heir of a later one, for  *)
(* whom no trap would be left: a location whose mark as a duplicate is     *)
(* out of date comes after the one that made it one.                       *)
TrapsLeft(s, U, P) == \A a \in U :
    /\ Holds(s.chain, a) /\ Wants(s.chain, a) => s.memory[a] = Trap
    /\ s.memory[a] = P[a] \/ (s.memory[a] = Trap /\ Holds(s.chain, a))
HandedOver(c, p) == \A k \in DOMAIN c :
    k <= p /\ c[k].inserted /\ ~c[k].enabled => FirstIsIn(c, c[k].address)
MarksDated(c, p) == \A x \in DOMAIN c :
    p < x /\ c[x].enabled /\ c[x].duplicate /\ Sole(c, x) /\ After(c, x)
        => Between(c, p, x)
Settling(s, U, P, p) == /\ Shadows(s.chain, U, P) /\ TrapsLeft(s, U, P)
                        /\ HandedOver(s.chain, p) /\ MarksDated(s.chain, p)

(* What the search for an heir leaves of the list c, and c when the j-th   *)
(* location has taken over what another one had in memory.                 *)
IsPassed(c, last, d) ==
    /\ d \in Seq(Location) /\ DOMAIN d = DOMAIN c
    /\ \A k \in DOMAIN c : /\ d[k].enabled = c[k].enabled
                           /\ d[k].address = c[k].address
                           /\ d[k].inserted = c[k].inserted
                           /\ d[k].shadow = c[k].shadow
                           /\ k <= last => d[k].duplicate = FALSE
                           /\ ~(k <= last) => d[k].duplicate = c[k].duplicate
IsHanded(c, j, shadow, d) ==
    /\ d \in Seq(Location) /\ DOMAIN d = DOMAIN c
    /\ \A k \in DOMAIN c : /\ d[k].enabled = c[k].enabled
                           /\ d[k].address = c[k].address
                           /\ d[k].inserted <=> c[k].inserted \/ k = j
                           /\ d[k].shadow = IF k = j THEN shadow
                                            ELSE c[k].shadow
                           /\ k <= j => d[k].duplicate = FALSE
                           /\ ~(k <= j) => d[k].duplicate = c[k].duplicate

(* Passed only takes marks away.                                           *)
LEMMA PassedFields ==
    ASSUME NEW c \in Seq(Location), NEW last \in Nat
    PROVE  IsPassed(c, last, Passed(c, last))
<1> DEFINE d == Passed(c, last)
<1>1. /\ Len(c) \in Nat /\ DOMAIN c = 1..Len(c)
      /\ \A k \in DOMAIN c : c[k] \in Location
  BY LocationsOf
<1>2. ASSUME NEW k \in DOMAIN c
      PROVE  /\ d[k] \in Location /\ d[k].enabled = c[k].enabled
             /\ d[k].address = c[k].address /\ d[k].inserted = c[k].inserted
             /\ d[k].shadow = c[k].shadow
             /\ k <= last => d[k].duplicate = FALSE
             /\ ~(k <= last) => d[k].duplicate = c[k].duplicate
  <2>1. d[k] = IF k <= last THEN [c[k] EXCEPT !.duplicate = FALSE] ELSE c[k]
    BY DEF Passed
  <2>2. c[k] \in Location
    BY <1>1
  <2>3. CASE k <= last
    <3>1. d[k] = [c[k] EXCEPT !.duplicate = FALSE]
      BY <2>1, <2>3
    <3> QED
      BY <2>2, <2>3, <3>1 DEF Location
  <2>4. CASE ~(k <= last)
    BY <2>1, <2>2, <2>4
  <2> QED
    BY <2>3, <2>4
<1>3. d = [k \in 1..Len(c) |-> d[k]] /\ DOMAIN d = DOMAIN c
  BY <1>1 DEF Passed
<1>4. d \in [1..Len(c) -> Location]
  BY <1>1, <1>2, <1>3
<1>5. d \in Seq(Location)
  BY <1>1, <1>4, SeqDef
<1> HIDE DEF d
<1>6. IsPassed(c, last, d)
  BY <1>2, <1>3, <1>5 DEF IsPassed
<1> QED
  BY <1>6 DEF d

(* The j-th location takes over.                                           *)
LEMMA HandedFields ==
    ASSUME NEW c \in Seq(Location), NEW j \in DOMAIN c,
           NEW shadow \in Contents
    PROVE  IsHanded(c, j, shadow,
                    With(Passed(c, j), j, Put(Passed(c, j)[j], shadow)))
<1> DEFINE p == Passed(c, j)
           put == Put(p[j], shadow)
           d == With(p, j, put)
<1>1. j \in Nat
  BY LocationsOf
<1>2. IsPassed(c, j, p)
  BY <1>1, PassedFields
<1> HIDE DEF p
<1>3. p \in Seq(Location) /\ DOMAIN p = DOMAIN c
  BY <1>2 DEF IsPassed
<1>4. /\ put \in Location /\ put.address = p[j].address
      /\ put.enabled = p[j].enabled /\ put.duplicate = p[j].duplicate
      /\ put.inserted = TRUE /\ put.shadow = shadow
  <2>1. p[j] \in Location
    BY <1>3, LocationsOf
  <2> QED
    BY <2>1, PutFields
<1> HIDE DEF put
<1>5. /\ d \in Seq(Location) /\ DOMAIN d = DOMAIN c /\ d[j] = put
      /\ \A k \in DOMAIN c : k # j => d[k] = p[k]
  BY <1>3, <1>4, WithSeq
<1> HIDE DEF d
<1>6. ASSUME NEW k \in DOMAIN c
      PROVE  /\ d[k].enabled = c[k].enabled
             /\ d[k].address = c[k].address
             /\ d[k].inserted <=> c[k].inserted \/ k = j
             /\ d[k].shadow = IF k = j THEN shadow ELSE c[k].shadow
             /\ k <= j => d[k].duplicate = FALSE
             /\ ~(k <= j) => d[k].duplicate = c[k].duplicate
  <2>1. CASE k = j
    BY <1>1, <1>2, <1>4, <1>5, <2>1 DEF IsPassed
  <2>2. CASE k # j
    BY <1>2, <1>5, <2>2 DEF IsPassed
  <2> QED
    BY <2>1, <2>2
<1>7. IsHanded(c, j, shadow, d)
  BY <1>5, <1>6 DEF IsHanded
<1> QED
  BY <1>7 DEF d, put, p

(* What becomes of the i-th location of s when it is inserted and should   *)
(* not be: the j-th takes over, or it is removed.                          *)
Unwanted(c, i) == c[i].inserted /\ ~should_be_inserted(c[i])
HandsOver(s, i, t, j) ==
    /\ \A k \in Heirs(s.chain, i) : j <= k
    /\ t \in States /\ t.memory = s.memory
    /\ IsHanded(s.chain, j, s.chain[i].shadow, t.chain)
TakenOut(s, i, t, r) == /\ IsPassed(s.chain, Len(s.chain), r.chain)
                        /\ r.memory = s.memory
                        /\ t = remove_breakpoint(r, i)

(* There is no other case.                                                 *)
LEMMA SettledCases ==
    ASSUME NEW s \in States, NEW c, c = s.chain, NEW i \in DOMAIN c,
           NEW t, t = Settled(s, i)
    PROVE  \/ ~Unwanted(c, i) /\ t = s
           \/ Unwanted(c, i) /\ \E j \in Heirs(c, i) : HandsOver(s, i, t, j)
           \/ /\ Unwanted(c, i) /\ Heirs(c, i) = {}
              /\ \E r \in States : TakenOut(s, i, t, r)
<1>1. /\ c \in Seq(Location) /\ s.memory \in [Addr -> Contents]
      /\ Len(c) \in Nat /\ DOMAIN c = 1..Len(c) /\ c[i].shadow \in Contents
  BY LocationsOf DEF States
<1>2. CASE ~Unwanted(c, i)
  BY <1>2 DEF Settled, Unwanted
<1>3. CASE Unwanted(c, i) /\ Heirs(c, i) # {}
  <2> DEFINE heirs == Heirs(c, i)
             j == CHOOSE j \in heirs : \A k \in heirs : j <= k
  <2> DEFINE d == With(Passed(c, j), j, Put(Passed(c, j)[j], c[i].shadow))
  <2>1. t = [s EXCEPT !.chain = d]
    BY <1>3 DEF Settled, Unwanted
  <2>2. heirs \in SUBSET Nat /\ heirs \in SUBSET (DOMAIN c)
    BY <1>1 DEF Heirs
  <2>3. j \in heirs /\ \A k \in heirs : j <= k
    <3> HIDE DEF heirs
    <3> QED
      BY <1>3, <2>2, Least DEF heirs
  <2> HIDE DEF j, heirs
  <2>4. j \in DOMAIN c
    BY <2>2, <2>3
  <2>7. IsHanded(c, j, c[i].shadow, d)
    BY <1>1, <2>4, HandedFields
  <2> HIDE DEF d
  <2>8. t \in States /\ t.chain = d /\ t.memory = s.memory
    BY <2>1, <2>7 DEF States, IsHanded
  <2>11. HandsOver(s, i, t, j)
    BY <2>3, <2>7, <2>8 DEF heirs, HandsOver
  <2> QED
    BY <1>3, <2>3, <2>11 DEF heirs
<1>4. CASE Unwanted(c, i) /\ Heirs(c, i) = {}
  <2> DEFINE p == Passed(c, Len(c))
             r == [s EXCEPT !.chain = p]
  <2>1. t = remove_breakpoint(r, i)
    BY <1>4 DEF Settled, Unwanted, States
  <2>2. IsPassed(c, Len(c), p)
    BY <1>1, PassedFields
  <2> HIDE DEF p
  <2>3. r \in States /\ r.chain = p /\ r.memory = s.memory
    BY <2>2 DEF States, IsPassed
  <2>4. TakenOut(s, i, t, r)
    BY <2>1, <2>2, <2>3 DEF TakenOut
  <2> QED
    BY <1>4, <2>3, <2>4
<1> QED
  BY <1>2, <1>3, <1>4

(* The walk over one location gives a state with the same locations.       *)
LEMMA SettleTyped ==
    ASSUME NEW s \in States, NEW i \in DOMAIN s.chain
    PROVE  /\ Settled(s, i) \in States /\ SameLocs(s.chain, Settled(s, i).chain)
           /\ Len(Settled(s, i).chain) = Len(s.chain)
<1>0. SUFFICES ASSUME NEW t, t = Settled(s, i), NEW c, c = s.chain
               PROVE  t \in States /\ SameLocs(c, t.chain)
                      /\ Len(t.chain) = Len(c)
  OBVIOUS
<1>1. c \in Seq(Location) /\ Len(c) \in Nat /\ DOMAIN c = 1..Len(c)
  BY <1>0, LocationsOf DEF States
<1>2. ASSUME NEW r \in States, TakenOut(s, i, t, r)
      PROVE  t \in States /\ SameLocs(c, t.chain)
  <2>1. /\ DOMAIN r.chain = DOMAIN c
        /\ \A k \in DOMAIN c : /\ r.chain[k].enabled = c[k].enabled
                               /\ r.chain[k].address = c[k].address
    BY <1>0, <1>2 DEF TakenOut, IsPassed
  <2>2. i \in DOMAIN r.chain
    BY <1>0, <2>1
  <2>3. t \in States /\ SameLocs(r.chain, t.chain)
    <3>1. CASE ~r.chain[i].inserted
      BY <1>2, <2>2, <3>1, RemoveCases DEF SameLocs, TakenOut
    <3>2. CASE r.chain[i].inserted
      <4>1. Shadows(r.chain, {}, c) /\ t = remove_breakpoint(r, i)
        BY <1>2 DEF Shadows, TakenOut
      <4>2. IsWithout(r, i, r.chain[i].address, t, {}, c)
        BY <2>2, <3>2, <4>1, RemoveStep
      <4> QED
        BY <4>2 DEF IsWithout
    <3> QED
      BY <3>1, <3>2
  <2> QED
    BY <2>1, <2>3 DEF SameLocs
<1>3. t \in States /\ SameLocs(c, t.chain)
  <2>1. \/ t = s
        \/ \E j \in Heirs(c, i) : HandsOver(s, i, t, j)
        \/ \E r \in States : TakenOut(s, i, t, r)
    BY <1>0, SettledCases
  <2>2. t = s => t \in States /\ SameLocs(c, t.chain)
    BY <1>0 DEF SameLocs
  <2>3. ASSUME NEW j, HandsOver(s, i, t, j)
        PROVE  t \in States /\ SameLocs(c, t.chain)
    BY <1>0, <2>3 DEF HandsOver, IsHanded, SameLocs
  <2> QED
    BY <1>2, <2>1, <2>2, <2>3
<1>4. t.chain \in Seq(Location) /\ DOMAIN t.chain = 1..Len(c)
  BY <1>1, <1>3 DEF States, SameLocs
<1>5. Len(t.chain) = Len(c)
  BY <1>1, <1>4, LocationsOf
<1> QED
  BY <1>3, <1>5

(* The loop of SettledAll takes every location in turn.                  *)
LEMMA SettleLoop ==
    ASSUME NEW s \in States, NEW n, n = Len(s.chain)
    PROVE  \E u \in [0..n -> States] :
              /\ u[0] = s /\ SettledAll(s) = u[n]
              /\ \A k \in 1..n : /\ u[k] = Settled(u[k-1], k)
                                 /\ Len(u[k-1].chain) = n
<1> DEFINE T == {x \in States : Len(x.chain) = n}
           step == [x \in T \X (1..n) |-> Settled(x[1], x[2])]
           Is(v) == v = [k \in 0..n |-> IF k = 0 THEN s
                                        ELSE Settled(v[k-1], k)]
           w == CHOOSE v : Is(v)
<1>1. n \in Nat /\ s \in T
  BY LocationsOf DEF States
<1>2. \A x \in T, k \in 1..n : Settled(x, k) \in T
  <2>1. ASSUME NEW x \in T, NEW k \in 1..n PROVE Settled(x, k) \in T
    <3>1. x \in States /\ k \in DOMAIN x.chain
      BY <1>1, LocationsOf DEF States
    <3>2. /\ Settled(x, k) \in States
          /\ Len(Settled(x, k).chain) = Len(x.chain)
      BY <3>1, SettleTyped
    <3> QED
      BY <3>2
  <2> QED
    BY <2>1
<1>3. step \in [T \X (1..n) -> T]
  <2> HIDE DEF T
  <2> QED
    BY <1>2
<1>4. PICK u \in [0..n -> T] :
         IsLoop(u, n, s, step)
  <2> HIDE DEF T, step
  <2> QED
    BY <1>1, <1>3, LoopDefined
<1>5. u[0] = s
      /\ \A k \in 1..n : u[k-1] \in T /\ u[k] = Settled(u[k-1], k)
  <2>1. 0 \in 0..n /\ \A k \in 1..n : k \in 0..n /\ k # 0 /\ k - 1 \in 0..n
    BY <1>1
  <2>2. \A k \in 1..n : u[k] = step[<<u[k-1], k>>] /\ u[k-1] \in T
    <3> HIDE DEF T, step
    <3> QED
      BY <1>4, <2>1 DEF IsLoop
  <2>3. u[0] = s
    BY <1>4, <2>1 DEF IsLoop
  <2> HIDE DEF T
  <2> QED
    BY <2>2, <2>3
<1>6. Is(u)
  <2>1. u = [k \in 0..n |-> u[k]]
    BY <1>4
  <2>2. \A k \in 0..n : k # 0 => k \in 1..n
    BY <1>1
  <2> HIDE DEF T, step
  <2> QED
    BY <1>5, <2>1, <2>2
<1>7. Is(w)
  <2> HIDE DEF Is
  <2> QED
    BY <1>6
<1>8. SettledAll(s) = w[n]
  BY DEF SettledAll
<1> HIDE DEF w
<1>9. w[n] = u[n]
  <2> DEFINE S == {k \in 0..n : w[k] = u[k]}
  <2>1. 0 \in S
    BY <1>1, <1>5, <1>7
  <2>2. ASSUME NEW k \in 1..n, k - 1 \in S PROVE k \in S
    <3>1. k \in 0..n /\ k # 0 /\ w[k-1] = u[k-1]
      BY <1>1, <2>2
    <3>2. w[k] = Settled(w[k-1], k)
      BY <1>7, <3>1
    <3> QED
      BY <1>5, <3>1, <3>2
  <2> HIDE DEF S
  <2>3. n \in S
    BY <1>1, <2>1, <2>2, UpTo
  <2> QED
    BY <2>3 DEF S
<1>10. u \in [0..n -> States] /\ \A k \in 1..n : Len(u[k-1].chain) = n
  BY <1>4, <1>5
<1> QED
  BY <1>5, <1>8, <1>9, <1>10

(* The same locations are enabled, so whatever is said of these is the     *)
(* same.                                                                   *)
LEMMA SameSaid ==
    ASSUME NEW c, NEW d, SameLocs(c, d)
    PROVE  /\ \A a : Wants(d, a) <=> Wants(c, a)
           /\ \A i \in DOMAIN c : /\ Later(d, i) <=> Later(c, i)
                                  /\ Sole(d, i) <=> Sole(c, i)
<1>1. ASSUME NEW a PROVE Wants(d, a) <=> Wants(c, a)
  BY DEF SameLocs, Wants
<1>2. ASSUME NEW i \in DOMAIN c PROVE Later(d, i) <=> Later(c, i)
  BY DEF SameLocs, Later
<1>3. ASSUME NEW i \in DOMAIN c PROVE Sole(d, i) <=> Sole(c, i)
  BY DEF SameLocs, Sole
<1> QED
  BY <1>1, <1>2, <1>3

(* The i-th location stays as it is.                                       *)
LEMMA SettleStays ==
    ASSUME NEW s \in States, NEW i \in DOMAIN s.chain, NEW U, NEW P,
           Settling(s, U, P, i - 1), ~Unwanted(s.chain, i)
    PROVE  Settling(s, U, P, i)
<1> DEFINE c == s.chain
<1>1. /\ c \in Seq(Location) /\ DOMAIN c \subseteq Nat /\ i \in Nat
      /\ \A k \in DOMAIN c : c[k].enabled \in BOOLEAN
  BY LocationsOf DEF States
<1>2. /\ Shadows(c, U, P) /\ TrapsLeft(s, U, P)
      /\ HandedOver(c, i - 1) /\ MarksDated(c, i - 1)
  BY DEF Settling
<1> HIDE DEF c
<1>3. c[i].inserted => c[i].enabled /\ ~c[i].duplicate
  BY DEF c, Unwanted, should_be_inserted
<1>4. ASSUME NEW k \in DOMAIN c, k <= i, c[k].inserted, ~c[k].enabled
      PROVE  FirstIsIn(c, c[k].address)
  <2>1. k # i
    BY <1>3, <1>4
  <2>2. k <= i - 1
    BY <1>1, <1>4, <2>1
  <2> QED
    BY <1>2, <1>4, <2>2 DEF HandedOver
<1>5. ASSUME NEW x \in DOMAIN c, i < x, c[x].enabled, c[x].duplicate,
             Sole(c, x), After(c, x)
      PROVE  Between(c, i, x)
  <2>1. i - 1 < x
    BY <1>1, <1>5
  <2>2. PICK y \in DOMAIN c : /\ i - 1 < y /\ y < x /\ c[y].inserted
                              /\ c[y].address = c[x].address
    BY <1>2, <1>5, <2>1 DEF MarksDated, Between
  <2>3. y # i
    BY <1>1, <1>3, <1>5, <2>2 DEF Sole, c
  <2>4. i < y
    BY <1>1, <2>2, <2>3
  <2> QED
    BY <2>2, <2>4 DEF Between
<1>6. HandedOver(c, i) /\ MarksDated(c, i)
  BY <1>4, <1>5 DEF HandedOver, MarksDated
<1> QED
  BY <1>2, <1>6 DEF Settling, c

(* The j-th location takes over from the i-th.                             *)
LEMMA SettleHands ==
    ASSUME NEW s \in States, NEW i \in DOMAIN s.chain, NEW U, NEW P,
           Settling(s, U, P, i - 1), Unwanted(s.chain, i),
           NEW t, NEW j \in Heirs(s.chain, i), HandsOver(s, i, t, j)
    PROVE  Settling(t, U, P, i)
<1> DEFINE c == s.chain
           d == t.chain
<1>1. /\ c \in Seq(Location) /\ DOMAIN c \subseteq Nat /\ i \in Nat
      /\ \A k \in DOMAIN c : c[k].enabled \in BOOLEAN
  BY LocationsOf DEF States
<1>2. /\ Shadows(c, U, P) /\ TrapsLeft(s, U, P)
      /\ HandedOver(c, i - 1) /\ MarksDated(c, i - 1)
  BY DEF Settling
<1>3. /\ j \in DOMAIN c /\ j # i /\ c[j].enabled /\ i \in DOMAIN c
      /\ c[j].address = c[i].address /\ c[i].inserted
  BY DEF Heirs, Unwanted
<1>10. /\ \A k \in Heirs(c, i) : j <= k
       /\ t.memory = s.memory /\ IsHanded(c, j, c[i].shadow, d)
  BY DEF HandsOver
<1> HIDE DEF c, d
<1>4. /\ SameLocs(c, d) /\ DOMAIN d = DOMAIN c
      /\ \A k \in DOMAIN c :
            /\ d[k].enabled = c[k].enabled
            /\ d[k].address = c[k].address
            /\ d[k].inserted <=> c[k].inserted \/ k = j
            /\ d[k].shadow = IF k = j THEN c[i].shadow ELSE c[k].shadow
            /\ k <= j => d[k].duplicate = FALSE
            /\ ~(k <= j) => d[k].duplicate = c[k].duplicate
  BY <1>10 DEF IsHanded, SameLocs
<1>5. /\ \A a : Wants(d, a) <=> Wants(c, a)
      /\ \A k \in DOMAIN c : /\ Later(d, k) <=> Later(c, k)
                             /\ Sole(d, k) <=> Sole(c, k)
  BY <1>4, SameSaid
<1>6. Shadows(d, U, P)
  BY <1>2, <1>3, <1>4 DEF Shadows
<1>7. ASSUME NEW a \in U
      PROVE  /\ Holds(d, a) /\ Wants(d, a) => t.memory[a] = Trap
             /\ t.memory[a] = P[a] \/ (t.memory[a] = Trap /\ Holds(d, a))
  <2>1. Holds(d, a) <=> Holds(c, a)
    BY <1>3, <1>4 DEF Holds
  <2> QED
    BY <1>2, <1>5, <1>10, <2>1 DEF TrapsLeft, c
<1>8. ASSUME NEW k \in DOMAIN d, k <= i, d[k].inserted, ~d[k].enabled
      PROVE  FirstIsIn(d, d[k].address)
  <2>1. k \in DOMAIN c /\ c[k].inserted /\ ~c[k].enabled
    BY <1>3, <1>4, <1>8
  <2>2. CASE k = i
    <3>1. ~Later(d, j)
      <4>1. ASSUME NEW x \in DOMAIN c, x < j, c[x].enabled,
                   c[x].address = c[j].address
            PROVE  FALSE
        <5>1. x # i
          BY <2>1, <2>2, <4>1
        <5>2. j <= x
          BY <1>3, <1>10, <4>1, <5>1 DEF Heirs
        <5> QED
          BY <1>1, <1>3, <4>1, <5>2
      <4> QED
        BY <1>3, <1>5, <4>1 DEF Later
    <3>2. j <= j
      BY <1>1, <1>3
    <3>3. /\ d[j].enabled /\ d[j].address = d[k].address /\ d[j].inserted
          /\ ~d[j].duplicate
      BY <1>3, <1>4, <2>1, <2>2, <3>2
    <3> QED
      BY <1>3, <1>4, <3>1, <3>3 DEF FirstIsIn
  <2>3. CASE k # i
    <3>1. k <= i - 1
      BY <1>1, <1>8, <2>1, <2>3
    <3>2. PICK f \in DOMAIN c :
             /\ c[f].enabled /\ c[f].address = c[k].address /\ ~Later(c, f)
             /\ c[f].inserted /\ ~c[f].duplicate
      BY <1>2, <2>1, <3>1 DEF HandedOver, FirstIsIn
    <3>3. /\ d[f].enabled /\ d[f].address = d[k].address /\ ~Later(d, f)
          /\ d[f].inserted /\ ~d[f].duplicate
      BY <1>4, <1>5, <2>1, <3>2
    <3> QED
      BY <1>4, <3>2, <3>3 DEF FirstIsIn
  <2> QED
    BY <2>2, <2>3
<1>9. ASSUME NEW x \in DOMAIN d, i < x, d[x].enabled, d[x].duplicate,
             Sole(d, x), After(d, x)
      PROVE  Between(d, i, x)
  <2>1. /\ x \in DOMAIN c /\ c[x].enabled /\ c[x].duplicate /\ ~(x <= j)
        /\ Sole(c, x)
    BY <1>4, <1>5, <1>9
  <2>2. c[x].address # c[i].address
    <3>1. j # x
      BY <1>1, <1>3, <2>1
    <3> QED
      BY <1>3, <2>1, <3>1 DEF Sole
  <2>3. After(c, x)
    BY <1>3, <1>4, <1>9, <2>1, <2>2 DEF After
  <2>4. i - 1 < x
    BY <1>1, <1>9, <2>1
  <2>5. PICK y \in DOMAIN c : /\ i - 1 < y /\ y < x /\ c[y].inserted
                              /\ c[y].address = c[x].address
    BY <1>2, <2>1, <2>3, <2>4 DEF MarksDated, Between
  <2>6. y # i
    BY <2>2, <2>5
  <2>7. i < y
    BY <1>1, <2>5, <2>6
  <2> QED
    BY <1>4, <2>1, <2>5, <2>7 DEF Between
<1>11. TrapsLeft(t, U, P) /\ HandedOver(d, i) /\ MarksDated(d, i)
  BY <1>7, <1>8, <1>9 DEF TrapsLeft, HandedOver, MarksDated, d
<1> QED
  BY <1>6, <1>11 DEF Settling, d

(* The i-th location is taken out of memory.                               *)
LEMMA SettleTakes ==
    ASSUME NEW s \in States, NEW i \in DOMAIN s.chain, NEW U, NEW P,
           Settling(s, U, P, i - 1), U \subseteq Addr,
           Unwanted(s.chain, i), Heirs(s.chain, i) = {},
           NEW t, NEW r \in States, TakenOut(s, i, t, r)
    PROVE  Settling(t, U, P, i)
<1> DEFINE c == s.chain
           d == t.chain
           b == r.chain
<1>1. /\ c \in Seq(Location) /\ DOMAIN c \subseteq Nat /\ i \in Nat
      /\ i \in DOMAIN c
  BY LocationsOf DEF States
<1>2. /\ Shadows(c, U, P) /\ TrapsLeft(s, U, P)
      /\ HandedOver(c, i - 1) /\ MarksDated(c, i - 1)
  BY DEF Settling
<1>3. /\ c[i].inserted /\ (c[i].enabled => c[i].duplicate)
      /\ Heirs(c, i) = {}
  <2>1. c[i].duplicate \in BOOLEAN
    BY <1>1, LocationsOf
  <2> QED
    BY <2>1 DEF Unwanted, should_be_inserted
<1>4. Sole(c, i)
  BY <1>3 DEF Heirs, Sole
<1>5. IsPassed(c, Len(c), b) /\ r.memory = s.memory
      /\ t = remove_breakpoint(r, i)
  BY DEF TakenOut
<1> DEFINE a == c[i].address
<1> HIDE DEF c, d, b, a
<1>6. /\ DOMAIN b = DOMAIN c
      /\ \A k \in DOMAIN c :
            /\ b[k].enabled = c[k].enabled
            /\ b[k].address = c[k].address
            /\ b[k].inserted = c[k].inserted
            /\ b[k].shadow = c[k].shadow
            /\ ~b[k].duplicate
  <2>1. Len(c) \in Nat /\ DOMAIN c = 1..Len(c)
    BY <1>1, LocationsOf
  <2>2. \A k \in DOMAIN c : k <= Len(c)
    BY <2>1
  <2> QED
    BY <1>5, <2>2 DEF IsPassed
<1>7. /\ t \in States /\ t.error = r.error
      /\ SameLocs(b, d)
      /\ ~d[i].inserted
      /\ d[i].duplicate = b[i].duplicate
      /\ \A k \in DOMAIN b : k # i => d[k] = b[k]
      /\ \A x : x # a => /\ Holds(d, x) <=> Holds(b, x)
                         /\ x \in Addr => t.memory[x] = r.memory[x]
      /\ a \in U => t.memory[a] = P[a]
      /\ Shadows(d, U, P)
  <2>1. /\ i \in DOMAIN r.chain /\ r.chain[i].inserted
        /\ a = r.chain[i].address
    BY <1>1, <1>3, <1>6 DEF b, a
  <2>2. Shadows(r.chain, U, P)
    BY <1>2, <1>6 DEF Shadows, b
  <2>3. IsWithout(r, i, a, t, U, P)
    BY <1>5, <2>1, <2>2, RemoveStep
  <2> QED
    BY <2>3 DEF IsWithout, b, d
<1>8. /\ SameLocs(c, d) /\ DOMAIN d = DOMAIN c
      /\ \A k \in DOMAIN c : /\ ~d[k].duplicate
                             /\ d[k].enabled = c[k].enabled
                             /\ d[k].address = c[k].address
                             /\ d[k].inserted <=> c[k].inserted /\ k # i
      /\ \A x : x # a => (Holds(d, x) <=> Holds(c, x))
  <2>1. SameLocs(c, d) /\ DOMAIN d = DOMAIN c
    BY <1>6, <1>7 DEF SameLocs
  <2>2. \A k \in DOMAIN c : /\ ~d[k].duplicate
                            /\ d[k].inserted <=> c[k].inserted /\ k # i
    BY <1>6, <1>7
  <2>3. \A x : Holds(b, x) <=> Holds(c, x)
    BY <1>6 DEF Holds
  <2> QED
    BY <1>7, <2>1, <2>2, <2>3 DEF SameLocs
<1>9. /\ \A x : Wants(d, x) <=> Wants(c, x)
      /\ \A k \in DOMAIN c : Later(d, k) <=> Later(c, k)
  BY <1>8, SameSaid
<1>10. ~(Holds(d, a) /\ Wants(d, a))
  <2> SUFFICES ASSUME Holds(d, a), Wants(c, a) PROVE FALSE
    BY <1>9
  <2>1. c[i].enabled /\ c[i].duplicate
    <3>1. PICK k \in DOMAIN c : c[k].enabled /\ c[k].address = a
      BY DEF Wants
    <3> QED
      BY <1>3, <1>4, <3>1 DEF Sole, a
  <2>2. PICK k \in DOMAIN c : c[k].inserted /\ k # i /\ c[k].address = a
    BY <1>8 DEF Holds
  <2>3. CASE i < k
    <3>1. After(c, i) /\ i - 1 < i
      BY <1>1, <2>2, <2>3 DEF After, a
    <3>2. Between(c, i - 1, i)
      BY <1>1, <1>2, <1>4, <2>1, <3>1 DEF MarksDated
    <3> QED
      BY <1>1, <3>2 DEF Between
  <2>4. CASE k <= i - 1
    <3>1. ~c[k].enabled
      BY <1>4, <2>2 DEF Sole, a
    <3>2. FirstIsIn(c, a)
      BY <1>2, <2>2, <2>4, <3>1 DEF HandedOver
    <3> QED
      BY <1>4, <2>1, <3>2 DEF FirstIsIn, Sole, a
  <2> QED
    BY <1>1, <2>2, <2>3, <2>4
<1>11. TrapsLeft(t, U, P)
  <2>1. ASSUME NEW x \in U
        PROVE  /\ Holds(d, x) /\ Wants(d, x) => t.memory[x] = Trap
               /\ t.memory[x] = P[x] \/ (t.memory[x] = Trap /\ Holds(d, x))
    <3>1. CASE x = a
      BY <1>7, <1>10, <3>1
    <3>2. CASE x # a
      <4>1. t.memory[x] = s.memory[x]
        BY <1>5, <1>7, <3>2
      <4>2. /\ Holds(c, x) /\ Wants(c, x) => s.memory[x] = Trap
            /\ s.memory[x] = P[x] \/ (s.memory[x] = Trap /\ Holds(c, x))
        BY <1>2 DEF TrapsLeft, c
      <4> QED
        BY <1>8, <1>9, <3>2, <4>1, <4>2
    <3> QED
      BY <3>1, <3>2
  <2> QED
    BY <2>1 DEF TrapsLeft, d
<1>12. HandedOver(d, i)
  <2>1. ASSUME NEW k \in DOMAIN c, k <= i, d[k].inserted, ~d[k].enabled
        PROVE  FirstIsIn(d, d[k].address)
    <3>1. k <= i - 1 /\ c[k].inserted /\ ~c[k].enabled
      BY <1>1, <1>8, <2>1
    <3>2. PICK f \in DOMAIN c :
             /\ c[f].enabled /\ c[f].address = c[k].address /\ ~Later(c, f)
             /\ c[f].inserted /\ ~c[f].duplicate
      BY <1>2, <3>1 DEF HandedOver, FirstIsIn
    <3>3. f # i
      BY <1>3, <3>2
    <3> QED
      BY <1>8, <1>9, <3>2, <3>3 DEF FirstIsIn
  <2> QED
    BY <1>8, <2>1 DEF HandedOver
<1>13. MarksDated(d, i)
  BY <1>8 DEF MarksDated
<1> QED
  BY <1>7, <1>11, <1>12, <1>13 DEF Settling, d

(* One location of the walk, whatever becomes of it.                       *)
LEMMA SettleStep ==
    ASSUME NEW s \in States, NEW i \in DOMAIN s.chain, NEW U, NEW P,
           U \subseteq Addr, Settling(s, U, P, i - 1)
    PROVE  Settling(Settled(s, i), U, P, i)
<1> DEFINE t == Settled(s, i)
           c == s.chain
<1>1. \/ ~Unwanted(c, i) /\ t = s
      \/ Unwanted(c, i) /\ \E j \in Heirs(c, i) : HandsOver(s, i, t, j)
      \/ /\ Unwanted(c, i) /\ Heirs(c, i) = {}
         /\ \E r \in States : TakenOut(s, i, t, r)
  BY SettledCases
<1> HIDE DEF t
<1>2. ~Unwanted(c, i) /\ t = s => Settling(t, U, P, i)
  BY SettleStays
<1>3. ASSUME Unwanted(c, i), NEW j \in Heirs(c, i), HandsOver(s, i, t, j)
      PROVE  Settling(t, U, P, i)
  BY <1>3, SettleHands
<1>4. ASSUME Unwanted(c, i), Heirs(c, i) = {},
             NEW r \in States, TakenOut(s, i, t, r)
      PROVE  Settling(t, U, P, i)
  BY <1>4, SettleTakes
<1>5. Settling(t, U, P, i)
  BY <1>1, <1>2, <1>3, <1>4
<1> QED
  BY <1>5 DEF t

(* The walk takes what it should out of memory, or hands it over, at every *)
(* address.                                                                *)
LEMMA SettleAll ==
    ASSUME NEW s \in States, NEW U, NEW P, U \subseteq Addr,
           Settling(s, U, P, 0)
    PROVE  /\ SettledAll(s) \in States
           /\ SameLocs(s.chain, SettledAll(s).chain)
           /\ Settling(SettledAll(s), U, P, Len(s.chain))
<1> DEFINE n == Len(s.chain)
           t == SettledAll(s)
<1>1. n \in Nat /\ DOMAIN s.chain = 1..n
  BY LocationsOf DEF States
<1>2. PICK u \in [0..n -> States] :
         /\ u[0] = s /\ t = u[n]
         /\ \A k \in 1..n : /\ u[k] = Settled(u[k-1], k)
                            /\ Len(u[k-1].chain) = n
  BY SettleLoop
<1> HIDE DEF t, n
<1> DEFINE Right(k) == SameLocs(s.chain, u[k].chain) /\ Settling(u[k], U, P, k)
           S == {k \in 0..n : Right(k)}
<1>3. 0 \in S
  <2>1. Right(0)
    BY <1>2 DEF SameLocs
  <2> HIDE DEF Right
  <2> QED
    BY <1>1, <2>1
<1>4. ASSUME NEW k \in 1..n, k - 1 \in S PROVE k \in S
  <2> DEFINE x == u[k-1]
             y == u[k]
  <2>1. k \in 0..n /\ k - 1 \in 0..n
    BY <1>1
  <2>2. SameLocs(s.chain, x.chain) /\ Settling(x, U, P, k - 1)
    BY <1>4
  <2>3. x \in States /\ y = Settled(x, k) /\ k \in DOMAIN x.chain
    <3>1. x \in States /\ Len(x.chain) = n
      BY <1>2, <2>1
    <3>2. DOMAIN x.chain = 1..n
      BY <3>1, LocationsOf DEF States
    <3> QED
      BY <1>2, <3>1, <3>2
  <2> HIDE DEF x, y
  <2>4. SameLocs(x.chain, y.chain)
    BY <2>3, SettleTyped
  <2>5. Settling(y, U, P, k)
    BY <2>2, <2>3, SettleStep
  <2>6. SameLocs(s.chain, y.chain)
    BY <2>2, <2>4 DEF SameLocs
  <2>7. Right(k)
    BY <2>5, <2>6 DEF y
  <2> HIDE DEF Right
  <2> QED
    BY <2>1, <2>7
<1>5. n \in S
  <2> HIDE DEF S
  <2> QED
    BY <1>1, <1>3, <1>4, UpTo
<1>6. t \in States /\ SameLocs(s.chain, t.chain) /\ Settling(t, U, P, n)
  BY <1>1, <1>2, <1>5
<1> QED
  BY <1>6 DEF t, n

(* check_duplicates decides anew what is a duplicate, and that is right.   *)
LEMMA CheckDuplicates ==
    ASSUME NEW s \in States, NEW U, NEW P, U \subseteq Addr,
           Settling(s, U, P, Len(s.chain))
    PROVE  InOrder(s, check_duplicates(s), U, P)
<1> DEFINE c == s.chain
           d == [i \in DOMAIN c |-> check_duplicates_at(c, i)]
           t == check_duplicates(s)
<1>1. /\ c \in Seq(Location) /\ Len(c) \in Nat /\ DOMAIN c = 1..Len(c)
      /\ \A k \in DOMAIN c : c[k] \in Location
  BY LocationsOf DEF States
<1>2. ASSUME NEW k \in DOMAIN c
      PROVE  /\ d[k] \in Location /\ d[k].enabled = c[k].enabled
             /\ d[k].address = c[k].address /\ d[k].inserted = c[k].inserted
             /\ d[k].shadow = c[k].shadow
             /\ c[k].enabled => (d[k].duplicate <=> Later(c, k))
  <2> DEFINE later == \E j \in 1..(k - 1) : /\ c[j].enabled
                                            /\ c[j].address = c[k].address
  <2>1. later <=> Later(c, k)
    <3>1. \A j \in DOMAIN c : j < k <=> j \in 1..(k - 1)
      BY <1>1
    <3>2. \A j \in 1..(k - 1) : j \in DOMAIN c
      BY <1>1
    <3> QED
      BY <3>1, <3>2 DEF Later
  <2>2. d[k] = IF ~c[k].enabled THEN c[k]
               ELSE [c[k] EXCEPT !.duplicate = later]
    BY DEF check_duplicates_at
  <2>3. c[k] \in Location /\ later \in BOOLEAN
    BY <1>1
  <2> HIDE DEF later, d
  <2>4. CASE ~c[k].enabled
    BY <2>2, <2>3, <2>4
  <2>5. CASE c[k].enabled
    <3>1. d[k] = [c[k] EXCEPT !.duplicate = later]
      BY <2>2, <2>5
    <3>2. /\ d[k] \in Location /\ d[k].enabled = c[k].enabled
          /\ d[k].address = c[k].address /\ d[k].inserted = c[k].inserted
          /\ d[k].shadow = c[k].shadow /\ d[k].duplicate = later
      BY <2>3, <3>1 DEF Location
    <3> QED
      BY <2>1, <3>2
  <2> QED
    BY <2>4, <2>5
<1>3. t = [s EXCEPT !.chain = d]
  BY DEF check_duplicates
<1>4. d = [k \in 1..Len(c) |-> d[k]] /\ DOMAIN d = DOMAIN c
  BY <1>1
<1> HIDE DEF d, t
<1>5. d \in [1..Len(c) -> Location]
  BY <1>1, <1>2, <1>4
<1>6. d \in Seq(Location) /\ Len(d) = Len(c)
  BY <1>1, <1>5, SeqDef, LenProperties
<1>7. t \in States /\ t.chain = d /\ t.memory = s.memory
  BY <1>3, <1>6 DEF States
<1> HIDE DEF c
<1>8. SameLocs(c, d)
  BY <1>2, <1>4 DEF SameLocs
<1>9. /\ \A a : Wants(d, a) <=> Wants(c, a)
      /\ \A k \in DOMAIN c : Later(d, k) <=> Later(c, k)
      /\ \A a : Holds(d, a) <=> Holds(c, a)
  <2>1. ASSUME NEW a PROVE Holds(d, a) <=> Holds(c, a)
    BY <1>2, <1>4 DEF Holds
  <2> QED
    BY <1>8, <2>1, SameSaid
<1>10. Shadows(c, U, P) /\ TrapsLeft(s, U, P) /\ HandedOver(c, Len(c))
  BY DEF Settling, c
<1>11. DupRight(d)
  BY <1>2, <1>4, <1>9 DEF DupRight
<1>12. \A k \in DOMAIN c : c[k].inserted /\ ~c[k].enabled
                             => FirstIsIn(c, c[k].address)
  <2>1. \A k \in DOMAIN c : k <= Len(c)
    BY <1>1
  <2> QED
    BY <1>10, <2>1 DEF HandedOver
<1>13. Covered(d)
  <2>1. ASSUME NEW k \in DOMAIN c, d[k].inserted, ~d[k].enabled
        PROVE  Covers(d, d[k].address)
    <3>1. PICK f \in DOMAIN c :
             /\ c[f].enabled /\ c[f].address = c[k].address /\ ~Later(c, f)
             /\ c[f].inserted
      BY <1>2, <1>12, <2>1 DEF FirstIsIn
    <3> QED
      BY <1>2, <1>4, <3>1 DEF Covers, should_be_inserted
  <2> QED
    BY <1>4, <2>1 DEF Covered
<1>14. Shadows(d, U, P)
  BY <1>2, <1>4, <1>10 DEF Shadows
<1>15. InMemory(t, U, P)
  <2>1. \A a : Holds(c, a) => Wants(c, a)
    <3>1. ASSUME NEW k \in DOMAIN c, c[k].inserted
          PROVE  Wants(c, c[k].address)
      <4>1. CASE c[k].enabled
        BY <4>1 DEF Wants
      <4>2. CASE ~c[k].enabled
        BY <1>12, <3>1, <4>2 DEF FirstIsIn, Wants
      <4> QED
        BY <4>1, <4>2
    <3> QED
      BY <3>1 DEF Holds
  <2>2. ASSUME NEW a \in U
        PROVE  t.memory[a] = IF Holds(d, a) THEN Trap ELSE P[a]
    BY <1>7, <1>9, <1>10, <2>1 DEF TrapsLeft, c
  <2> QED
    BY <1>7, <2>2 DEF InMemory
<1>16. Good(t, U, P)
  BY <1>7, <1>11, <1>13, <1>14, <1>15 DEF Good
<1>17. InOrder(s, t, U, P)
  BY <1>6, <1>7, <1>8, <1>16 DEF InOrder, c
<1> QED
  BY <1>17 DEF t

(* update_global_location_list.                                            *)
LEMMA Update ==
    ASSUME NEW s \in States, NEW U, NEW P, U \subseteq Addr,
           Settling(s, U, P, 0), NEW may \in BOOLEAN
    PROVE  LET t == update_global_location_list(s, may)
           IN /\ InOrder(s, t, U, P)
              /\ always /\ may /\ at # "none" /\ ~t.error => AllThere(t.chain)
<1> DEFINE x == SettledAll(s)
           y == check_duplicates(x)
           z == insert_breakpoint_locations(y)
           insert == always /\ may /\ at # "none"
           t == update_global_location_list(s, may)
<1>1. /\ x \in States /\ SameLocs(s.chain, x.chain)
      /\ Settling(x, U, P, Len(s.chain))
  BY SettleAll
<1>2. Len(x.chain) = Len(s.chain)
  <2>1. DOMAIN x.chain = 1..Len(s.chain) /\ Len(s.chain) \in Nat
        /\ x.chain \in Seq(Location)
    BY <1>1, LocationsOf DEF States, SameLocs
  <2> QED
    BY <2>1, LocationsOf
<1>3. t = IF insert THEN z ELSE y
  BY DEF update_global_location_list
<1> HIDE DEF x
<1>4. InOrder(x, y, U, P)
  BY <1>1, <1>2, CheckDuplicates
<1> HIDE DEF y
<1>5. InOrder(s, y, U, P)
  BY <1>1, <1>2, <1>4 DEF InOrder, SameLocs
<1>6. InOrder(y, z, U, P) /\ (~z.error => AllThere(z.chain))
  BY <1>4, InsertAll DEF InOrder
<1> HIDE DEF z
<1>7. InOrder(s, z, U, P)
  BY <1>5, <1>6 DEF InOrder, SameLocs
<1> HIDE DEF t, insert
<1>8. InOrder(s, t, U, P) /\ (insert /\ ~t.error => AllThere(t.chain))
  BY <1>3, <1>5, <1>6, <1>7
<1> QED
  BY <1>8 DEF t, insert

(***************************************************************************)
(* Where update_global_location_list is called: the list is in order, or   *)
(* it is but for a location that was just added, enabled or disabled.      *)
(***************************************************************************)
LEMMA Starts ==
    ASSUME NEW s \in States, NEW U, NEW P, Good(s, U, P)
    PROVE  Settling(s, U, P, 0)
<1> DEFINE c == s.chain
<1>1. DOMAIN c \subseteq Nat /\ \A k \in DOMAIN c : ~(k <= 0)
  <2>1. Len(c) \in Nat /\ DOMAIN c = 1..Len(c)
    BY LocationsOf DEF States
  <2> QED
    BY <2>1
<1>2. DupRight(c) /\ Shadows(c, U, P) /\ InMemory(s, U, P)
  BY DEF Good
<1>3. TrapsLeft(s, U, P)
  BY <1>2 DEF InMemory, TrapsLeft
<1> HIDE DEF c
<1>4. HandedOver(c, 0)
  BY <1>1 DEF HandedOver
<1>5. MarksDated(c, 0)
  <2>1. ASSUME NEW x \in DOMAIN c, c[x].enabled, c[x].duplicate, Sole(c, x)
        PROVE  FALSE
    <3>1. PICK j \in DOMAIN c : j < x /\ c[j].enabled
                                /\ c[j].address = c[x].address
      BY <1>2, <2>1 DEF DupRight, Later
    <3>2. j # x
      BY <1>1, <3>1
    <3> QED
      BY <2>1, <3>1, <3>2 DEF Sole
  <2> QED
    BY <2>1 DEF MarksDated
<1> QED
  BY <1>2, <1>3, <1>4, <1>5 DEF Settling, c

(* A new breakpoint at the end of the list.                                *)
LEMMA StartsLonger ==
    ASSUME NEW s \in States, NEW U, NEW P, Good(s, U, P),
           NEW loc \in Location,
           loc.enabled, ~loc.inserted, ~loc.duplicate,
           NEW t \in States, t.chain = Append(s.chain, loc),
           t.memory = s.memory
    PROVE  Settling(t, U, P, 0)
<1> DEFINE c == s.chain
           d == t.chain
           n == Len(c) + 1
<1>1. /\ c \in Seq(Location) /\ Len(c) \in Nat /\ DOMAIN c = 1..Len(c)
  BY LocationsOf DEF States
<1>2. /\ DOMAIN d = 1..n /\ d[n] = loc /\ n \in DOMAIN d
      /\ \A k \in DOMAIN c : k \in DOMAIN d /\ d[k] = c[k]
      /\ \A k \in DOMAIN d : k \in DOMAIN c \/ k = n
      /\ DOMAIN d \subseteq Nat /\ \A k \in DOMAIN d : ~(k <= 0)
  BY <1>1, AppendProperties
<1>3. DupRight(c) /\ Shadows(c, U, P) /\ InMemory(s, U, P)
  BY DEF Good
<1> HIDE DEF c, d, n
<1>4. Shadows(d, U, P)
  BY <1>2, <1>3 DEF Shadows
<1>5. \A a : Holds(d, a) <=> Holds(c, a)
  BY <1>2 DEF Holds
<1>6. TrapsLeft(t, U, P)
  BY <1>3, <1>5 DEF InMemory, TrapsLeft, c, d
<1>7. HandedOver(d, 0)
  BY <1>2 DEF HandedOver
<1>8. MarksDated(d, 0)
  <2>1. ASSUME NEW x \in DOMAIN d, d[x].enabled, d[x].duplicate, Sole(d, x)
        PROVE  FALSE
    <3>1. x \in DOMAIN c /\ d[x] = c[x]
      BY <1>2, <2>1
    <3>2. PICK j \in DOMAIN c : j < x /\ c[j].enabled
                                /\ c[j].address = c[x].address
      BY <1>3, <2>1, <3>1 DEF DupRight, Later
    <3>3. j # x
      BY <1>2, <3>2
    <3> QED
      BY <1>2, <2>1, <3>1, <3>2, <3>3 DEF Sole
  <2> QED
    BY <2>1 DEF MarksDated
<1> QED
  BY <1>4, <1>6, <1>7, <1>8 DEF Settling, d

(* The i-th breakpoint is enabled or disabled.                             *)
IsChanged(c, i, e, d) ==
    /\ DOMAIN d = DOMAIN c /\ d[i].enabled = e
    /\ \A k \in DOMAIN c : /\ d[k].address = c[k].address
                           /\ d[k].inserted = c[k].inserted
                           /\ d[k].duplicate = c[k].duplicate
                           /\ d[k].shadow = c[k].shadow
                           /\ k # i => d[k].enabled = c[k].enabled

(* Either way the marks that are out of date are those Settling allows     *)
(* for.                                                                    *)
LEMMA StartsChanged ==
    ASSUME NEW s \in States, NEW i \in DOMAIN s.chain, NEW U, NEW P,
           Good(s, U, P), NEW e \in BOOLEAN,
           NEW t \in States, IsChanged(s.chain, i, e, t.chain),
           t.memory = s.memory
    PROVE  Settling(t, U, P, 0)
<1> DEFINE c == s.chain
           d == t.chain
<1>1. /\ c \in Seq(Location) /\ Len(c) \in Nat /\ DOMAIN c = 1..Len(c)
      /\ \A k \in DOMAIN c : /\ c[k] \in Location /\ c[k].enabled \in BOOLEAN
                             /\ c[k].duplicate \in BOOLEAN
  BY LocationsOf DEF States
<1>2. /\ DOMAIN d = DOMAIN c /\ i \in DOMAIN c
      /\ \A k \in DOMAIN c : /\ d[k].address = c[k].address
                             /\ d[k].inserted = c[k].inserted
                             /\ d[k].duplicate = c[k].duplicate
                             /\ d[k].shadow = c[k].shadow
                             /\ k # i => d[k].enabled = c[k].enabled
      /\ d[i].enabled = e
  BY DEF IsChanged
<1>3. DOMAIN d \subseteq Nat /\ \A k \in DOMAIN d : ~(k <= 0) /\ 0 < k
  BY <1>1, <1>2
<1>4. /\ DupRight(c) /\ Covered(c) /\ Shadows(c, U, P) /\ InMemory(s, U, P)
  BY DEF Good
<1> HIDE DEF c, d
<1>5. Shadows(d, U, P)
  BY <1>2, <1>4 DEF Shadows
<1>6. \A a : Holds(d, a) <=> Holds(c, a)
  BY <1>2 DEF Holds
<1>7. TrapsLeft(t, U, P)
  BY <1>4, <1>6 DEF InMemory, TrapsLeft, c, d
<1>8. HandedOver(d, 0)
  BY <1>3 DEF HandedOver
<1>9. ASSUME NEW x \in DOMAIN d, d[x].enabled, d[x].duplicate, Sole(d, x),
             After(d, x)
      PROVE  Between(d, 0, x)
  <2>1. PICK k \in DOMAIN c : /\ x < k /\ c[k].inserted
                              /\ c[k].address = c[x].address
    BY <1>2, <1>9 DEF After
  <2>2. k # x /\ ~d[k].enabled
    BY <1>1, <1>2, <1>3, <1>9, <2>1 DEF Sole
  <2>3. ASSUME NEW j \in DOMAIN c, c[j].enabled,
               c[j].address = c[x].address, j # x
        PROVE  j = i /\ ~e
    BY <1>2, <1>9, <2>3 DEF Sole
  <2>4. x = i => e
    BY <1>2, <1>9
  <2>5. CASE c[x].enabled
    <3>1. PICK j \in DOMAIN c : j < x /\ c[j].enabled
                                /\ c[j].address = c[x].address
      BY <1>2, <1>4, <1>9, <2>5 DEF DupRight, Later
    <3>2. j # x
      BY <1>2, <1>3, <3>1
    <3>3. j = i /\ ~e /\ x # i
      BY <2>3, <2>4, <3>1, <3>2
    <3>4. k # i
      BY <1>2, <1>3, <1>9, <2>1, <3>1, <3>3
    <3>5. ~c[k].enabled
      BY <1>2, <2>2, <3>4
    <3>6. PICK f \in DOMAIN c : /\ c[f].enabled /\ ~c[f].duplicate
                                /\ c[f].inserted /\ c[f].address = c[k].address
      BY <1>4, <2>1, <3>5 DEF Covered, Covers, should_be_inserted
    <3>7. f # x
      BY <1>2, <1>9, <3>6
    <3>8. f = i
      BY <2>1, <2>3, <3>6, <3>7
    <3> QED
      BY <1>2, <1>3, <2>1, <3>1, <3>3, <3>6, <3>8 DEF Between
  <2>6. CASE ~c[x].enabled
    <3>1. x = i /\ e
      BY <1>2, <1>9, <2>4, <2>6
    <3>2. ~c[k].enabled
      BY <2>1, <2>2, <2>3, <3>1
    <3>3. PICK f \in DOMAIN c : c[f].enabled /\ c[f].address = c[k].address
      BY <1>4, <2>1, <3>2 DEF Covered, Covers, should_be_inserted
    <3>4. f # x
      BY <2>6, <3>3
    <3> QED
      BY <2>1, <2>3, <3>1, <3>3, <3>4
  <2> QED
    BY <2>5, <2>6
<1>10. MarksDated(d, 0)
  BY <1>9 DEF MarksDated
<1> QED
  BY <1>5, <1>7, <1>8, <1>10 DEF Settling, d

(* insert_breakpoints leaves a trap for every enabled location.            *)
LEMMA InsertBreakpoints ==
    ASSUME NEW s \in States, NEW U, NEW P, Good(s, U, P), U \subseteq Addr,
           at # "none"
    PROVE  /\ InOrder(s, insert_breakpoints(s), U, P)
           /\ ~insert_breakpoints(s).error
                 => AllThere(insert_breakpoints(s).chain)
<1> DEFINE x == update_global_location_list(s, TRUE)
           y == insert_breakpoint_locations(x)
           t == insert_breakpoints(s)
<1>1. Settling(s, U, P, 0)
  BY Starts
<1>2. InOrder(s, x, U, P) /\ (always /\ ~x.error => AllThere(x.chain))
  BY <1>1, Update
<1>3. t = IF always THEN x ELSE y
  BY DEF insert_breakpoints
<1> HIDE DEF x
<1>4. InOrder(x, y, U, P) /\ (~y.error => AllThere(y.chain))
  BY <1>2, InsertAll DEF InOrder
<1> HIDE DEF y, t
<1>5. InOrder(s, y, U, P)
  BY <1>2, <1>4 DEF InOrder, SameLocs
<1>6. InOrder(s, t, U, P) /\ (~t.error => AllThere(t.chain))
  BY <1>2, <1>3, <1>4, <1>5
<1> QED
  BY <1>6 DEF t

-----------------------------------------------------------------------------
(* The actions.                                                            *)

(* What is in order is so for fewer addresses.                             *)
LEMMA GoodLess ==
    ASSUME NEW s, NEW t, NEW U, NEW V \in SUBSET U, NEW P, Good(s, U, P),
           t.chain = s.chain, \A a \in V : t.memory[a] = s.memory[a]
    PROVE  Good(t, V, P)
<1>1. Shadows(s.chain, V, P)
  BY DEF Good, Shadows
<1>2. InMemory(t, V, P)
  BY DEF Good, InMemory
<1> QED
  BY <1>1, <1>2 DEF Good

(* A disabled breakpoint is taken from the list.                           *)
LEMMA RemoveAtFields ==
    ASSUME NEW c \in Seq(Location), NEW i \in DOMAIN c
    PROVE  LET d == RemoveAt(c, i)
           IN /\ d \in Seq(Location) /\ Len(d) = Len(c) - 1
              /\ DOMAIN d = 1..(Len(c) - 1)
              /\ \A k \in DOMAIN d : d[k] = c[IF k < i THEN k ELSE k + 1]
<1> DEFINE n == Len(c)
           p == SubSeq(c, 1, i - 1)
           q == SubSeq(c, i + 1, n)
           d == p \o q
<1>1. n \in Nat /\ i \in 1..n
  BY LocationsOf
<1>2. p \in Seq(Location) /\ Len(p) = i - 1
      /\ \A k \in 1..(i - 1) : p[k] = c[k]
  BY <1>1, SubSeqProperties
<1>3. q \in Seq(Location) /\ Len(q) = n - i
      /\ \A k \in 1..(n - i) : q[k] = c[i + k]
  BY <1>1, SubSeqProperties
<1>4. RemoveAt(c, i) = d
  BY DEF RemoveAt
<1> HIDE DEF p, q
<1>5. d \in Seq(Location) /\ Len(d) = n - 1
  BY <1>1, <1>2, <1>3, ConcatProperties
<1>6. ASSUME NEW k \in 1..(n - 1)
      PROVE  d[k] = c[IF k < i THEN k ELSE k + 1]
  <2>1. CASE k < i
    BY <1>1, <1>2, <1>3, <2>1, ConcatProperties
  <2>2. CASE ~(k < i)
    <3>1. k - (i - 1) \in 1..(n - i) /\ i + (k - (i - 1)) = k + 1
      BY <1>1, <2>2
    <3>2. d[k] = q[k - Len(p)]
      <4>1. k \in 1..(Len(p) + Len(q)) /\ ~(k <= Len(p))
        BY <1>1, <1>2, <1>3, <2>2
      <4> QED
        BY <1>2, <1>3, <4>1, ConcatProperties
    <3> QED
      BY <1>2, <1>3, <2>2, <3>1, <3>2
  <2> QED
    BY <2>1, <2>2
<1>7. DOMAIN d = 1..(n - 1)
  BY <1>5, LenProperties
<1> HIDE DEF d
<1> QED
  BY <1>4, <1>5, <1>6, <1>7

(* What the disabled one had in memory another one has, too.               *)
LEMMA RemoveAtKeeps ==
    ASSUME NEW s \in States, NEW i \in DOMAIN s.chain, NEW U, NEW P,
           Good(s, U, P), ~s.chain[i].enabled,
           NEW t, t.chain = RemoveAt(s.chain, i), t.memory = s.memory
    PROVE  Good(t, U, P)
<1> DEFINE c == s.chain
           d == t.chain
           m == Len(c) - 1
           to(k) == IF k < i THEN k ELSE k + 1
           from(k) == IF k < i THEN k ELSE k - 1
<1>1. c \in Seq(Location) /\ Len(c) \in Nat /\ DOMAIN c = 1..Len(c)
      /\ i \in DOMAIN c /\ i \in Nat
  BY LocationsOf DEF States
<1>2. DOMAIN d = 1..m /\ \A k \in 1..m : d[k] = c[to(k)]
  BY <1>1, RemoveAtFields
<1>3. ~c[i].enabled /\ DupRight(c) /\ Covered(c) /\ Shadows(c, U, P)
      /\ InMemory(s, U, P)
  BY DEF Good
<1> HIDE DEF c, d
<1>4. /\ \A k \in 1..m : to(k) \in DOMAIN c /\ to(k) # i
      /\ \A k, j \in 1..m : j < k <=> to(j) < to(k)
  BY <1>1
<1>5. \A k \in DOMAIN c : k # i => from(k) \in 1..m /\ to(from(k)) = k
  BY <1>1
<1> HIDE DEF m, to, from
<1>6. ASSUME NEW k \in DOMAIN d
      PROVE  Later(d, k) <=> Later(c, to(k))
  <2>1. ASSUME Later(d, k) PROVE Later(c, to(k))
    <3>1. PICK j \in DOMAIN d : j < k /\ d[j].enabled
                                /\ d[j].address = d[k].address
      BY <2>1 DEF Later
    <3> QED
      BY <1>2, <1>4, <3>1 DEF Later
  <2>2. ASSUME Later(c, to(k)) PROVE Later(d, k)
    <3>1. PICK j \in DOMAIN c : j < to(k) /\ c[j].enabled
                                /\ c[j].address = c[to(k)].address
      BY <2>2 DEF Later
    <3>2. from(j) \in 1..m /\ to(from(j)) = j
      BY <1>3, <1>5, <3>1
    <3>3. from(j) < k
      BY <1>2, <1>4, <3>1, <3>2
    <3> QED
      BY <1>2, <3>1, <3>2, <3>3 DEF Later
  <2> QED
    BY <2>1, <2>2
<1>7. DupRight(d)
  BY <1>2, <1>3, <1>4, <1>6 DEF DupRight
<1>8. \A a : Covers(c, a) => Covers(d, a)
  <2>1. ASSUME NEW a, NEW f \in DOMAIN c, should_be_inserted(c[f]),
               c[f].inserted, c[f].address = a
        PROVE  Covers(d, a)
    <3>1. from(f) \in 1..m /\ to(from(f)) = f
      BY <1>3, <1>5, <2>1 DEF should_be_inserted
    <3> QED
      BY <1>2, <2>1, <3>1 DEF Covers
  <2> QED
    BY <2>1 DEF Covers
<1>9. Covered(d)
  BY <1>2, <1>3, <1>4, <1>8 DEF Covered
<1>10. Shadows(d, U, P)
  BY <1>2, <1>3, <1>4 DEF Shadows
<1>11. \A a : Holds(d, a) <=> Holds(c, a)
  <2>1. ASSUME NEW a, Holds(d, a) PROVE Holds(c, a)
    BY <1>2, <1>4, <2>1 DEF Holds
  <2>2. ASSUME NEW a, Holds(c, a) PROVE Holds(d, a)
    <3>1. PICK k \in DOMAIN c : c[k].inserted /\ c[k].address = a
      BY <2>2 DEF Holds
    <3>2. CASE k = i
      <4>1. Covers(d, a)
        BY <1>3, <1>8, <3>1, <3>2 DEF Covered
      <4> QED
        BY <4>1 DEF Covers, Holds
    <3>3. CASE k # i
      BY <1>2, <1>5, <3>1, <3>3 DEF Holds
    <3> QED
      BY <3>2, <3>3
  <2> QED
    BY <2>1, <2>2
<1>12. InMemory(t, U, P)
  BY <1>3, <1>11 DEF InMemory, c, d
<1> QED
  BY <1>7, <1>9, <1>10, <1>12 DEF Good, d

(* breakpoint_init_inferior.                                               *)
LEMMA MarkedOutKeeps ==
    ASSUME NEW c \in Seq(Location), DupRight(c),
           NEW t, t.chain = MarkedOut(c),
           NEW U, NEW P, \A a \in U : t.memory[a] = P[a]
    PROVE  /\ t.chain \in Seq(Location) /\ Len(t.chain) = Len(c)
           /\ Good(t, U, P)
           /\ \A a : ~Holds(t.chain, a)
<1> DEFINE d == t.chain
<1>1. /\ Len(c) \in Nat /\ DOMAIN c = 1..Len(c)
      /\ \A k \in DOMAIN c : c[k] \in Location
  BY LocationsOf
<1>2. /\ d = [k \in 1..Len(c) |-> Out(c[k])] /\ DOMAIN d = DOMAIN c
  BY <1>1 DEF MarkedOut
<1> HIDE DEF d
<1>3. ASSUME NEW k \in DOMAIN c
      PROVE  /\ d[k] \in Location /\ d[k].address = c[k].address
             /\ d[k].enabled = c[k].enabled
             /\ d[k].duplicate = c[k].duplicate /\ ~d[k].inserted
  <2>1. d[k] = Out(c[k]) /\ c[k] \in Location
    BY <1>1, <1>2
  <2> QED
    BY <2>1, OutFields
<1>4. d \in [1..Len(c) -> Location]
  BY <1>1, <1>2, <1>3
<1>5. d \in Seq(Location) /\ Len(d) = Len(c)
  BY <1>1, <1>4, SeqDef, LenProperties
<1>6. \A k \in DOMAIN c : Later(d, k) <=> Later(c, k)
  BY <1>2, <1>3 DEF Later
<1>7. DupRight(d)
  BY <1>2, <1>3, <1>6 DEF DupRight
<1>8. \A a : ~Holds(d, a)
  BY <1>2, <1>3 DEF Holds
<1>9. Covered(d) /\ Shadows(d, U, P)
  BY <1>2, <1>3 DEF Covered, Shadows
<1>10. InMemory(t, U, P)
  BY <1>8 DEF InMemory, d
<1> QED
  BY <1>5, <1>7, <1>8, <1>9, <1>10 DEF Good, d

(* Addresses of breakpoints are addresses.                                 *)
LEMMA AddressesTyped ==
    ASSUME TypeOK
    PROVE  /\ Occupied \subseteq Addr /\ Armed \subseteq Addr
           /\ Disturbances \subseteq Addr /\ Undisturbed \subseteq Addr
           /\ State \in States /\ State.chain = chain
           /\ State.memory = memory
           /\ \A a : a \in Armed <=> Holds(chain, a)
<1>1. Occupied \subseteq Addr
  BY DEF TypeOK, Raw, Occupied
<1>2. chain \in Seq(Location) /\ memory \in [Addr -> Contents]
  BY DEF TypeOK
<1>3. Armed \subseteq Addr
  BY <1>2, LocationsOf DEF Armed
<1>4. State \in States /\ State.chain = chain /\ State.memory = memory
  BY <1>2 DEF State, States
<1>5. \A a : a \in Armed <=> Holds(chain, a)
  BY DEF Armed, Holds
<1> QED
  BY <1>1, <1>3, <1>4, <1>5 DEF Disturbances, Undisturbed

(* A command leaves everything in order when it leaves the list so.        *)
LEMMA CommandKeeps ==
    ASSUME IInv, at # "running",
           NEW s \in States, Good(s, Undisturbed, program),
           Len(s.chain) <= MaxBreakpoints,
           chain' = s.chain, memory' = s.memory, SameProcess,
           always' \in BOOLEAN,
           Disturbances' \subseteq disturbed',
           disturbed \subseteq disturbed', disturbed' \subseteq Addr
    PROVE  IInv'
<1>1. s.chain \in Seq(Location) /\ s.memory \in [Addr -> Contents]
  BY DEF States
<1>2. TypeOK'
  BY <1>1 DEF IInv, TypeOK, SameProcess
<1>3. Undisturbed' \in SUBSET Undisturbed
  BY DEF Undisturbed, Occupied, SameProcess
<1>4. State'.chain = s.chain /\ State'.memory = s.memory /\ program' = program
  BY DEF State, SameProcess
<1>5. Good(State', Undisturbed', program')
  BY <1>3, <1>4, GoodLess
<1>6. SlotsInv'
  BY DEF IInv, SlotsInv, SameProcess
<1>7. RunInv'
  BY DEF RunInv, SameProcess
<1> QED
  BY <1>2, <1>5, <1>6, <1>7 DEF IInv

(* What Disturb leaves.                                                    *)
LEMMA Disturbed ==
    ASSUME TypeOK, SameProcess, NEW D \in SUBSET Addr, Disturb(D)
    PROVE  /\ Disturbances' \subseteq disturbed'
           /\ disturbed \subseteq disturbed' /\ disturbed' \subseteq Addr
<1>1. Occupied' = Occupied
  BY DEF SameProcess, Occupied
<1>2. Disturbances' \subseteq Occupied'
  BY DEF Disturbances
<1>3. disturbed \subseteq Addr
  BY DEF TypeOK
<1> QED
  BY <1>1, <1>2, <1>3, AddressesTyped DEF Disturb

(* The breakpoint commands, each with the list it hands to                 *)
(* update_global_location_list.                                            *)
LEMMA UpdateKeeps ==
    ASSUME IInv, NEW s \in States, Settling(s, Undisturbed, program, 0),
           NEW may \in BOOLEAN
    PROVE  InOrder(s, update_global_location_list(s, may), Undisturbed,
                   program)
<1>1. Undisturbed \subseteq Addr
  BY DEF Undisturbed
<1> QED
  BY <1>1, Update

(* A breakpoint is added.                                                  *)
LEMMA BreakKeeps ==
    ASSUME IInv, NEW a \in Addr, Break(a)
    PROVE  IInv'
<1> DEFINE loc == [address |-> a, enabled |-> TRUE, inserted |-> FALSE,
                   duplicate |-> FALSE, shadow |-> Old]
           s == [State EXCEPT !.chain = Append(@, loc)]
           t == update_global_location_list(s, TRUE)
<1>1. TypeOK /\ Good(State, Undisturbed, program)
  BY DEF IInv
<1>2. State \in States /\ State.chain = chain /\ State.memory = memory
  BY <1>1, AddressesTyped
<1>3. /\ loc \in Location /\ loc.enabled /\ ~loc.inserted /\ ~loc.duplicate
  BY DEF Location, Contents, Code
<1> HIDE DEF loc
<1>4. Append(chain, loc) \in Seq(Location) /\ chain \in Seq(Location)
      /\ Len(Append(chain, loc)) = Len(chain) + 1
  BY <1>2, <1>3, AppendProperties DEF States
<1>5. s \in States /\ s.chain = Append(State.chain, loc)
      /\ s.memory = State.memory
  BY <1>2, <1>4 DEF States, State
<1> HIDE DEF s
<1>6. Settling(s, Undisturbed, program, 0)
  BY <1>1, <1>2, <1>3, <1>5, StartsLonger
<1>7. InOrder(s, t, Undisturbed, program)
  BY <1>5, <1>6, UpdateKeeps
<1>8. chain' = t.chain /\ memory' = t.memory /\ SameProcess
      /\ at # "running" /\ always' = always /\ Disturb({})
      /\ Len(chain) < MaxBreakpoints
  BY DEF Break, Becomes, AtRest, loc, s
<1> HIDE DEF t
<1>9. Len(t.chain) <= MaxBreakpoints /\ t \in States
      /\ Good(t, Undisturbed, program)
  <2>1. Len(chain) \in Nat /\ Len(t.chain) = Len(chain) + 1
    BY <1>2, <1>4, <1>5, <1>7, LocationsOf DEF InOrder
  <2>2. MaxBreakpoints \in Nat
    BY BreakpointsAssumption
  <2> QED
    BY <1>7, <1>8, <2>1, <2>2 DEF InOrder
<1>10. /\ Disturbances' \subseteq disturbed'
       /\ disturbed \subseteq disturbed' /\ disturbed' \subseteq Addr
  BY <1>1, <1>8, Disturbed
<1>11. always' \in BOOLEAN
  BY <1>1, <1>8 DEF TypeOK
<1> QED
  BY <1>8, <1>9, <1>10, <1>11, CommandKeeps

(* Enabling and disabling: the list before update_global_location_list.    *)
LEMMA ChangeKeeps ==
    ASSUME IInv, NEW i \in DOMAIN chain, NEW e \in BOOLEAN,
           NEW s, s = [State EXCEPT !.chain[i].enabled = e]
    PROVE  /\ s \in States /\ Settling(s, Undisturbed, program, 0)
           /\ Len(s.chain) = Len(chain) /\ s.chain[i].enabled = e
<1>1. TypeOK /\ Good(State, Undisturbed, program)
  BY DEF IInv
<1>2. State \in States /\ State.chain = chain /\ State.memory = memory
  BY <1>1, AddressesTyped
<1> DEFINE c == chain
           d == [c EXCEPT ![i].enabled = e]
<1>3. /\ c \in Seq(Location) /\ Len(c) \in Nat /\ DOMAIN c = 1..Len(c)
      /\ c[i] \in Location
  BY <1>2, LocationsOf DEF States
<1>4. [c[i] EXCEPT !.enabled = e] \in Location
      /\ [c[i] EXCEPT !.enabled = e].enabled = e
  BY <1>3 DEF Location
<1>5. d = [c EXCEPT ![i] = [c[i] EXCEPT !.enabled = e]] /\ i \in DOMAIN c
  BY <1>3
<1>6. d \in [1..Len(c) -> Location] /\ d[i].enabled = e
  BY <1>3, <1>4, <1>5
<1> HIDE DEF d, c
<1>7. d \in Seq(Location) /\ Len(d) = Len(c)
  BY <1>3, <1>6, SeqDef, LenProperties
<1>8. s \in States /\ s.chain = d /\ s.memory = State.memory
  BY <1>2, <1>7 DEF States, State, d, c
<1>9. IsChanged(State.chain, i, e, s.chain)
  <2>1. d[i].address = c[i].address /\ d[i].inserted = c[i].inserted
        /\ d[i].duplicate = c[i].duplicate /\ d[i].shadow = c[i].shadow
    <3>1. d[i] = [c[i] EXCEPT !.enabled = e]
      BY <1>3, <1>5
    <3> QED
      BY <1>3, <3>1 DEF Location
  <2>2. DOMAIN d = DOMAIN c /\ \A k \in DOMAIN c : k # i => d[k] = c[k]
    BY <1>5
  <2>3. IsChanged(c, i, e, d)
    BY <1>6, <2>1, <2>2 DEF IsChanged
  <2> QED
    BY <1>2, <1>8, <2>3 DEF c
<1>10. i \in DOMAIN State.chain
  BY <1>2
<1>11. Settling(s, Undisturbed, program, 0)
  BY <1>1, <1>2, <1>8, <1>9, <1>10, StartsChanged
<1> QED
  BY <1>6, <1>7, <1>8, <1>11 DEF c

(* A breakpoint is enabled or disabled.                                    *)
LEMMA EnableKeeps ==
    ASSUME IInv, NEW i \in DOMAIN chain,
           disable_breakpoint(i) \/ do_enable_breakpoint(i)
    PROVE  IInv'
<1>1. TypeOK
  BY DEF IInv
<1>2. PICK e \in BOOLEAN, may \in BOOLEAN :
         Becomes(update_global_location_list(
                    [State EXCEPT !.chain[i].enabled = e], may))
  BY DEF disable_breakpoint, do_enable_breakpoint
<1>3. SameProcess /\ at # "running" /\ always' = always /\ Disturb({})
  BY DEF disable_breakpoint, do_enable_breakpoint, AtRest
<1>4. PICK s : s = [State EXCEPT !.chain[i].enabled = e]
  OBVIOUS
<1> DEFINE t == update_global_location_list(s, may)
<1>5. /\ s \in States /\ Settling(s, Undisturbed, program, 0)
      /\ Len(s.chain) = Len(chain)
  BY <1>4, ChangeKeeps
<1>6. InOrder(s, t, Undisturbed, program)
  BY <1>5, UpdateKeeps
<1>7. chain' = t.chain /\ memory' = t.memory
  BY <1>2, <1>4 DEF Becomes
<1> HIDE DEF t
<1>8. Len(t.chain) <= MaxBreakpoints /\ t \in States
      /\ Good(t, Undisturbed, program)
  BY <1>1, <1>5, <1>6 DEF InOrder, TypeOK
<1>9. /\ Disturbances' \subseteq disturbed'
      /\ disturbed \subseteq disturbed' /\ disturbed' \subseteq Addr
  BY <1>1, <1>3, Disturbed
<1>10. always' \in BOOLEAN
  BY <1>1, <1>3 DEF TypeOK
<1> QED
  BY <1>3, <1>7, <1>8, <1>9, <1>10, CommandKeeps

(* A breakpoint is deleted.                                                *)
LEMMA DeleteKeeps ==
    ASSUME IInv, NEW i \in DOMAIN chain, delete_breakpoint(i)
    PROVE  IInv'
<1>1. TypeOK
  BY DEF IInv
<1>2. PICK s : s = [State EXCEPT !.chain[i].enabled = FALSE]
  OBVIOUS
<1> DEFINE t == update_global_location_list(s, FALSE)
           d == RemoveAt(t.chain, i)
           r == [chain |-> d, memory |-> t.memory, error |-> FALSE]
<1>3. /\ SameProcess /\ at # "running" /\ always' = always /\ Disturb({})
      /\ chain' = d /\ memory' = t.memory
  BY <1>2 DEF delete_breakpoint, AtRest
<1>4. /\ s \in States /\ Settling(s, Undisturbed, program, 0)
      /\ Len(s.chain) = Len(chain) /\ ~s.chain[i].enabled
  BY <1>2, ChangeKeeps
<1>5. InOrder(s, t, Undisturbed, program)
  BY <1>4, UpdateKeeps
<1>6. /\ chain \in Seq(Location) /\ Len(chain) \in Nat
      /\ DOMAIN chain = 1..Len(chain) /\ Len(chain) <= MaxBreakpoints
      /\ MaxBreakpoints \in Nat
  BY <1>1, LocationsOf, BreakpointsAssumption DEF TypeOK
<1> HIDE DEF t
<1>7. /\ t \in States /\ t.chain \in Seq(Location)
      /\ Len(t.chain) = Len(chain) /\ i \in DOMAIN t.chain
      /\ ~t.chain[i].enabled /\ t.memory \in [Addr -> Contents]
      /\ Good(t, Undisturbed, program)
  <2>1. /\ t \in States /\ t.chain \in Seq(Location)
        /\ Len(t.chain) = Len(chain) /\ t.memory \in [Addr -> Contents]
        /\ Good(t, Undisturbed, program) /\ SameLocs(s.chain, t.chain)
    BY <1>4, <1>5 DEF InOrder, States
  <2>2. i \in DOMAIN t.chain
    BY <1>6, <2>1, LocationsOf
  <2> QED
    BY <1>4, <2>1, <2>2 DEF SameLocs
<1>8. d \in Seq(Location) /\ Len(d) = Len(chain) - 1
  BY <1>7, RemoveAtFields
<1> HIDE DEF d
<1>9. r \in States /\ r.chain = d /\ r.memory = t.memory
  BY <1>7, <1>8 DEF States
<1> HIDE DEF r
<1>10. Good(r, Undisturbed, program)
  <2>1. r.chain = RemoveAt(t.chain, i)
    BY <1>9 DEF d
  <2> QED
    BY <1>7, <1>9, <2>1, RemoveAtKeeps
<1>11. Len(r.chain) <= MaxBreakpoints
  BY <1>6, <1>8, <1>9
<1>12. /\ Disturbances' \subseteq disturbed'
       /\ disturbed \subseteq disturbed' /\ disturbed' \subseteq Addr
  BY <1>1, <1>3, Disturbed
<1>13. always' \in BOOLEAN
  BY <1>1, <1>3 DEF TypeOK
<1> QED
  BY <1>3, <1>9, <1>10, <1>11, <1>12, <1>13, CommandKeeps

(* The mode is changed; memory follows with the next update.               *)
LEMMA SetAlwaysKeeps ==
    ASSUME IInv, SetAlwaysInserted
    PROVE  IInv'
<1>1. TypeOK /\ Good(State, Undisturbed, program) /\ SlotsInv
  BY DEF IInv
<1>2. /\ State \in States /\ State.chain = chain /\ State.memory = memory
  BY <1>1, AddressesTyped
<1>3. /\ SameProcess /\ at # "running" /\ always' \in BOOLEAN
      /\ chain' = State.chain /\ memory' = State.memory
      /\ disturbed' = disturbed
  BY <1>2 DEF SetAlwaysInserted
<1>4. Disturbances' = Disturbances
  BY <1>2, <1>3 DEF Disturbances, Occupied, Armed, SameProcess
<1>5. /\ Disturbances' \subseteq disturbed'
      /\ disturbed \subseteq disturbed' /\ disturbed' \subseteq Addr
  BY <1>1, <1>3, <1>4 DEF SlotsInv, TypeOK
<1>6. Len(State.chain) <= MaxBreakpoints
  BY <1>1, <1>2 DEF TypeOK
<1> QED
  BY <1>1, <1>2, <1>3, <1>5, <1>6, CommandKeeps

(* The user writes elsewhere, or where that counts as disturbed.           *)
LEMMA WriteKeeps ==
    ASSUME IInv, NEW a \in Addr, NEW code \in Code, Write(a, code)
    PROVE  IInv'
<1>1. TypeOK /\ Good(State, Undisturbed, program) /\ SlotsInv
  BY DEF IInv
<1>2. /\ State \in States /\ State.chain = chain /\ State.memory = memory
      /\ Occupied \subseteq Addr /\ Disturbances \subseteq Addr
      /\ \A b : b \in Armed <=> Holds(chain, b)
  BY <1>1, AddressesTyped
<1>3. /\ at' = at /\ at = "stopped" /\ chain' = chain /\ slots' = slots
      /\ stepping' = stepping /\ over' = over /\ always' = always
      /\ memory' = [memory EXCEPT ![a] = code]
      /\ program' = [program EXCEPT ![a] = code]
      /\ disturbed' = disturbed \union ({a} \intersect (Armed \union Occupied))
                                \union Disturbances'
  BY DEF Write, Disturb
<1>4. Occupied' = Occupied /\ Disturbances' = Disturbances
  BY <1>3 DEF Occupied, Disturbances, Armed
<1>5. TypeOK'
  BY <1>1, <1>2, <1>3, <1>4 DEF TypeOK, Contents
<1>6. /\ Undisturbed' \in SUBSET Undisturbed
      /\ a \in Undisturbed' => a \notin Armed /\ a \notin Occupied
  BY <1>3, <1>4 DEF Undisturbed
<1>7. State'.chain = chain /\ State'.memory = memory'
  BY <1>3 DEF State
<1>8. Good(State', Undisturbed', program')
  <2>1. DupRight(chain) /\ Covered(chain)
        /\ Shadows(chain, Undisturbed, program)
        /\ \A b \in Undisturbed :
              memory[b] = IF Holds(chain, b) THEN Trap ELSE program[b]
    BY <1>1, <1>2 DEF Good, InMemory
  <2>2. memory \in [Addr -> Contents] /\ program \in [Addr -> Code]
        /\ Undisturbed \subseteq Addr
    BY <1>1 DEF TypeOK, Undisturbed
  <2>3. \A b \in Undisturbed' :
           memory'[b] = IF Holds(chain, b) THEN Trap ELSE program'[b]
    BY <1>2, <1>3, <1>6, <2>1, <2>2
  <2>4. ASSUME NEW k \in DOMAIN chain, chain[k].inserted,
               chain[k].address \in Undisturbed'
        PROVE  chain[k].shadow = program'[chain[k].address]
    <3>1. chain[k].address \in Armed
      BY <1>2, <2>4 DEF Holds
    <3>2. chain[k].address # a
      BY <1>6, <2>4, <3>1
    <3>3. chain[k].shadow = program[chain[k].address]
      BY <1>6, <2>1, <2>4 DEF Shadows
    <3> QED
      BY <1>3, <1>6, <2>2, <2>4, <3>2, <3>3
  <2>5. Shadows(chain, Undisturbed', program')
    BY <2>4 DEF Shadows
  <2> QED
    BY <1>7, <2>1, <2>3, <2>5 DEF Good, InMemory
<1>9. SlotsInv'
  <2>1. ASSUME NEW k \in 1..2, slots[k] # None,
               slots[k].address \notin disturbed'
        PROVE  slots[k].shadow = program'[slots[k].address]
    <3>1. slots[k].address \in Occupied
      BY <2>1 DEF Occupied
    <3>2. slots[k].address # a /\ slots[k].address \in Addr
      BY <1>2, <1>3, <2>1, <3>1
    <3>3. slots[k].shadow = program[slots[k].address]
      BY <1>1, <1>3, <2>1 DEF SlotsInv
    <3> QED
      BY <1>1, <1>3, <3>2, <3>3 DEF TypeOK
  <2> QED
    BY <1>1, <1>3, <1>4, <2>1 DEF SlotsInv
<1>10. RunInv'
  BY <1>3 DEF RunInv
<1> QED
  BY <1>5, <1>8, <1>9, <1>10 DEF IInv

-----------------------------------------------------------------------------
(* Single stepping.                                                        *)

(* t is s with more of the slots filled: with what reads of s give, and    *)
(* memory is changed at their addresses only.                              *)
Steps == [chain : Seq(Location), memory : [Addr -> Contents],
          slots : [1..2 -> Raw],
          outcome : {"running", "stopped", "internal error"}]
Filled(s, t, k) == /\ t.slots[k] # None /\ t.slots[k].address \in Addr
                   /\ t.slots[k].shadow = Reads(s, t.slots[k].address)
IsStepped(s, t) ==
    /\ t \in Steps /\ t.chain = s.chain
    /\ \A k \in 1..2 : IF slots[k] # None THEN t.slots[k] = slots[k]
                       ELSE t.slots[k] = None \/ Filled(s, t, k)
    /\ \A x \in Addr : \/ t.memory[x] = s.memory[x]
                       \/ \E k \in 1..2 : /\ t.slots[k] # None
                                          /\ t.slots[k].address = x

(* insert_single_step_breakpoint fills a slot, or fails and leaves all     *)
(* slots.                                                                  *)
LEMMA SlotFilled ==
    ASSUME NEW s \in States, NEW t, IsStepped(s, t), NEW a \in Addr,
           t.memory[a] = s.memory[a]
    PROVE  LET u == insert_single_step_breakpoint(t, a)
           IN /\ IsStepped(s, u)
              /\ \A x \in Addr \ {a} : u.memory[x] = t.memory[x]
<1> DEFINE u == insert_single_step_breakpoint(t, a)
           raw == [address |-> a, shadow |-> Reads(t, a)]
           free == IF t.slots[1] = None THEN 1 ELSE 2
           p == [t.slots EXCEPT ![free] = raw]
           m == [t.memory EXCEPT ![a] = Trap]
           Ends == /\ IsStepped(s, u)
                   /\ \A x \in Addr \ {a} : u.memory[x] = t.memory[x]
<1> SUFFICES Ends
  OBVIOUS
<1>1. t \in Steps /\ t.chain = s.chain
      /\ t.slots \in [1..2 -> Raw] /\ t.memory \in [Addr -> Contents]
  BY DEF IsStepped, Steps
<1>2. Reads(t, a) = Reads(s, a)
  BY <1>1 DEF Reads
<1>3. Reads(s, a) \in Contents
  BY ReadsRight
<1>4. raw \in Raw /\ raw # None /\ raw.address = a
      /\ raw.shadow = Reads(s, a)
  <2>1. raw \in Raw /\ raw.address = a /\ raw.shadow = Reads(s, a)
    BY <1>2, <1>3 DEF Raw
  <2>2. None.shadow \notin Contents
    BY DEF None, Contents, Code, Old, New, Trap
  <2>3. raw.shadow # None.shadow
    BY <1>3, <2>1, <2>2
  <2> HIDE DEF raw
  <2> QED
    BY <2>1, <2>3
<1>5. CASE t.outcome # "running"
  <2>1. u = t
    BY <1>5 DEF insert_single_step_breakpoint
  <2> HIDE DEF u
  <2> QED
    BY <2>1
<1>6. CASE t.outcome = "running" /\ None \notin {t.slots[1], t.slots[2]}
  <2>1. u = [t EXCEPT !.outcome = "internal error"]
    BY <1>6 DEF insert_single_step_breakpoint
  <2> HIDE DEF u
  <2>2. u \in Steps /\ u.chain = t.chain /\ u.memory = t.memory
        /\ u.slots = t.slots
    BY <1>1, <2>1 DEF Steps
  <2> QED
    BY <2>2 DEF IsStepped, Filled
<1>7. CASE /\ t.outcome = "running" /\ None \in {t.slots[1], t.slots[2]}
           /\ a \in Unwritable
  <2>1. u = [t EXCEPT !.outcome = "stopped"]
    BY <1>7 DEF insert_single_step_breakpoint
  <2> HIDE DEF u
  <2>2. u \in Steps /\ u.chain = t.chain /\ u.memory = t.memory
        /\ u.slots = t.slots
    BY <1>1, <2>1 DEF Steps
  <2> QED
    BY <2>2 DEF IsStepped, Filled
<1>8. CASE /\ t.outcome = "running" /\ None \in {t.slots[1], t.slots[2]}
           /\ a \notin Unwritable
  <2>1. u = [t EXCEPT !.slots = p, !.memory = m]
    BY <1>1, <1>8 DEF insert_single_step_breakpoint, Steps
  <2>2. free \in 1..2 /\ t.slots[free] = None
    BY <1>8
  <2> HIDE DEF u, raw, free
  <2>3. p \in [1..2 -> Raw] /\ m \in [Addr -> Contents]
        /\ p[free] = raw /\ m[a] = Trap
        /\ \A k \in 1..2 : k # free => p[k] = t.slots[k]
        /\ \A x \in Addr : x # a => m[x] = t.memory[x]
    BY <1>1, <1>4, <2>2 DEF Contents
  <2> HIDE DEF p, m
  <2>4. u \in Steps /\ u.chain = t.chain /\ u.memory = m /\ u.slots = p
    BY <1>1, <2>1, <2>3 DEF Steps
  <2>5. ASSUME NEW k \in 1..2
        PROVE  IF slots[k] # None THEN p[k] = slots[k]
               ELSE p[k] = None \/ Filled(s, u, k)
    <3>1. IF slots[k] # None THEN t.slots[k] = slots[k]
          ELSE t.slots[k] = None \/ Filled(s, t, k)
      BY DEF IsStepped
    <3>2. CASE k = free
      <4>1. slots[k] = None
        BY <2>2, <3>1, <3>2
      <4>2. Filled(s, u, k)
        BY <1>4, <2>3, <2>4, <3>2 DEF Filled
      <4> QED
        BY <4>1, <4>2
    <3>3. CASE k # free
      BY <2>3, <2>4, <3>1, <3>3 DEF Filled
    <3> QED
      BY <3>2, <3>3
  <2>6. ASSUME NEW x \in Addr
        PROVE  \/ m[x] = s.memory[x]
               \/ \E k \in 1..2 : p[k] # None /\ p[k].address = x
    <3>1. CASE x = a
      BY <1>4, <2>2, <2>3, <3>1
    <3>2. CASE x # a
      <4>1. \/ t.memory[x] = s.memory[x]
            \/ \E k \in 1..2 : t.slots[k] # None /\ t.slots[k].address = x
        BY DEF IsStepped
      <4> QED
        BY <2>2, <2>3, <3>2, <4>1
    <3> QED
      BY <3>1, <3>2
  <2>7. IsStepped(s, u)
    BY <1>1, <2>4, <2>5, <2>6 DEF IsStepped
  <2> QED
    BY <2>3, <2>4, <2>7
<1> QED
  BY <1>5, <1>6, <1>7, <1>8

(* The same for the breakpoints at one or two next instructions.           *)
LEMMA SlotsFilled ==
    ASSUME TypeOK, NEW s \in States, NEW a \in Addr, NEW b \in Addr
    PROVE  IsStepped(s, InsertedAt(s, a, b))
<1> DEFINE none == Step(s)
           one == insert_single_step_breakpoint(none, a)
           two == insert_single_step_breakpoint(one, b)
<1>1. none \in Steps /\ none.chain = s.chain /\ none.memory = s.memory
      /\ none.slots = slots
  BY DEF Step, Steps, States, TypeOK
<1> HIDE DEF none
<1>2. IsStepped(s, none)
  BY <1>1 DEF IsStepped
<1>3. IsStepped(s, one) /\ \A x \in Addr \ {a} : one.memory[x] = s.memory[x]
  BY <1>1, <1>2, SlotFilled
<1>4. InsertedAt(s, a, b) = IF b = a THEN one ELSE two
  BY DEF InsertedAt, none
<1> HIDE DEF one
<1>5. b # a => IsStepped(s, two)
  <2>1. b # a => one.memory[b] = s.memory[b]
    BY <1>3
  <2> QED
    BY <1>3, <2>1, SlotFilled
<1> QED
  BY <1>3, <1>4, <1>5

(* What resume does to memory it does at addresses of the slots, and when  *)
(* it fails what normal_stop does besides.                                 *)
LEMMA Resumed ==
    ASSUME TypeOK, ~stepping, NEW s \in States, resume(s)
    PROVE  /\ slots' \in [1..2 -> Raw] /\ stepping' \in BOOLEAN
           /\ at' \in {"running", "stopped", "internal error"}
           /\ stepping' => at' = "running"
           /\ \A k \in 1..2 :
                 IF slots[k] # None THEN slots'[k] = slots[k]
                 ELSE \/ slots'[k] = None
                      \/ slots'[k].shadow = Reads(s, slots'[k].address)
           /\ \E m \in States :
                 /\ m.chain = s.chain
                 /\ \A x \in Addr : m.memory[x] = s.memory[x] \/ x \in Occupied'
                 /\ Becomes(m) \/ (at' = "stopped" /\ Becomes(stopped(m)))
<1>1. CASE at' = "running" /\ Becomes(s) /\ UNCHANGED <<slots, stepping>>
  BY <1>1 DEF TypeOK
<1>2. CASE \E a, b \in Addr :
              LET t == InsertedAt(s, a, b)
                  m == [s EXCEPT !.memory = t.memory]
              IN  /\ at' = t.outcome
                  /\ Becomes(IF t.outcome = "stopped" THEN stopped(m) ELSE m)
                  /\ slots' = t.slots
                  /\ stepping' = (stepping \/ t.outcome = "running")
  <2>1. PICK a \in Addr, b \in Addr :
           LET t == InsertedAt(s, a, b)
               m == [s EXCEPT !.memory = t.memory]
           IN  /\ at' = t.outcome
               /\ Becomes(IF t.outcome = "stopped" THEN stopped(m) ELSE m)
               /\ slots' = t.slots
               /\ stepping' = (stepping \/ t.outcome = "running")
    BY <1>2
  <2> DEFINE t == InsertedAt(s, a, b)
             m == [s EXCEPT !.memory = t.memory]
  <2>2. /\ at' = t.outcome
        /\ Becomes(m) \/ (at' = "stopped" /\ Becomes(stopped(m)))
        /\ slots' = t.slots /\ stepping' = (stepping \/ t.outcome = "running")
    BY <2>1
  <2>3. IsStepped(s, t)
    BY SlotsFilled
  <2> HIDE DEF t
  <2>4. m \in States /\ m.chain = s.chain /\ m.memory = t.memory
    BY <2>3 DEF IsStepped, Steps, States
  <2> HIDE DEF m
  <2>5. /\ slots' \in [1..2 -> Raw]
        /\ at' \in {"running", "stopped", "internal error"}
    BY <2>2, <2>3 DEF IsStepped, Steps
  <2>6. stepping' \in BOOLEAN /\ (stepping' => at' = "running")
    BY <2>2
  <2>7. \A k \in 1..2 :
           IF slots[k] # None THEN slots'[k] = slots[k]
           ELSE \/ slots'[k] = None
                \/ slots'[k].shadow = Reads(s, slots'[k].address)
    BY <2>2, <2>3 DEF IsStepped, Filled
  <2>8. ASSUME NEW x \in Addr
        PROVE  m.memory[x] = s.memory[x] \/ x \in Occupied'
    BY <2>2, <2>3, <2>4 DEF IsStepped, Occupied
  <2> QED
    BY <2>2, <2>4, <2>5, <2>6, <2>7, <2>8
<1> QED
  BY <1>1, <1>2 DEF resume

(* What normal_stop leaves is in order.                                    *)
LEMMA StoppedInOrder ==
    ASSUME NEW s \in States, NEW U, NEW P, Good(s, U, P), U \subseteq Addr
    PROVE  InOrder(s, stopped(s), U, P)
<1>1. InOrder(s, remove_breakpoints(s), U, P)
  BY RemoveAll
<1>2. InOrder(s, s, U, P)
  BY DEF InOrder, SameLocs
<1> QED
  BY <1>1, <1>2 DEF stopped

(* The process is resumed, from any state in order; unless it steps over a *)
(* breakpoint, with a trap for every enabled one.                          *)
LEMMA ResumeKeeps ==
    ASSUME IInv, at # "running",
           NEW s \in States, Good(s, Undisturbed, program),
           Len(s.chain) <= MaxBreakpoints, resume(s),
           UNCHANGED <<always, program>>, Disturb({}), over' \in BOOLEAN,
           at' = "running" /\ ~over' => AllThere(s.chain)
    PROVE  IInv'
<1>1. TypeOK /\ SlotsInv
  BY DEF IInv
<1>2. ~stepping
  BY <1>1 DEF SlotsInv
<1>3. /\ slots' \in [1..2 -> Raw] /\ stepping' \in BOOLEAN
      /\ at' \in {"running", "stopped", "internal error"}
      /\ stepping' => at' = "running"
  BY <1>1, <1>2, Resumed
<1>4. \A k \in 1..2 :
         IF slots[k] # None THEN slots'[k] = slots[k]
         ELSE \/ slots'[k] = None
              \/ slots'[k].shadow = Reads(s, slots'[k].address)
  BY <1>1, <1>2, Resumed
<1>5. PICK m \in States :
         /\ m.chain = s.chain
         /\ \A x \in Addr : m.memory[x] = s.memory[x] \/ x \in Occupied'
         /\ Becomes(m) \/ (at' = "stopped" /\ Becomes(stopped(m)))
  BY <1>1, <1>2, Resumed
<1>6. program' = program /\ always' = always
      /\ disturbed' = disturbed \union Disturbances'
  BY DEF Disturb
<1>7. Occupied \subseteq Occupied' /\ Occupied' \subseteq Addr
      /\ Occupied \subseteq disturbed
  <2>1. ASSUME NEW k \in 1..2, slots[k] # None
        PROVE  slots[k].address \in Occupied'
    <3>1. slots'[k] = slots[k]
      BY <1>4, <2>1
    <3> QED
      BY <2>1, <3>1 DEF Occupied
  <2>2. Occupied \subseteq Occupied'
    BY <2>1 DEF Occupied
  <2>3. Occupied' \subseteq Addr
    BY <1>3 DEF Occupied, Raw
  <2>4. Occupied \subseteq disturbed
    <3>1. Occupied \subseteq Addr /\ Disturbances \subseteq disturbed
      BY <1>1, AddressesTyped DEF SlotsInv
    <3> QED
      BY <1>2, <3>1 DEF Disturbances
  <2> QED
    BY <2>2, <2>3, <2>4
<1>8. Disturbances' \subseteq disturbed' /\ disturbed \subseteq disturbed'
      /\ disturbed' \subseteq Addr
  <2>1. Disturbances' \subseteq Occupied'
    BY DEF Disturbances
  <2> QED
    BY <1>1, <1>6, <1>7, <2>1 DEF TypeOK
<1>9. Undisturbed' \in SUBSET Undisturbed /\ Undisturbed' \subseteq Addr
  BY <1>7, <1>8 DEF Undisturbed
<1>10. PICK u \in States : /\ Becomes(u) /\ Len(u.chain) <= MaxBreakpoints
                           /\ Good(u, Undisturbed', program)
                           /\ at' # "stopped" => u.chain = s.chain
  <2>1. \A x \in Undisturbed' : m.memory[x] = s.memory[x]
    BY <1>5 DEF Undisturbed
  <2>2. Good(m, Undisturbed', program)
    BY <1>5, <1>9, <2>1, GoodLess
  <2>3. InOrder(m, stopped(m), Undisturbed', program)
    BY <1>9, <2>2, StoppedInOrder
  <2>4. /\ stopped(m) \in States /\ Good(stopped(m), Undisturbed', program)
        /\ Len(stopped(m).chain) = Len(s.chain)
    BY <1>5, <2>3 DEF InOrder
  <2> QED
    BY <1>5, <2>2, <2>4
<1>11. TypeOK' /\ Good(State', Undisturbed', program')
  <2>1. /\ chain' = u.chain /\ memory' = u.memory
        /\ u.chain \in Seq(Location) /\ u.memory \in [Addr -> Contents]
    BY <1>10 DEF Becomes, States
  <2>2. TypeOK'
    BY <1>1, <1>3, <1>6, <1>8, <1>10, <2>1 DEF TypeOK
  <2>3. State'.chain = u.chain /\ State'.memory = u.memory
    BY <2>1 DEF State
  <2>4. Undisturbed' \in SUBSET Undisturbed'
    OBVIOUS
  <2> QED
    BY <1>6, <1>10, <2>2, <2>3, <2>4, GoodLess
<1>12. SlotsInv'
  <2>1. ASSUME NEW k \in 1..2, slots'[k] # None,
               slots'[k].address \notin disturbed'
        PROVE  slots'[k].shadow = program[slots'[k].address]
    <3>1. CASE slots[k] # None
      BY <1>1, <1>4, <1>8, <2>1, <3>1 DEF SlotsInv
    <3>2. CASE slots[k] = None
      <4> DEFINE x == slots'[k].address
      <4>1. slots'[k].shadow = Reads(s, x)
        BY <1>4, <2>1, <3>2
      <4>2. x \in Addr
        BY <1>7, <2>1 DEF Occupied
      <4>3. x \in Undisturbed
        BY <1>7, <1>8, <2>1, <4>2 DEF Undisturbed
      <4> HIDE DEF x
      <4>4. Shadows(s.chain, Undisturbed, program)
            /\ InMemory(s, Undisturbed, program)
        BY DEF Good
      <4>5. Reads(s, x) = program[x]
        BY <4>2, <4>3, <4>4, ReadsRight
      <4> QED
        BY <4>1, <4>5 DEF x
    <3> QED
      BY <3>1, <3>2
  <2> QED
    BY <1>3, <1>6, <1>8, <2>1 DEF SlotsInv
<1>13. RunInv'
  BY <1>10 DEF RunInv, Becomes
<1> QED
  BY <1>11, <1>12, <1>13 DEF IInv

(* Over a breakpoint, with none in memory.                                 *)
LEMMA ProceedOverKeeps ==
    ASSUME IInv, ProceedOver \/ KeepGoingOver
    PROVE  IInv'
<1> DEFINE s == remove_breakpoints(State)
<1>1. TypeOK /\ Good(State, Undisturbed, program)
  BY DEF IInv
<1>2. State \in States /\ State.chain = chain /\ Undisturbed \subseteq Addr
  BY <1>1, AddressesTyped
<1>3. InOrder(State, s, Undisturbed, program)
  BY <1>1, <1>2, RemoveAll
<1>4. /\ at # "running" /\ resume(s) /\ over' = (at' = "running")
      /\ UNCHANGED <<always, program>> /\ Disturb({})
  BY DEF ProceedOver, KeepGoingOver
<1> HIDE DEF s
<1>5. s \in States /\ Good(s, Undisturbed, program)
      /\ Len(s.chain) <= MaxBreakpoints
  BY <1>1, <1>2, <1>3 DEF InOrder, TypeOK
<1>6. over' \in BOOLEAN /\ ~(at' = "running" /\ ~over')
  BY <1>4
<1> QED
  BY <1>4, <1>5, <1>6, ResumeKeeps

(* The step goes on after a signal.                                        *)
LEMMA KeepSteppingKeeps ==
    ASSUME IInv, KeepStepping
    PROVE  IInv'
<1>1. TypeOK /\ Good(State, Undisturbed, program)
  BY DEF IInv
<1>2. State \in States /\ State.chain = chain
  BY <1>1, AddressesTyped
<1>3. /\ at # "running" /\ resume(State) /\ over' = (at' = "running")
      /\ UNCHANGED <<always, program>> /\ Disturb({})
  BY DEF KeepStepping
<1>4. Len(State.chain) <= MaxBreakpoints
  BY <1>1, <1>2 DEF TypeOK
<1>5. over' \in BOOLEAN /\ ~(at' = "running" /\ ~over')
  BY <1>3
<1> QED
  BY <1>1, <1>2, <1>3, <1>4, <1>5, ResumeKeeps

(* The process stays stopped, or stops; memory is the list's.              *)
LEMMA StopKeeps ==
    ASSUME IInv, at # "running",
           NEW s \in States, Good(s, Undisturbed, program),
           Len(s.chain) <= MaxBreakpoints,
           chain' = s.chain, memory' = s.memory,
           at' \in {"none", "stopped"}, over' \in BOOLEAN,
           UNCHANGED <<slots, stepping, always, program>>, Disturb({})
    PROVE  IInv'
<1>1. TypeOK /\ SlotsInv
  BY DEF IInv
<1>2. s.chain \in Seq(Location) /\ s.memory \in [Addr -> Contents]
  BY DEF States
<1>3. Occupied' = Occupied /\ Occupied \subseteq Addr
  BY <1>1, AddressesTyped DEF Occupied
<1>4. /\ Disturbances' \subseteq disturbed' /\ disturbed \subseteq disturbed'
      /\ disturbed' \subseteq Addr
  <2>1. Disturbances' \subseteq Occupied'
    BY DEF Disturbances
  <2> QED
    BY <1>1, <1>3, <2>1 DEF Disturb, TypeOK
<1>5. TypeOK'
  BY <1>1, <1>2, <1>4 DEF TypeOK
<1>6. Undisturbed' \in SUBSET Undisturbed
  BY <1>3, <1>4 DEF Undisturbed
<1>7. State'.chain = s.chain /\ State'.memory = s.memory
  BY DEF State
<1>8. Good(State', Undisturbed', program')
  BY <1>6, <1>7, GoodLess
<1>9. SlotsInv'
  BY <1>1, <1>4 DEF SlotsInv
<1>10. RunInv'
  BY DEF RunInv
<1> QED
  BY <1>5, <1>8, <1>9, <1>10 DEF IInv

(* With all breakpoints in memory, or not at all.                          *)
LEMMA ProceedKeeps ==
    ASSUME IInv, Proceed
    PROVE  IInv'
<1> DEFINE s == insert_breakpoints(State)
<1>1. TypeOK /\ Good(State, Undisturbed, program)
  BY DEF IInv
<1>2. State \in States /\ State.chain = chain /\ Undisturbed \subseteq Addr
  BY <1>1, AddressesTyped
<1>3. /\ at = "stopped" /\ over' = FALSE
      /\ UNCHANGED <<always, program>> /\ Disturb({})
      /\ IF s.error THEN Becomes(s) /\ UNCHANGED <<at, slots, stepping>>
         ELSE resume(s)
  BY DEF Proceed
<1>4. InOrder(State, s, Undisturbed, program)
      /\ (~s.error => AllThere(s.chain))
  BY <1>1, <1>2, <1>3, InsertBreakpoints
<1> HIDE DEF s
<1>5. s \in States /\ Good(s, Undisturbed, program)
      /\ Len(s.chain) <= MaxBreakpoints
  BY <1>1, <1>2, <1>4 DEF InOrder, TypeOK
<1>6. at # "running" /\ over' \in BOOLEAN
  BY <1>3
<1>7. CASE s.error
  <2>1. /\ chain' = s.chain /\ memory' = s.memory
        /\ at' \in {"none", "stopped"}
        /\ UNCHANGED <<slots, stepping, always, program>> /\ Disturb({})
    BY <1>3, <1>7 DEF Becomes
  <2> QED
    BY <1>5, <1>6, <2>1, StopKeeps
<1>8. CASE ~s.error
  <2>1. resume(s) /\ AllThere(s.chain)
    BY <1>3, <1>4, <1>8
  <2> QED
    BY <1>3, <1>5, <1>6, <2>1, ResumeKeeps
<1> QED
  BY <1>7, <1>8

(* After an event with all breakpoints in memory; else the process stops.  *)
LEMMA KeepGoingKeeps ==
    ASSUME IInv, KeepGoing
    PROVE  IInv'
<1> DEFINE s == insert_breakpoints(State)
<1>1. TypeOK /\ Good(State, Undisturbed, program)
  BY DEF IInv
<1>2. State \in States /\ State.chain = chain /\ Undisturbed \subseteq Addr
  BY <1>1, AddressesTyped
<1>3. /\ at = "event" /\ over' = FALSE
      /\ UNCHANGED <<always, program>> /\ Disturb({})
      /\ IF s.error
         THEN /\ Becomes(stopped(s)) /\ at' = "stopped"
              /\ UNCHANGED <<slots, stepping>>
         ELSE resume(s)
  BY DEF KeepGoing
<1>4. InOrder(State, s, Undisturbed, program)
      /\ (~s.error => AllThere(s.chain))
  BY <1>1, <1>2, <1>3, InsertBreakpoints
<1> HIDE DEF s
<1>5. s \in States /\ Good(s, Undisturbed, program)
      /\ Len(s.chain) <= MaxBreakpoints
  BY <1>1, <1>2, <1>4 DEF InOrder, TypeOK
<1>6. at # "running" /\ over' \in BOOLEAN
  BY <1>3
<1>7. CASE s.error
  <2> DEFINE t == stopped(s)
  <2>1. InOrder(s, t, Undisturbed, program)
    BY <1>2, <1>5, StoppedInOrder
  <2>2. /\ chain' = t.chain /\ memory' = t.memory
        /\ at' \in {"none", "stopped"}
        /\ UNCHANGED <<slots, stepping, always, program>> /\ Disturb({})
    BY <1>3, <1>7 DEF Becomes
  <2> HIDE DEF t
  <2>3. t \in States /\ Good(t, Undisturbed, program)
        /\ Len(t.chain) <= MaxBreakpoints
    BY <1>5, <2>1 DEF InOrder
  <2> QED
    BY <1>6, <2>2, <2>3, StopKeeps
<1>8. CASE ~s.error
  <2>1. resume(s) /\ AllThere(s.chain)
    BY <1>3, <1>4, <1>8
  <2> QED
    BY <1>3, <1>5, <1>6, <2>1, ResumeKeeps
<1> QED
  BY <1>7, <1>8

(* The process has stopped.                                                *)
LEMMA NormalStopKeeps ==
    ASSUME IInv, normal_stop
    PROVE  IInv'
<1> DEFINE t == stopped(State)
<1>1. TypeOK /\ Good(State, Undisturbed, program)
  BY DEF IInv
<1>2. State \in States /\ State.chain = chain /\ Undisturbed \subseteq Addr
  BY <1>1, AddressesTyped
<1>3. InOrder(State, t, Undisturbed, program)
  BY <1>1, <1>2, StoppedInOrder
<1>4. /\ chain' = t.chain /\ memory' = t.memory
      /\ at' \in {"none", "stopped"} /\ at # "running" /\ over' \in BOOLEAN
      /\ UNCHANGED <<slots, stepping, always, program>> /\ Disturb({})
  BY DEF normal_stop, Becomes
<1> HIDE DEF t
<1>5. t \in States /\ Good(t, Undisturbed, program)
      /\ Len(t.chain) <= MaxBreakpoints
  BY <1>1, <1>2, <1>3 DEF InOrder, TypeOK
<1> QED
  BY <1>4, <1>5, StopKeeps

(* The process is left alone: first what is in memory is taken out.        *)
LEMMA DetachKeeps ==
    ASSUME IInv, target_detach
    PROVE  IInv'
<1> DEFINE s == remove_breakpoints(State)
           t == [chain |-> MarkedOut(s.chain), memory |-> s.memory,
                 error |-> FALSE]
<1>1. TypeOK /\ Good(State, Undisturbed, program)
  BY DEF IInv
<1>2. State \in States /\ State.chain = chain /\ Undisturbed \subseteq Addr
  BY <1>1, AddressesTyped
<1>3. /\ InOrder(State, s, Undisturbed, program)
      /\ \A a : ~Holds(s.chain, a)
  BY <1>1, <1>2, RemoveAll
<1>4. /\ at = "stopped" /\ at' = "none"
      /\ chain' = t.chain /\ memory' = t.memory
      /\ UNCHANGED <<slots, stepping, over, always, program>> /\ Disturb({})
  BY DEF target_detach
<1> HIDE DEF s
<1>5. /\ s.chain \in Seq(Location) /\ s.memory \in [Addr -> Contents]
      /\ DupRight(s.chain) /\ Len(s.chain) <= MaxBreakpoints
      /\ \A a \in Undisturbed : s.memory[a] = program[a]
  <2>1. InMemory(s, Undisturbed, program)
    BY <1>3 DEF InOrder, Good
  <2> QED
    BY <1>1, <1>2, <1>3, <2>1 DEF InOrder, TypeOK, States, Good, InMemory
<1>6. t.chain = MarkedOut(s.chain) /\ t.memory = s.memory
  OBVIOUS
<1>7. /\ t.chain \in Seq(Location) /\ Len(t.chain) = Len(s.chain)
      /\ Good(t, Undisturbed, program)
  <2> HIDE DEF t
  <2> QED
    BY <1>5, <1>6, MarkedOutKeeps
<1>8. t \in States /\ Len(t.chain) <= MaxBreakpoints
  BY <1>5, <1>7 DEF States
<1>9. over' \in BOOLEAN /\ at' \in {"none", "stopped"} /\ at # "running"
      /\ UNCHANGED <<slots, stepping, always, program>> /\ Disturb({})
  BY <1>1, <1>4 DEF TypeOK
<1> HIDE DEF t
<1> QED
  BY <1>4, <1>7, <1>8, <1>9, StopKeeps

(* Pulling the breakpoint of one slot.                                     *)
LEMMA SlotPulled ==
    ASSUME NEW m \in [Addr -> Contents], NEW raw \in Raw
    PROVE  /\ remove_single_step_breakpoint(m, raw) \in [Addr -> Contents]
           /\ \A x \in Addr :
                 remove_single_step_breakpoint(m, raw)[x] =
                    IF raw # None /\ raw.address = x THEN raw.shadow ELSE m[x]
<1>1. CASE raw = None
  BY <1>1 DEF remove_single_step_breakpoint
<1>2. CASE raw # None
  <2>1. raw.address \in Addr /\ raw.shadow \in Contents
    BY <1>2 DEF Raw
  <2>2. remove_single_step_breakpoint(m, raw) =
           [m EXCEPT ![raw.address] = raw.shadow]
    BY <1>2 DEF remove_single_step_breakpoint
  <2> QED
    BY <1>2, <2>1, <2>2
<1> QED
  BY <1>1, <1>2

(* What the slots hold at an address nobody else wrote to is the program.  *)
LEMMA EventKeeps ==
    ASSUME IInv, Event
    PROVE  IInv'
<1>1. /\ TypeOK /\ SlotsInv /\ Good(State, Undisturbed, program)
  BY DEF IInv
<1>2. /\ State.chain = chain /\ State.memory = memory
      /\ Occupied \subseteq Addr /\ Disturbances \subseteq Addr
      /\ \A a : a \in Armed <=> Holds(chain, a)
  BY <1>1, AddressesTyped
<1>3. /\ at' \in {"internal error", "event"} /\ ~stepping' /\ stepping' = FALSE
      /\ chain' = chain /\ over' = over /\ always' = always
      /\ program' = program /\ disturbed' = disturbed \union Disturbances'
  BY DEF Event, Disturb
<1>4. /\ memory' \in [Addr -> Contents] /\ slots' \in [1..2 -> Raw]
      /\ Occupied' \subseteq Occupied
      /\ \A k \in 1..2 : slots'[k] = None \/ (slots'[k] = slots[k] /\ ~stepping)
      /\ \A x \in Addr : x \notin disturbed =>
            \/ x \in Occupied /\ stepping /\ memory'[x] = program[x]
            \/ memory'[x] = memory[x] /\ (x \notin Occupied \/ x \in Occupied')
  <2>1. CASE ~stepping
    <3>1. memory' = memory /\ slots' = slots
      BY <2>1 DEF Event
    <3>2. Occupied' = Occupied
      BY <3>1 DEF Occupied
    <3> QED
      BY <1>1, <2>1, <3>1, <3>2 DEF TypeOK
  <2>2. CASE stepping
    <3> DEFINE p == remove_single_step_breakpoint(memory, slots[1])
               q == remove_single_step_breakpoint(p, slots[2])
    <3>1. memory' = q /\ slots' = <<None, None>>
      BY <2>2 DEF Event
    <3>2. memory \in [Addr -> Contents] /\ slots[1] \in Raw /\ slots[2] \in Raw
      <4>1. 1 \in 1..2 /\ 2 \in 1..2
        OBVIOUS
      <4>2. slots \in [1..2 -> Raw] /\ memory \in [Addr -> Contents]
        BY <1>1 DEF TypeOK
      <4> HIDE DEF p, q
      <4> QED
        BY <4>1, <4>2
    <3>3. /\ p \in [Addr -> Contents]
          /\ \A x \in Addr : p[x] = IF slots[1] # None /\ slots[1].address = x
                                    THEN slots[1].shadow ELSE memory[x]
      BY <3>2, SlotPulled
    <3> HIDE DEF p
    <3>4. /\ q \in [Addr -> Contents]
          /\ \A x \in Addr : q[x] = IF slots[2] # None /\ slots[2].address = x
                                    THEN slots[2].shadow ELSE p[x]
      BY <3>2, <3>3, SlotPulled
    <3> HIDE DEF q
    <3>5. /\ slots' \in [1..2 -> Raw] /\ \A k \in 1..2 : slots'[k] = None
      BY <3>1 DEF Raw
    <3>6. Occupied' = {}
      BY <3>5 DEF Occupied
    <3>7. ASSUME NEW x \in Addr, x \notin disturbed
          PROVE  \/ x \in Occupied /\ memory'[x] = program[x]
                 \/ memory'[x] = memory[x] /\ x \notin Occupied
      <4>1. /\ slots[1] # None /\ slots[1].address = x
                  => slots[1].shadow = program[x] /\ x \in Occupied
            /\ slots[2] # None /\ slots[2].address = x
                  => slots[2].shadow = program[x] /\ x \in Occupied
        BY <1>1, <3>7 DEF SlotsInv, Occupied
      <4>2. x \in Occupied => \/ slots[1] # None /\ slots[1].address = x
                              \/ slots[2] # None /\ slots[2].address = x
        BY DEF Occupied
      <4> QED
        BY <3>1, <3>3, <3>4, <4>1, <4>2
    <3> QED
      BY <2>2, <3>1, <3>4, <3>5, <3>6, <3>7
  <2> QED
    BY <1>1, <2>1, <2>2 DEF TypeOK
<1>5. Disturbances' \subseteq Occupied' /\ Occupied' \subseteq Addr
  BY <1>2, <1>4 DEF Disturbances
<1>6. Disturbances' \subseteq disturbed' /\ disturbed \subseteq disturbed'
      /\ disturbed' \subseteq Addr
  BY <1>1, <1>3, <1>5 DEF TypeOK
<1>7. TypeOK'
  BY <1>1, <1>3, <1>4, <1>6 DEF TypeOK
<1>8. ASSUME NEW x \in Undisturbed'
      PROVE  /\ x \in Addr /\ x \notin disturbed
             /\ \/ x \in Undisturbed /\ memory'[x] = memory[x]
                \/ memory'[x] = program[x] /\ ~Holds(chain, x)
  <2>1. x \in Addr /\ x \notin disturbed /\ x \notin Occupied'
    BY <1>6 DEF Undisturbed
  <2>2. CASE x \notin Occupied
    BY <1>4, <2>1, <2>2 DEF Undisturbed
  <2>3. CASE x \in Occupied
    <3>1. stepping /\ memory'[x] = program[x]
      BY <1>4, <2>1, <2>3
    <3>2. x \notin Armed
      BY <1>1, <2>1, <2>3, <3>1 DEF SlotsInv, Disturbances
    <3> QED
      BY <1>2, <2>1, <3>1, <3>2
  <2> QED
    BY <2>2, <2>3
<1>9. Good(State', Undisturbed', program')
  <2>1. State'.chain = chain /\ State'.memory = memory'
    BY <1>3 DEF State
  <2>2. DupRight(chain) /\ Covered(chain)
        /\ Shadows(chain, Undisturbed, program)
        /\ \A a \in Undisturbed :
              memory[a] = IF Holds(chain, a) THEN Trap ELSE program[a]
    BY <1>1, <1>2 DEF Good, InMemory
  <2>3. \A a \in Undisturbed' :
           memory'[a] = IF Holds(chain, a) THEN Trap ELSE program[a]
    BY <1>8, <2>2
  <2>4. Shadows(chain, Undisturbed', program)
    <3>1. ASSUME NEW k \in DOMAIN chain, chain[k].inserted,
                 chain[k].address \in Undisturbed'
          PROVE  chain[k].shadow = program[chain[k].address]
      <4>1. Holds(chain, chain[k].address)
        BY <3>1 DEF Holds
      <4>2. chain[k].address \in Undisturbed
        BY <1>8, <3>1, <4>1
      <4> QED
        BY <2>2, <3>1, <4>2 DEF Shadows
    <3> QED
      BY <3>1 DEF Shadows
  <2> QED
    BY <1>3, <2>1, <2>2, <2>3, <2>4 DEF Good, InMemory
<1>10. SlotsInv'
  <2>1. ASSUME NEW k \in 1..2, slots'[k] # None,
               slots'[k].address \notin disturbed'
        PROVE  slots'[k].shadow = program'[slots'[k].address]
    BY <1>1, <1>3, <1>4, <1>6, <2>1 DEF SlotsInv
  <2> QED
    BY <1>3, <1>6, <2>1 DEF SlotsInv
<1>11. RunInv'
  BY <1>3 DEF RunInv
<1> QED
  BY <1>7, <1>9, <1>10, <1>11 DEF IInv

(* A process that ends, and one that is started.                           *)
LEMMA FreshKeeps ==
    ASSUME IInv, Exit \/ Run
    PROVE  IInv'
<1>1. /\ TypeOK /\ SlotsInv /\ Good(State, Undisturbed, program)
  BY DEF IInv
<1>2. State.chain = chain /\ Occupied \subseteq Addr
      /\ chain \in Seq(Location) /\ DupRight(chain)
  BY <1>1, AddressesTyped DEF Good, TypeOK
<1>3. /\ chain' = MarkedOut(chain) /\ memory' = Fresh /\ program' = Fresh
      /\ at' \in {"none", "stopped"} /\ stepping' = FALSE /\ over' \in BOOLEAN
      /\ always' = always /\ slots' = slots /\ disturbed' = Disturbances'
  <2>1. Run => stepping = FALSE
    BY <1>1 DEF Run, SlotsInv, TypeOK
  <2> QED
    BY <1>1, <2>1 DEF Exit, Run, TypeOK
<1>4. Occupied' = Occupied
  BY <1>3 DEF Occupied
<1>5. disturbed' = Occupied
  BY <1>2, <1>3, <1>4 DEF Disturbances
<1>6. Fresh \in [Addr -> Code] /\ Fresh \in [Addr -> Contents]
  BY DEF Fresh, Code, Contents
<1>7. /\ State'.chain = MarkedOut(chain) /\ State'.memory = Fresh
  BY <1>3 DEF State
<1>8. /\ State'.chain \in Seq(Location) /\ Len(State'.chain) = Len(chain)
      /\ Good(State', Undisturbed', Fresh)
  <2>1. PICK t, U : t = State' /\ U = Undisturbed'
    OBVIOUS
  <2>2. t.chain = MarkedOut(chain) /\ \A a \in U : t.memory[a] = Fresh[a]
    BY <1>7, <2>1
  <2>3. /\ t.chain \in Seq(Location) /\ Len(t.chain) = Len(chain)
        /\ Good(t, U, Fresh)
    BY <1>2, <2>2, MarkedOutKeeps
  <2> QED
    BY <2>1, <2>3
<1>9. chain' = State'.chain
  BY <1>3, <1>7
<1>10. TypeOK'
  <2>1. chain' \in Seq(Location) /\ Len(chain') <= MaxBreakpoints
    BY <1>1, <1>8, <1>9 DEF TypeOK
  <2> QED
    BY <1>1, <1>2, <1>3, <1>5, <1>6, <2>1 DEF TypeOK
<1>11. SlotsInv'
  <2>1. \A k \in 1..2 : slots[k] # None => slots[k].address \in Occupied
    BY DEF Occupied
  <2> QED
    BY <1>3, <1>5, <2>1 DEF SlotsInv
<1>12. RunInv'
  BY <1>3 DEF RunInv
<1>13. Good(State', Undisturbed', program')
  BY <1>3, <1>8
<1> QED
  BY <1>10, <1>11, <1>12, <1>13 DEF IInv

(* The process starts without breakpoints.                                 *)
LEMMA InitHolds == Init => IInv
<1> SUFFICES ASSUME Init PROVE IInv
  OBVIOUS
<1>1. chain = <<>> /\ chain \in Seq(Location) /\ Len(chain) = 0
      /\ DOMAIN chain = {}
  BY DEF Init
<1>2. /\ memory \in [Addr -> Contents] /\ program \in [Addr -> Code]
      /\ memory = program
  BY DEF Init, Contents, Code
<1>3. slots \in [1..2 -> Raw] /\ \A k \in 1..2 : slots[k] = None
  BY DEF Init, Raw
<1>4. at = "none" /\ stepping = FALSE /\ over = FALSE /\ always = FALSE
      /\ disturbed = {}
  BY DEF Init
<1>5. TypeOK
  <2>1. Len(chain) <= MaxBreakpoints
    BY <1>1, BreakpointsAssumption
  <2> QED
    BY <1>1, <1>2, <1>3, <1>4, <2>1 DEF TypeOK
<1>6. Good(State, Undisturbed, program)
  <2>1. State.chain = chain /\ State.memory = memory
    BY DEF State
  <2>2. ~\E i \in DOMAIN chain : TRUE
    BY <1>1
  <2>3. DupRight(chain) /\ Covered(chain)
        /\ Shadows(chain, Undisturbed, program)
    BY <2>2 DEF DupRight, Covered, Shadows
  <2>4. InMemory(State, Undisturbed, program)
    BY <1>2, <2>1, <2>2 DEF InMemory, Holds
  <2> QED
    BY <2>1, <2>3, <2>4 DEF Good
<1>7. Occupied = {}
  BY <1>3 DEF Occupied
<1>8. SlotsInv
  BY <1>3, <1>4, <1>7 DEF SlotsInv, Disturbances
<1>9. RunInv
  BY <1>4 DEF RunInv
<1> QED
  BY <1>5, <1>6, <1>8, <1>9 DEF IInv

(* Nothing changes.                                                        *)
LEMMA StutterKeeps == IInv /\ UNCHANGED vars => IInv'
<1> SUFFICES ASSUME IInv, UNCHANGED vars PROVE IInv'
  OBVIOUS
<1>1. /\ at' = at /\ chain' = chain /\ memory' = memory /\ slots' = slots
      /\ stepping' = stepping /\ over' = over /\ always' = always
      /\ program' = program /\ disturbed' = disturbed
  BY DEF vars
<1>2. TypeOK'
  BY <1>1 DEF IInv, TypeOK
<1>3. Occupied' = Occupied /\ Armed' = Armed
  BY <1>1 DEF Occupied, Armed
<1>4. State' = State /\ Undisturbed' = Undisturbed
      /\ Disturbances' = Disturbances
  BY <1>1, <1>3 DEF State, Undisturbed, Disturbances
<1>5. Good(State', Undisturbed', program')
  BY <1>1, <1>4 DEF IInv
<1>6. SlotsInv' /\ RunInv'
  BY <1>1, <1>4 DEF IInv, SlotsInv, RunInv
<1> QED
  BY <1>2, <1>5, <1>6 DEF IInv

(* What every step keeps.                                                  *)
THEOREM Inductive == Spec => []IInv
<1>1. ASSUME IInv, Next PROVE IInv'
  <2>1. ASSUME NEW a \in Addr, Break(a) PROVE IInv'
    BY <1>1, <2>1, BreakKeeps
  <2>2. ASSUME NEW a \in Addr, NEW code \in Code, Write(a, code) PROVE IInv'
    BY <1>1, <2>2, WriteKeeps
  <2>3. ASSUME NEW i \in DOMAIN chain, delete_breakpoint(i) PROVE IInv'
    BY <1>1, <2>3, DeleteKeeps
  <2>4. ASSUME NEW i \in DOMAIN chain, disable_breakpoint(i) PROVE IInv'
    BY <1>1, <2>4, EnableKeeps
  <2>5. ASSUME NEW i \in DOMAIN chain, do_enable_breakpoint(i) PROVE IInv'
    BY <1>1, <2>5, EnableKeeps
  <2>6. CASE SetAlwaysInserted
    BY <1>1, <2>6, SetAlwaysKeeps
  <2>7. CASE ProceedOver \/ KeepGoingOver
    BY <1>1, <2>7, ProceedOverKeeps
  <2>8. CASE Proceed
    BY <1>1, <2>8, ProceedKeeps
  <2>9. CASE Event
    BY <1>1, <2>9, EventKeeps
  <2>10. CASE KeepStepping
    BY <1>1, <2>10, KeepSteppingKeeps
  <2>11. CASE KeepGoing
    BY <1>1, <2>11, KeepGoingKeeps
  <2>12. CASE normal_stop
    BY <1>1, <2>12, NormalStopKeeps
  <2>13. CASE Exit \/ Run
    BY <1>1, <2>13, FreshKeeps
  <2>14. CASE target_detach
    BY <1>1, <2>14, DetachKeeps
  <2> QED
    BY <1>1, <2>1, <2>2, <2>3, <2>4, <2>5, <2>6, <2>7, <2>8, <2>9, <2>10,
       <2>11, <2>12, <2>13, <2>14 DEF Next
<1>2. IInv /\ [Next]_vars => IInv'
  BY <1>1, StutterKeeps
<1> QED
  BY InitHolds, <1>2, PTL DEF Spec

-----------------------------------------------------------------------------
(* Every variable has its type: the list of breakpoints stays within its   *)
(* bound, shadows hold what memory can hold, and nothing is stored past    *)
(* the two slots of single stepping.  A step that finds no slot free fails *)
(* the assertion of insert_single_step_breakpoint instead, at "internal    *)
(* error", which is a state of this type and can be reached.               *)
THEOREM BreakpointTypes == Spec => []TypeOK
<1>1. IInv => TypeOK
  BY DEF IInv
<1> QED
  BY Inductive, <1>1, PTL

(* What gdb reads is the program, wherever breakpoints are inserted: the   *)
(* shadows that memory_xfer_partial puts over them are never out of date,  *)
(* whatever was handed over from one location to another.                  *)
THEOREM ReadsShowProgram == Spec => []ReadsHideTraps
<1>1. IInv => ReadsHideTraps
  <2> SUFFICES ASSUME IInv, NEW a \in Undisturbed
               PROVE  Reads(State, a) = program[a]
    BY DEF ReadsHideTraps
  <2>1. TypeOK /\ Good(State, Undisturbed, program)
    BY DEF IInv
  <2>2. State \in States /\ a \in Addr
    BY <2>1, AddressesTyped
  <2>3. Shadows(State.chain, Undisturbed, program)
        /\ InMemory(State, Undisturbed, program)
    BY <2>1 DEF Good
  <2> QED
    BY <2>2, <2>3, ReadsRight
<1> QED
  BY Inductive, <1>1, PTL

(* What remove_breakpoint writes back is the program: where no breakpoint  *)
(* is inserted no trap is left behind.                                     *)
THEOREM MemoryGivenBack == Spec => []MemoryRestored
<1>1. IInv => MemoryRestored
  <2> SUFFICES ASSUME IInv, NEW a \in Undisturbed \ Armed
               PROVE  memory[a] = program[a]
    BY DEF MemoryRestored
  <2>1. TypeOK /\ Good(State, Undisturbed, program)
    BY DEF IInv
  <2>2. ~Holds(chain, a) /\ State.chain = chain /\ State.memory = memory
    BY <2>1, AddressesTyped
  <2>3. InMemory(State, Undisturbed, program)
    BY <2>1 DEF Good
  <2> QED
    BY <2>2, <2>3 DEF InMemory
<1> QED
  BY Inductive, <1>1, PTL

(* In a process that runs, unless it steps over a breakpoint, there is a   *)
(* trap for every enabled breakpoint and for nothing else, whatever was    *)
(* added, deleted, enabled, disabled or made a duplicate before.           *)
THEOREM TrapsRight == Spec => []TrapsAreBreakpoints
<1>1. IInv => TrapsAreBreakpoints
  <2> SUFFICES ASSUME IInv, at = "running", ~over, NEW a \in Undisturbed
               PROVE  memory[a] = Trap <=> Wants(chain, a)
    BY DEF TrapsAreBreakpoints, Wants
  <2>1. TypeOK /\ Good(State, Undisturbed, program) /\ AllThere(chain)
    BY DEF IInv, RunInv
  <2>2. /\ State.chain = chain /\ State.memory = memory /\ a \in Addr
    BY <2>1, AddressesTyped
  <2>3. InMemory(State, Undisturbed, program) /\ Covered(chain)
    BY <2>1, <2>2 DEF Good
  <2>4. program[a] # Trap
    BY <2>1, <2>2 DEF TypeOK, Code, Old, New, Trap
  <2>5. memory[a] = Trap <=> Holds(chain, a)
    BY <2>2, <2>3, <2>4 DEF InMemory
  <2>6. Wants(chain, a) => Holds(chain, a)
    BY <2>1 DEF AllThere, Wants
  <2>7. ASSUME Holds(chain, a) PROVE Wants(chain, a)
    <3>1. PICK k \in DOMAIN chain : chain[k].inserted /\ chain[k].address = a
      BY <2>7 DEF Holds
    <3>2. CASE chain[k].enabled
      BY <3>1, <3>2 DEF Wants
    <3>3. CASE ~chain[k].enabled
      BY <2>3, <3>1, <3>3 DEF Covered, Covers, should_be_inserted, Wants
    <3> QED
      BY <3>2, <3>3
  <2> QED
    BY <2>5, <2>6, <2>7
<1> QED
  BY Inductive, <1>1, PTL
=============================================================================
