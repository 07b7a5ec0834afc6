---------------------------- MODULE Breakpoints ----------------------------
(***************************************************************************)
(* Software breakpoints in the memory of the debugged process: the list of *)
(* breakpoints and what puts them into memory and takes them out again     *)
(* (gdb/breakpoint.c, gdb/mem-break.c), reads of memory that hide them     *)
(* (gdb/target.c), the breakpoints of software single stepping, and the    *)
(* order in which gdb/infrun.c calls all of these.                         *)
(*                                                                         *)
(* A breakpoint has one location; none is permanent, and none of them is   *)
(* a watchpoint, a catchpoint or a hardware breakpoint.  Where a           *)
(* breakpoint could be written into memory it can be removed again.        *)
(***************************************************************************)
EXTENDS Naturals, Sequences, SequencesExt, FiniteSets

CONSTANTS Addr,           \* addresses of instructions
          Unwritable,     \* those gdb cannot write
          MaxBreakpoints  \* the longest list of breakpoints

ASSUME BreakpointsAssumption == /\ Unwritable \subseteq Addr
                                /\ MaxBreakpoints \in Nat

Old  == "old"     \* the instruction the process starts with
New  == "new"     \* what the user may write instead
Trap == "trap"    \* the breakpoint instruction
Code == {Old, New}
Contents == Code \union {Trap}

None == [address |-> "none", shadow |-> "none"]

VARIABLES
    at,         \* none, stopped, running, event: handle_inferior_event
    chain,      \* breakpoint_chain, each breakpoint with its location
    memory,     \* of the process
    slots,      \* single_step_breakpoints
    stepping,   \* singlestep_breakpoints_inserted_p
    over,       \* stepping_over_breakpoint
    always,     \* always_inserted_mode
    program,    \* history: what the memory would be without breakpoints
    disturbed   \* history: addresses where two writers met

vars == <<at, chain, memory, slots, stepping, over, always, program,
          disturbed>>

Location == [address : Addr, enabled : BOOLEAN, inserted : BOOLEAN,
             duplicate : BOOLEAN, shadow : Contents]
Raw == [address : Addr, shadow : Contents] \union {None}

TypeOK ==
    /\ at \in {"none", "stopped", "running", "event", "internal error"}
    /\ chain \in Seq(Location) /\ Len(chain) <= MaxBreakpoints
    /\ memory \in [Addr -> Contents]
    /\ slots \in [1..2 -> Raw]
    /\ stepping \in BOOLEAN /\ over \in BOOLEAN /\ always \in BOOLEAN
    /\ program \in [Addr -> Code]
    /\ disturbed \subseteq Addr

Init == /\ at = "none"
        /\ chain = <<>>
        /\ memory = [a \in Addr |-> Old] /\ program = memory
        /\ slots = <<None, None>> /\ stepping = FALSE
        /\ over = FALSE /\ always = FALSE
        /\ disturbed = {}

-----------------------------------------------------------------------------
(* The operations work on a state [chain, memory, error].                  *)
State == [chain |-> chain, memory |-> memory, error |-> FALSE]

(* memory_xfer_partial and breakpoint_restore_shadows: the last location   *)
(* of the list that is inserted at the address has the last word.          *)
Reads(s, a) ==
    LET here == {i \in DOMAIN s.chain :
                    s.chain[i].inserted /\ s.chain[i].address = a}
    IN  IF here = {} THEN s.memory[a]
        ELSE s.chain[CHOOSE i \in here : \A j \in here : j <= i].shadow

should_be_inserted(loc) == loc.enabled /\ ~loc.duplicate

(* What a location is while it is in memory, and while it is not: its      *)
(* shadow contents are valid only then.                                    *)
Put(loc, shadow) == [loc EXCEPT !.inserted = TRUE, !.shadow = shadow]
Out(loc) == [loc EXCEPT !.inserted = FALSE, !.shadow = Old]

(* The list c with loc at its i-th place.                                  *)
With(c, i, loc) == [k \in DOMAIN c |-> IF k = i THEN loc ELSE c[k]]

(* insert_bp_location, default_memory_insert_breakpoint *)
insert_bp_location(s, i) ==
    LET loc == s.chain[i] IN
    IF ~should_be_inserted(loc) \/ loc.inserted THEN s
    ELSE IF loc.address \in Unwritable THEN [s EXCEPT !.error = TRUE]
    ELSE [s EXCEPT !.chain = With(@, i, Put(loc, Reads(s, loc.address))),
                   !.memory[loc.address] = Trap]

insert_breakpoint_locations(s) ==
    LET upTo[k \in 0..Len(s.chain)] ==
            IF k = 0 THEN s ELSE insert_bp_location(upTo[k-1], k)
    IN upTo[Len(s.chain)]

(* breakpoint_init_inferior *)
MarkedOut(c) == [i \in DOMAIN c |-> Out(c[i])]

(* remove_breakpoint, default_memory_remove_breakpoint *)
remove_breakpoint(s, i) ==
    LET loc == s.chain[i] IN
    IF ~loc.inserted THEN s
    ELSE [s EXCEPT !.chain = With(@, i, Out(loc)),
                   !.memory[loc.address] = loc.shadow]

remove_breakpoints(s) ==
    LET upTo[k \in 0..Len(s.chain)] ==
            IF k = 0 THEN s ELSE remove_breakpoint(upTo[k-1], k)
    IN upTo[Len(s.chain)]

(***************************************************************************)
(* update_global_location_list.  A location that is inserted and should    *)
(* not be hands what it has in memory over to another at the same address, *)
(* or is removed.  The search makes no location it passes a duplicate;     *)
(* check_duplicates decides that anew.                                     *)
(***************************************************************************)
Heirs(c, i) == {j \in DOMAIN c \ {i} : /\ c[j].enabled
                                       /\ c[j].address = c[i].address}

Passed(c, last) == [j \in DOMAIN c |->
                       IF j <= last THEN [c[j] EXCEPT !.duplicate = FALSE]
                       ELSE c[j]]

(* Mutant: the heir keeps what its own shadow holds.                       *)
SettledOldShadow(s, i) ==
    LET loc   == s.chain[i]
        heirs == Heirs(s.chain, i)
    IN  IF ~loc.inserted \/ should_be_inserted(loc) THEN s
        ELSE IF heirs # {}
        THEN LET j == CHOOSE j \in heirs : \A k \in heirs : j <= k
                 c == Passed(s.chain, j)
             IN  [s EXCEPT !.chain = With(c, j, Put(c[j], c[j].shadow))]
        ELSE remove_breakpoint([s EXCEPT !.chain = Passed(@, Len(@))], i)

Settled(s, i) ==
    LET loc   == s.chain[i]
        heirs == Heirs(s.chain, i)
    IN  IF ~loc.inserted \/ should_be_inserted(loc) THEN s
        ELSE IF heirs # {}
        THEN LET j == CHOOSE j \in heirs : \A k \in heirs : j <= k
                 c == Passed(s.chain, j)
             IN  [s EXCEPT !.chain = With(c, j, Put(c[j], loc.shadow))]
        ELSE remove_breakpoint([s EXCEPT !.chain = Passed(@, Len(@))], i)

SettledAll(s) ==
    LET upTo[k \in 0..Len(s.chain)] ==
            IF k = 0 THEN s ELSE Settled(upTo[k-1], k)
    IN upTo[Len(s.chain)]

(* Mutant: a disabled breakpoint makes duplicates too.                     *)
check_duplicates_atDisabled(c, i) ==
    IF ~c[i].enabled THEN c[i]
    ELSE [c[i] EXCEPT !.duplicate =
             \E j \in 1..(i - 1) : c[j].address = c[i].address]

check_duplicates_at(c, i) ==
    IF ~c[i].enabled THEN c[i]
    ELSE [c[i] EXCEPT !.duplicate =
             \E j \in 1..(i - 1) : /\ c[j].enabled
                                   /\ c[j].address = c[i].address]

check_duplicates(s) ==
    LET c == s.chain
    IN  [s EXCEPT !.chain = [i \in DOMAIN c |-> check_duplicates_at(c, i)]]

(* The last step is for a caller that may insert, in always-inserted mode, *)
(* while there is a process.                                               *)
update_global_location_list(s, should_insert) ==
    LET t == check_duplicates(SettledAll(s))
    IN  IF always /\ should_insert /\ at # "none"
        THEN insert_breakpoint_locations(t) ELSE t

insert_breakpoints(s) ==
    LET t == update_global_location_list(s, TRUE)
    IN  IF always THEN t ELSE insert_breakpoint_locations(t)

(***************************************************************************)
(* Software single stepping.  insert_single_step_breakpoint fills the      *)
(* first free slot, or fails and leaves it empty; with no slot free an     *)
(* assertion fails.                                                        *)
(***************************************************************************)
Step(s) == [chain |-> s.chain, memory |-> s.memory, slots |-> slots,
            outcome |-> "running"]

(* Mutant: without the assertion the breakpoint is put past the array.     *)
insert_single_step_breakpointPast(t, a) ==
    IF t.outcome # "running" THEN t
    ELSE IF None \notin {t.slots[1], t.slots[2]}
    THEN [t EXCEPT !.slots = Append(@, [address |-> a,
                                        shadow |-> Reads(t, a)])]
    ELSE IF a \in Unwritable THEN [t EXCEPT !.outcome = "stopped"]
    ELSE [t EXCEPT !.slots[IF t.slots[1] = None THEN 1 ELSE 2] =
                       [address |-> a, shadow |-> Reads(t, a)],
                   !.memory[a] = Trap]

insert_single_step_breakpoint(t, a) ==
    IF t.outcome # "running" THEN t
    ELSE IF None \notin {t.slots[1], t.slots[2]}
    THEN [t EXCEPT !.outcome = "internal error"]
    ELSE IF a \in Unwritable THEN [t EXCEPT !.outcome = "stopped"]
    ELSE [t EXCEPT !.slots[IF t.slots[1] = None THEN 1 ELSE 2] =
                       [address |-> a, shadow |-> Reads(t, a)],
                   !.memory[a] = Trap]

remove_single_step_breakpoint(m, raw) ==
    IF raw = None THEN m ELSE [m EXCEPT ![raw.address] = raw.shadow]

(* The instructions that may be next: one, or two for a branch.            *)
InsertedAt(s, a, b) ==
    LET one == insert_single_step_breakpoint(Step(s), a)
    IN  IF b = a THEN one ELSE insert_single_step_breakpoint(one, b)

-----------------------------------------------------------------------------
(* Where a breakpoint and one of single stepping are in memory together,   *)
(* or one of single stepping is in its slot and nobody will pull it.       *)
Occupied == {slots[k].address : k \in {k \in 1..2 : slots[k] # None}}
Armed == {chain[i].address : i \in {i \in DOMAIN chain : chain[i].inserted}}
Disturbances == Occupied \intersect (IF stepping THEN Armed ELSE Addr)

Becomes(s) == chain' = s.chain /\ memory' = s.memory
Disturb(addresses) == disturbed' = disturbed \union addresses \union Disturbances'
SameProcess == UNCHANGED <<at, slots, stepping, over, program>>

(* Commands, and the breakpoints gdb sets for itself while it handles an   *)
(* event.                                                                  *)
AtRest == at \in {"none", "stopped", "event"}

Break(a) ==
    /\ AtRest
    /\ Len(chain) < MaxBreakpoints
    /\ LET loc == [address |-> a, enabled |-> TRUE, inserted |-> FALSE,
                   duplicate |-> FALSE, shadow |-> Old]
       IN  Becomes(update_global_location_list(
                       [State EXCEPT !.chain = Append(@, loc)], TRUE))
    /\ SameProcess /\ UNCHANGED always
    /\ Disturb({})

(* The walk is over the locations there were before: the one that goes is  *)
(* among them, as none that anything could be handed over to.              *)
delete_breakpoint(i) ==
    /\ AtRest
    /\ LET t == update_global_location_list(
                   [State EXCEPT !.chain[i].enabled = FALSE], FALSE)
       IN  chain' = RemoveAt(t.chain, i) /\ memory' = t.memory
    /\ SameProcess /\ UNCHANGED always
    /\ Disturb({})

disable_breakpoint(i) ==
    /\ AtRest
    /\ Becomes(update_global_location_list(
                   [State EXCEPT !.chain[i].enabled = FALSE], FALSE))
    /\ SameProcess /\ UNCHANGED always
    /\ Disturb({})

do_enable_breakpoint(i) ==
    /\ AtRest
    /\ Becomes(update_global_location_list(
                   [State EXCEPT !.chain[i].enabled = TRUE], TRUE))
    /\ SameProcess /\ UNCHANGED always
    /\ Disturb({})

SetAlwaysInserted ==
    /\ at \in {"none", "stopped"}
    /\ always' = ~always
    /\ SameProcess /\ UNCHANGED <<chain, memory, disturbed>>

(* The user changes an instruction: memory_xfer_partial writes it where it *)
(* is told to.                                                             *)
Write(a, code) ==
    /\ at = "stopped"
    /\ a \notin Unwritable
    /\ memory' = [memory EXCEPT ![a] = code]
    /\ program' = [program EXCEPT ![a] = code]
    /\ UNCHANGED <<at, chain, slots, stepping, over, always>>
    /\ Disturb({a} \intersect (Armed \union Occupied))

-----------------------------------------------------------------------------
(* What normal_stop does to the breakpoints. *)
stopped(s) == IF always THEN s ELSE remove_breakpoints(s)

(* resume: with a hardware step or none, or with breakpoints where the     *)
(* next instructions are.  When one of these cannot be inserted the throw  *)
(* runs resume_cleanups, which is normal_stop.                             *)
resume(s) ==
    \/ /\ at' = "running"
       /\ Becomes(s)
       /\ UNCHANGED <<slots, stepping>>
    \/ \E a, b \in Addr :
             LET t == InsertedAt(s, a, b)
                 m == [s EXCEPT !.memory = t.memory]
             IN  /\ at' = t.outcome
                 /\ Becomes(IF t.outcome = "stopped" THEN stopped(m) ELSE m)
                 /\ slots' = t.slots
                 /\ stepping' = (stepping \/ t.outcome = "running")

(* proceed: over the breakpoint at the pc with none in memory, or with all *)
(* of them.                                                                *)
ProceedOver ==
    /\ at = "stopped"
    /\ resume(remove_breakpoints(State))
    /\ over' = (at' = "running")
    /\ UNCHANGED <<always, program>>
    /\ Disturb({})

Proceed ==
    /\ at = "stopped"
    /\ over' = FALSE
    /\ LET s == insert_breakpoints(State) IN
       IF s.error THEN Becomes(s) /\ UNCHANGED <<at, slots, stepping>>
       ELSE resume(s)
    /\ UNCHANGED <<always, program>>
    /\ Disturb({})

(* handle_inferior_event: the breakpoints of single stepping are pulled.   *)
Event ==
    /\ at = "running"
    /\ at' = IF stepping /\ slots[1] = None THEN "internal error" ELSE "event"
    /\ IF stepping
       THEN /\ memory' = remove_single_step_breakpoint(
                            remove_single_step_breakpoint(memory, slots[1]),
                            slots[2])
            /\ slots' = <<None, None>>
       ELSE UNCHANGED <<memory, slots>>
    /\ stepping' = FALSE
    /\ UNCHANGED <<chain, over, always, program>>
    /\ Disturb({})

(* keep_going: a signal instead of the trap of the step leaves everything  *)
(* as it is; otherwise the next step goes over a breakpoint, or all are    *)
(* inserted, and when that fails the process stops.                        *)
KeepStepping ==
    /\ at = "event" /\ over
    /\ resume(State)
    /\ over' = (at' = "running")
    /\ UNCHANGED <<always, program>>
    /\ Disturb({})

KeepGoingOver ==
    /\ at = "event"
    /\ resume(remove_breakpoints(State))
    /\ over' = (at' = "running")
    /\ UNCHANGED <<always, program>>
    /\ Disturb({})

KeepGoing ==
    /\ at = "event"
    /\ LET s == insert_breakpoints(State) IN
       IF s.error
       THEN /\ Becomes(stopped(s)) /\ at' = "stopped"
            /\ UNCHANGED <<slots, stepping>>
       ELSE resume(s)
    /\ over' = FALSE
    /\ UNCHANGED <<always, program>>
    /\ Disturb({})

normal_stop ==
    /\ at = "event"
    /\ at' = "stopped"
    /\ Becomes(stopped(State))
    /\ over' = FALSE
    /\ UNCHANGED <<slots, stepping, always, program>>
    /\ Disturb({})

(***************************************************************************)
(* The process ends by itself or is killed, is left alone, or is started.  *)
(***************************************************************************)
Fresh == [a \in Addr |-> Old]

Exit ==
    /\ at \in {"running", "stopped"}
    /\ at' = "none"
    /\ chain' = MarkedOut(chain)
    /\ memory' = Fresh /\ program' = Fresh
    /\ stepping' = FALSE /\ over' = FALSE
    /\ UNCHANGED <<slots, always>>
    /\ disturbed' = Disturbances'

(* Mutant: the breakpoints are marked before they are removed.             *)
target_detachMarkedFirst ==
    /\ at = "stopped"
    /\ at' = "none"
    /\ Becomes(remove_breakpoints([State EXCEPT !.chain = MarkedOut(chain)]))
    /\ UNCHANGED <<slots, stepping, over, always, program>>
    /\ Disturb({})

target_detach ==
    /\ at = "stopped"
    /\ at' = "none"
    /\ LET s == remove_breakpoints(State)
       IN  chain' = MarkedOut(s.chain) /\ memory' = s.memory
    /\ UNCHANGED <<slots, stepping, over, always, program>>
    /\ Disturb({})

Run ==
    /\ at = "none"
    /\ at' = "stopped"
    /\ chain' = MarkedOut(chain)
    /\ memory' = Fresh /\ program' = Fresh
    /\ UNCHANGED <<slots, stepping, over, always>>
    /\ disturbed' = Disturbances'

Next == \/ \E a \in Addr : Break(a)
        \/ \E a \in Addr, code \in Code : Write(a, code)
        \/ \E i \in DOMAIN chain : delete_breakpoint(i)
        \/ \E i \in DOMAIN chain : disable_breakpoint(i)
        \/ \E i \in DOMAIN chain : do_enable_breakpoint(i)
        \/ SetAlwaysInserted
        \/ ProceedOver \/ Proceed \/ Event
        \/ KeepStepping \/ KeepGoingOver \/ KeepGoing \/ normal_stop
        \/ Exit \/ target_detach \/ Run

Spec == Init /\ [][Next]_vars

-----------------------------------------------------------------------------
Undisturbed == Addr \ (disturbed \union Occupied)

(* What the user reads is the program, wherever breakpoints are.           *)
ReadsHideTraps == \A a \in Undisturbed : Reads(State, a) = program[a]

(* Where no breakpoint is inserted the memory is the program's: after a    *)
(* stop, and in a process that is left alone.                              *)
MemoryRestored == \A a \in Undisturbed \ Armed : memory[a] = program[a]

(* While the process runs, unless it steps over a breakpoint, the trap     *)
(* instruction is at the addresses of the enabled breakpoints and nowhere  *)
(* else, whatever was deleted, disabled, or made a duplicate before.       *)
TrapsAreBreakpoints ==
    at = "running" /\ ~over =>
        \A a \in Undisturbed :
            memory[a] = Trap <=> \E i \in DOMAIN chain :
                                    chain[i].enabled /\ chain[i].address = a

(* "Make sure all breakpoints are inserted in inferior" (breakpoint.c:1248) *)
(* before it runs, unless it steps over one: where neither the user nor     *)
(* single stepping has just written, an enabled breakpoint is in memory.    *)
AllInserted ==
    at = "running" /\ ~over =>
        \A i \in DOMAIN chain :
            LET loc == chain[i] IN
            loc.enabled /\ loc.address \notin Occupied
                /\ program[loc.address] = Old
            => memory[loc.address] = Trap

(* There is a slot for every breakpoint of single stepping: the assertion   *)
(* of insert_single_step_breakpoint holds.                                  *)
SlotsSuffice == at # "internal error"
=============================================================================
