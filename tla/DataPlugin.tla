---------------------------- MODULE DataPlugin ----------------------------
(***************************************************************************)
(* The data plugin support of gdb/printcmd.c: the "dataplugin" command     *)
(* that loads a shared library and runs its entry point, the callbacks the *)
(* entry point and the viewers are given, and print_command_1, which       *)
(* hands a value to a viewer when one is registered for its type.          *)
(*                                                                         *)
(* gdb runs one command at a time, so the interleavings are those of gdb   *)
(* and the code it calls back, and the exits are of two kinds: a return,   *)
(* or a throw (error, or a quit at the pager) that runs the cleanup chain  *)
(* and jumps straight to the command loop from any depth.                  *)
(***************************************************************************)
EXTENDS Naturals, Sequences, FiniteSets

CONSTANTS Types,    \* type names, as type_print writes them
          Libs,     \* the files given to the dataplugin command
          NoLib,    \* a null view function / no library
          NoType,   \* no type: print without an expression
          Epoch,    \* epoch_interface, set by the option --epoch
          MaxRefs   \* bound on the handles held on one library

ASSUME ConstantsAssumption ==
    /\ IsFiniteSet(Types)
    /\ NoLib \notin Libs
    /\ NoType \notin Types
    /\ Epoch \in {0, 1}
    /\ MaxRefs \in Nat

VARIABLES viewers,    \* dataplugin_htab: type name -> library of its viewer
          refs,       \* dlopen's count of the handles on each library
          unwound,    \* history: loads of a library that a throw cut short
          pc,         \* where the command in progress is
          lib,        \* the library being loaded, or whose viewer runs
          start,      \* start_count of the load in progress
          cmd,        \* arguments of print_command_1
          inspect_it, \* the global print mode
          chain,      \* the cleanup chain of the command, oldest first
          heap,       \* blocks the command has allocated and not freed
          lost        \* kinds of block that some command never freed

registry == <<viewers, refs, unwound>>
frame    == <<lib, start, cmd>>
memory   == <<chain, heap, lost>>
vars == <<viewers, refs, unwound, pc, lib, start, cmd, inspect_it,
          chain, heap, lost>>

Kinds == {"expr", "memfile", "typestr", "sizeexp", "sizeexpr", "string"}
Idle  == [type |-> NoType, inspect |-> 0, voidprint |-> TRUE]

Loading  == {"dlsym", "call", "entry", "entry_parse", "entry_size", "count"}
InEntry  == {"entry", "entry_parse", "entry_size"}
InViewer == {"viewer", "viewer_parse", "viewer_size", "viewer_read"}
Printing == {"format", "parse", "evaluate", "name", "lookup", "record", "show"}

Registered   == {t \in Types : viewers[t] # NoLib}
ViewersOf(l) == {t \in Types : viewers[t] = l}
Elements     == Cardinality(Registered)    \* htab_elements (dataplugin_htab)

(* The library whose code is on the stack. *)
Running == IF pc \in InEntry \union InViewer THEN lib ELSE NoLib

Init == /\ viewers = [t \in Types |-> NoLib]
        /\ refs = [l \in Libs |-> 0]
        /\ unwound = [l \in Libs |-> 0]
        /\ pc = "top"
        /\ lib = NoLib
        /\ start = 0
        /\ cmd = Idle
        /\ inspect_it = 0
        /\ chain = <<>>
        /\ heap = {}
        /\ lost = {}

-----------------------------------------------------------------------------
(* Memory and the ways out of a command. *)

InChain == {chain[i] : i \in DOMAIN chain}

(* do_cleanups (old_chain) where one cleanup was made since, and the free  *)
(* of the blocks in others.                                                *)
PopCleanup(others) ==
    /\ chain' = SubSeq(chain, 1, Len(chain) - 1)
    /\ heap' = heap \ ({chain[Len(chain)]} \union others)
    /\ UNCHANGED lost

PushCleanup(block) == /\ chain' = Append(chain, block)
                      /\ heap' = heap \union {block}
                      /\ UNCHANGED lost

(* A command is back in the command loop with nothing in progress. *)
BackToTop == /\ pc' = "top"
             /\ lib' = NoLib
             /\ start' = 0
             /\ cmd' = Idle

(* throw_exception: do_cleanups (ALL_CLEANUPS) frees what the chain knows  *)
(* of, then longjmp discards every frame.  A library handle is in no       *)
(* cleanup, so that of a load in progress stays open.                      *)
Throw == /\ BackToTop
         /\ chain' = <<>>
         /\ heap' = {}
         /\ lost' = lost \union (heap \ InChain)
         /\ unwound' = IF pc \in Loading
                         THEN [unwound EXCEPT ![lib] = @ + 1] ELSE unwound

-----------------------------------------------------------------------------
(* dataplugin_command. *)

(* The count is taken, the library opened.  When the first message is quit *)
(* or dlopen fails the command ends with nothing changed.                  *)
LoadPlugin(l) == /\ pc = "top"
                 /\ refs[l] < MaxRefs
                 /\ pc' = "dlsym"
                 /\ lib' = l
                 /\ start' = Elements
                 /\ refs' = [refs EXCEPT ![l] = @ + 1]
                 /\ UNCHANGED <<viewers, unwound, cmd, inspect_it, memory>>

(* Mutant: the handle of the call's own dlopen is closed twice. *)
CloseTwice == /\ refs' = [refs EXCEPT ![lib] = @ - 2]
              /\ BackToTop
              /\ UNCHANGED <<viewers, unwound, inspect_it, memory>>

(* dlclose, and the command returns. *)
Close == /\ refs' = [refs EXCEPT ![lib] = @ - 1]
         /\ BackToTop
         /\ UNCHANGED <<viewers, unwound, inspect_it, memory>>

FindEntry == /\ pc = "dlsym"
             /\ pc' = "call"
             /\ UNCHANGED <<registry, frame, inspect_it, memory>>

(* Mutant: the missing entry point is reported and the library kept. *)
NoEntryKept == /\ pc = "dlsym"
               /\ BackToTop
               /\ UNCHANGED <<registry, inspect_it, memory>>

NoEntry == pc = "dlsym" /\ Close

CallEntry == /\ pc = "call"
             /\ pc' = "entry"
             /\ UNCHANGED <<registry, frame, inspect_it, memory>>

EntryReturns == /\ pc = "entry"
                /\ pc' = "count"
                /\ UNCHANGED <<registry, frame, inspect_it, memory>>

(* The handle is kept if the table grew.  The message about it may be quit *)
(* but the work is done: unlike Throw this is a load that completed.       *)
KeepLibrary == /\ pc = "count"
               /\ start < Elements
               /\ BackToTop
               /\ UNCHANGED <<registry, inspect_it, memory>>

(* Mutant: a plugin with a single viewer counts as one with none. *)
DropLibraryOffByOne == /\ pc = "count"
                       /\ ~(start + 1 < Elements)
                       /\ Close

DropLibrary == /\ pc = "count"
               /\ ~(start < Elements)
               /\ Close

-----------------------------------------------------------------------------
(* The callbacks.  Both tables of functions are static, so a plugin may    *)
(* keep the pointer its entry point was given and register from a viewer.  *)

(* Mutant: a second registration replaces the first. *)
AddViewerAgain(t) ==
    /\ pc \in {"entry", "viewer"}
    /\ viewers' = [viewers EXCEPT ![t] = lib]
    /\ UNCHANGED <<refs, pc, frame, inspect_it, memory, unwound>>

(* dataplugin_add_viewer for a type with no viewer.  The slot is filled    *)
(* before the message, and the pager may throw from the message.           *)
AddViewer(t) ==
    /\ pc \in {"entry", "viewer"}
    /\ viewers[t] = NoLib
    /\ viewers' = [viewers EXCEPT ![t] = lib]
    /\ UNCHANGED <<refs, inspect_it>>
    /\ \/ UNCHANGED <<pc, frame, memory, unwound>>
       \/ Throw

(* dataplugin_get_size duplicates its argument, then parses it. *)
GetSize == /\ pc \in {"entry", "viewer"}
           /\ pc' = IF pc = "entry" THEN "entry_parse" ELSE "viewer_parse"
           /\ heap' = heap \union {"sizeexp"}
           /\ UNCHANGED <<registry, frame, inspect_it, chain, lost>>

SizeParsed == /\ pc \in {"entry_parse", "viewer_parse"}
              /\ pc' = IF pc = "entry_parse" THEN "entry_size"
                                             ELSE "viewer_size"
              /\ PushCleanup("sizeexpr")
              /\ UNCHANGED <<registry, frame, inspect_it>>

SizeReturned == /\ pc \in {"entry_size", "viewer_size"}
                /\ pc' = IF pc = "entry_size" THEN "entry" ELSE "viewer"
                /\ PopCleanup({"sizeexp"})
                /\ UNCHANGED <<registry, frame, inspect_it>>

(* dataplugin_read_string, which the table for viewers alone has: the      *)
(* buffer of target_read_string_multibyte is a local of it, in no cleanup, *)
(* while it reads the target word by word.                                 *)
ReadString == /\ pc = "viewer"
              /\ pc' = "viewer_read"
              /\ heap' = heap \union {"string"}
              /\ UNCHANGED <<registry, frame, inspect_it, chain, lost>>

(* The buffer is the viewer's from here on, or an error code had it freed. *)
StringReturned == /\ pc = "viewer_read"
                  /\ pc' = "viewer"
                  /\ heap' = heap \ {"string"}
                  /\ UNCHANGED <<registry, frame, inspect_it, chain, lost>>

-----------------------------------------------------------------------------
(* print_command_1: print, call and inspect. *)

PrintCommand(t, inspect, voidprint) ==
    /\ pc = "top"
    /\ pc' = "format"
    /\ cmd' = [type |-> t, inspect |-> inspect, voidprint |-> voidprint]
    /\ inspect_it' = inspect
    /\ UNCHANGED <<registry, lib, start, memory>>

(* Without an expression the value is the last one of the history. *)
FormatDecoded == /\ pc = "format"
                 /\ pc' = IF cmd.type = NoType THEN "record" ELSE "parse"
                 /\ UNCHANGED <<registry, frame, inspect_it, memory>>

ExpressionParsed == /\ pc = "parse"
                    /\ pc' = "evaluate"
                    /\ PushCleanup("expr")
                    /\ UNCHANGED <<registry, frame, inspect_it>>

(* The value is there; the type's name is written to a memory file. *)
Evaluated == /\ pc = "evaluate"
             /\ pc' = "name"
             /\ PushCleanup("memfile")
             /\ UNCHANGED <<registry, frame, inspect_it>>

TypeNamed == /\ pc = "name"
             /\ pc' = "lookup"
             /\ chain' = SubSeq(chain, 1, Len(chain) - 1)
             /\ heap' = (heap \ {chain[Len(chain)]}) \union {"typestr"}
             /\ UNCHANGED <<registry, frame, inspect_it, lost>>

(* dataplugin_get_viewer *)
NoViewer == /\ pc = "lookup"
            /\ viewers[cmd.type] = NoLib
            /\ pc' = "record"
            /\ heap' = heap \ {"typestr"}
            /\ UNCHANGED <<registry, frame, inspect_it, chain, lost>>

CallViewer == /\ pc = "lookup"
              /\ viewers[cmd.type] # NoLib
              /\ lib' = viewers[cmd.type]
              /\ pc' = "viewer"
              /\ heap' = heap \ {"typestr"}
              /\ UNCHANGED <<registry, start, cmd, inspect_it, chain, lost>>

(* Mutant: the plugin path returns before do_cleanups (old_chain). *)
ViewerReturnsEarly == /\ pc = "viewer"
                      /\ inspect_it' = 0
                      /\ BackToTop
                      /\ UNCHANGED <<registry, memory>>

ViewerReturns == /\ pc = "viewer"
                 /\ PopCleanup({})
                 /\ inspect_it' = 0
                 /\ BackToTop
                 /\ UNCHANGED registry

RecordValue == /\ pc = "record"
               /\ pc' = "show"
               /\ UNCHANGED <<registry, frame, inspect_it, memory>>

(* The value was shown, or call met a void value and shows nothing. *)
PrintReturns == /\ pc = "show" \/ (pc = "record" /\ ~cmd.voidprint)
                /\ IF cmd.type # NoType THEN PopCleanup({})
                                        ELSE UNCHANGED memory
                /\ inspect_it' = 0
                /\ BackToTop
                /\ UNCHANGED registry

-----------------------------------------------------------------------------
(* Every step that parses, evaluates, reads the target, allocates or       *)
(* writes to the pager may throw instead of doing its work.  So may the    *)
(* plugin's own code, through the callbacks that only read or allocate.    *)
Error == /\ pc \in InEntry \union InViewer \union (Printing \ {"lookup"})
         /\ Throw
         /\ UNCHANGED <<viewers, refs, inspect_it>>

Next == \/ \E l \in Libs : LoadPlugin(l)
        \/ FindEntry \/ NoEntry \/ CallEntry \/ EntryReturns
        \/ KeepLibrary \/ DropLibrary
        \/ \E t \in Types : AddViewer(t)
        \/ GetSize \/ SizeParsed \/ SizeReturned
        \/ ReadString \/ StringReturned
        \/ \E t \in Types \union {NoType}, v \in BOOLEAN :
              PrintCommand(t, 0, v)
        \/ \E t \in Types \union {NoType} : PrintCommand(t, Epoch, TRUE)
        \/ FormatDecoded \/ ExpressionParsed \/ Evaluated \/ TypeNamed
        \/ NoViewer \/ CallViewer \/ ViewerReturns
        \/ RecordValue \/ PrintReturns
        \/ Error

Spec == Init /\ [][Next]_vars

-----------------------------------------------------------------------------
TypeOK == /\ viewers \in [Types -> Libs \union {NoLib}]
          /\ refs \in [Libs -> Nat]
          /\ unwound \in [Libs -> Nat]
          /\ pc \in {"top"} \union Loading \union InViewer \union Printing
          /\ lib \in Libs \union {NoLib}
          /\ start \in Nat
          /\ cmd \in [type : Types \union {NoType}, inspect : {0, 1},
                      voidprint : BOOLEAN]
          /\ inspect_it \in {0, 1}
          /\ chain \in Seq(Kinds)
          /\ heap \subseteq Kinds
          /\ lost \subseteq Kinds

(* Every function gdb may call through the table, and the library code on  *)
(* its stack, is in a library with an open handle: dlclose in              *)
(* dataplugin_command never unmaps a registered viewer, whatever mix of    *)
(* reloads, duplicate registrations, failed loads and throws came before.  *)
NoDanglingViewer ==
    /\ \A t \in Types : viewers[t] # NoLib => refs[viewers[t]] > 0
    /\ Running # NoLib => refs[Running] > 0

(* The handles dataplugin_command leaks (its own FIXME) are bounded: each  *)
(* open handle stands for a viewer of that library, a load that a throw    *)
(* cut short, or the load in progress.                                     *)
HandlesExplained ==
    \A l \in Libs :
        refs[l] <= Cardinality(ViewersOf(l)) + unwound[l]
                     + (IF pc \in Loading /\ lib = l THEN 1 ELSE 0)

(* However a command ends, what gdb allocated for it is freed, but for two *)
(* blocks that a throw may find in no cleanup: the copy of the expression  *)
(* in dataplugin_get_size, and the buffer of a string that                 *)
(* dataplugin_read_string was reading when the target or a quit threw.     *)
(* What the plugin allocates, or has been handed, is the plugin's to free. *)
CleanupsCoverHeap == /\ lost \subseteq {"sizeexp", "string"}
                     /\ pc = "top" => heap = {} /\ chain = <<>>

(* The command loop is reached with the print routines back to normal, as  *)
(* the comment at the end of print_command_1 has it.                       *)
PrintModeReset == pc = "top" => inspect_it = 0

(* The code implements the promise of ViewerTable. *)
Table == INSTANCE ViewerTable
            WITH mapped <- {l \in Libs : refs[l] > 0}, running <- Running
ImplementsTable == Table!TSpec
=============================================================================
