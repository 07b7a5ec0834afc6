---------------------------- MODULE ViewerTable ----------------------------
(***************************************************************************)
(* What the data plugin registry of gdb/printcmd.c promises.  Viewers are  *)
(* functions inside shared libraries that gdb calls through a table that   *)
(* is never emptied, so a library whose function is in the table, or whose *)
(* code is on the stack, has to stay mapped.                               *)
(***************************************************************************)
CONSTANTS Types,   \* the type names a viewer can be registered for
          Libs,    \* the shared libraries
          NoLib    \* no library

VARIABLES viewers, \* type name -> library of its viewer
          mapped,  \* the libraries in gdb's address space
          running  \* the library whose code gdb has called

tvars == <<viewers, mapped, running>>

TInit == /\ viewers = [t \in Types |-> NoLib]
         /\ mapped = {}
         /\ running = NoLib

Map(l) == /\ running = NoLib
          /\ mapped' = mapped \union {l}
          /\ UNCHANGED <<viewers, running>>

(* The last handle of a library goes only when nothing points into it. *)
Unmap(l) == /\ running # l
            /\ \A t \in Types : viewers[t] # l
            /\ mapped' = mapped \ {l}
            /\ UNCHANGED <<viewers, running>>

Call(l) == /\ l \in mapped
           /\ running = NoLib
           /\ running' = l
           /\ UNCHANGED <<viewers, mapped>>

Return == /\ running' = NoLib
          /\ UNCHANGED <<viewers, mapped>>

(* Running code registers a viewer of its own for a type that has none;    *)
(* the call may also end with the registration, when the user quits the    *)
(* message about it.                                                       *)
Register(t) == /\ running # NoLib
               /\ viewers[t] = NoLib
               /\ viewers' = [viewers EXCEPT ![t] = running]
               /\ running' \in {running, NoLib}
               /\ UNCHANGED mapped

TNext == \/ \E l \in Libs : Map(l) \/ Unmap(l) \/ Call(l)
         \/ Return
         \/ \E t \in Types : Register(t)

TSpec == TInit /\ [][TNext]_tvars
=============================================================================
