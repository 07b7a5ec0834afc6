--------------------------- MODULE CleanupScopes ---------------------------
(***************************************************************************)
(* What the exceptions of gdb/exceptions.c and the cleanup chain of        *)
(* gdb/utils.c promise together.  Each TRY_CATCH opens a scope; cleanups   *)
(* made inside belong to it and leave it last in, first out; an exception  *)
(* gets to the handler only when none of the scope's cleanups is left; and *)
(* when the scope closes, the one around it is as it was.                  *)
(***************************************************************************)
EXTENDS Naturals, Sequences

CONSTANTS Cleanups,  \* the cleanups that may be pending
          Uis,       \* the ui_out builders
          StdUi      \* the one gdb starts with

VARIABLES scopes,    \* innermost last: the pending cleanups, oldest first,
                     \* and the output builder in use
          thrown     \* an exception has reached the innermost scope

svars == <<scopes, thrown>>

SInit == /\ scopes = <<[pending |-> <<>>, ui |-> StdUi]>>
         /\ thrown = FALSE

Depth == Len(scopes)
Push(c) == /\ ~thrown /\ Depth > 1
           /\ \A j \in 1 .. Depth : \A i \in DOMAIN scopes[j].pending :
                 scopes[j].pending[i] # c
           /\ scopes' = [scopes EXCEPT ![Depth].pending = Append(@, c)]
           /\ UNCHANGED thrown

(* The latest cleanups are run, one by one, or discarded. *)
Leave(n) == /\ ~thrown
            /\ n < Len(scopes[Depth].pending)
            /\ scopes' = [scopes EXCEPT ![Depth].pending = SubSeq(@, 1, n)]
            /\ UNCHANGED thrown

Open(ui) == /\ ~thrown
            /\ scopes' = Append(scopes, [pending |-> <<>>, ui |-> ui])
            /\ UNCHANGED thrown

Arrive == /\ Depth > 1
          /\ scopes[Depth].pending = <<>>
          /\ thrown' = TRUE
          /\ UNCHANGED scopes

(* The scope ends, by its exception or because its body is over; in the    *)
(* second case cleanups still pending are never run.                       *)
CloseScope == /\ Depth > 1
              /\ scopes' = SubSeq(scopes, 1, Depth - 1)
              /\ thrown' = FALSE

SNext == \/ \E c \in Cleanups : Push(c)
         \/ \E n \in 0 .. Len(scopes[Depth].pending) : Leave(n)
         \/ \E ui \in Uis : Open(ui)
         \/ Arrive \/ CloseScope

SSpec == SInit /\ [][SNext]_svars
=============================================================================
