---------------------------- MODULE Exceptions ----------------------------
(***************************************************************************)
(* The exceptions of gdb/exceptions.c with the cleanup chain of            *)
(* gdb/utils.c: the catcher state machine that the TRY_CATCH macro drives, *)
(* throw_exception, and do_cleanups, whose functions may themselves make   *)
(* cleanups, catch exceptions and throw.                                   *)
(*                                                                         *)
(* gdb is one thread: what interleaves is the nesting, so the C stack is a *)
(* variable, apart from the list of catchers and from the chain.  What the *)
(* code in a TRY_CATCH body or a cleanup function does is any sequence of  *)
(* the operations below.                                                   *)
(***************************************************************************)
EXTENDS Naturals, Sequences

CONSTANTS Cleanups,  \* the cleanups that may exist at one time
          Uis,       \* the ui_out builders
          StdUi,     \* the one gdb starts with
          NoCleanup, \* a frame that runs no cleanup function
          MaxDepth   \* frames of the C stack from which code starts nothing new

ASSUME ExceptionsAssumption == /\ StdUi \in Uis
                               /\ NoCleanup \notin Cleanups
                               /\ MaxDepth \in Nat \ {0}

VARIABLES stack,         \* the frames that matter here, innermost last
          catchers,      \* current_catcher and those behind it, same order
          cleanup_chain, \* newest last
          uiout,         \* the output builder in use
          caught         \* the exception a TRY_CATCH has just ended with

vars == <<stack, catchers, cleanup_chain, uiout, caught>>

(* RETURN_QUIT and RETURN_ERROR; a message is last_message or was freed. *)
Reasons    == {"quit", "error"}
Masks      == {Reasons, {"error"}}
Exceptions == [reason : Reasons \union {"none"},
               message : {"null", "live", "freed"}]
NoException == [reason |-> "none", message |-> "null"]

(* A frame is a TRY_CATCH at the condition of its outer or its inner while *)
(* or in its body, a do_cleanups loop, or a cleanup function.              *)
Tries  == {"outer", "inner", "body"}
Frames == [at : Tries \union {"loop", "function"},
           mark : Nat,              \* how far down the chain is its own
           exception : Exceptions,  \* what throw_exception is to deliver
           cleanup : Cleanups \union {NoCleanup},
           ran : 0 .. 1]            \* times its body was entered

Frame(at, mark, e, c) ==
    [at |-> at, mark |-> mark, exception |-> e, cleanup |-> c, ran |-> 0]

Catchers == [state : {"CREATED", "RUNNING", "RUNNING_1", "ABORTING"},
             buf : Nat,             \* the frame the jump buffer points to
             exception : Exceptions,
             mask : Masks,
             saved_uiout : Uis,
             saved_cleanup_chain : Seq(Cleanups)]

Init == /\ stack = <<>>
        /\ catchers = <<>>
        /\ cleanup_chain = <<>>
        /\ uiout = StdUi
        /\ caught = NoException

Depth   == Len(stack)
Top     == stack[Depth]
Current == catchers[Len(catchers)]
InCode  == stack # <<>> /\ Top.at \in {"body", "function"}
MoveTo(at) == stack' = [stack EXCEPT ![Depth].at = at]
PopFrame   == SubSeq(stack, 1, Depth - 1)
SetState(s) == catchers' = [catchers EXCEPT ![Len(catchers)].state = s]

(* The cleanups that exist: pending in some chain, or being run. *)
Held(chain) == {chain[i] : i \in DOMAIN chain}
RunningFunctions == {stack[i].cleanup : i \in DOMAIN stack} \ {NoCleanup}
Existing == Held(cleanup_chain) \union RunningFunctions \union
            UNION {Held(catchers[j].saved_cleanup_chain) :
                      j \in DOMAIN catchers}

-----------------------------------------------------------------------------
(* The cleanup chain. *)

MakeCleanup(c) == /\ InCode
                  /\ c \notin Existing
                  /\ cleanup_chain' = Append(cleanup_chain, c)
                  /\ caught' = NoException
                  /\ UNCHANGED <<stack, catchers, uiout>>

(* A function hands back a mark it got from make_cleanup, so nothing older *)
(* than its own cleanups.                                                  *)
Marks == Top.mark .. Len(cleanup_chain) - 1

DiscardCleanups(mark) == /\ InCode /\ mark \in Marks
                         /\ cleanup_chain' = SubSeq(cleanup_chain, 1, mark)
                         /\ caught' = NoException
                         /\ UNCHANGED <<stack, catchers, uiout>>

DoCleanups(mark) ==
    /\ InCode /\ mark \in Marks
    /\ Depth < MaxDepth
    /\ stack' = Append(stack, Frame("loop", mark, NoException, NoCleanup))
    /\ caught' = NoException
    /\ UNCHANGED <<catchers, cleanup_chain, uiout>>

(* Mutant: the cleanup stays in the chain while its function runs. *)
RunCleanupFirst ==
    /\ stack # <<>> /\ Top.at = "loop"
    /\ Len(cleanup_chain) > Top.mark
    /\ stack' = Append(stack, Frame("function", Len(cleanup_chain),
                           NoException, cleanup_chain[Len(cleanup_chain)]))
    /\ UNCHANGED <<catchers, cleanup_chain, uiout, caught>>

(* The cleanup leaves the chain first, in case its function recurses. *)
RunCleanup ==
    /\ stack # <<>> /\ Top.at = "loop"
    /\ Len(cleanup_chain) # Top.mark
    /\ LET n == Len(cleanup_chain) - 1
       IN  /\ cleanup_chain' = SubSeq(cleanup_chain, 1, n)
           /\ stack' = Append(stack, Frame("function", n, NoException,
                                           cleanup_chain[n + 1]))
    /\ UNCHANGED <<catchers, uiout, caught>>

FunctionReturns == /\ stack # <<>> /\ Top.at = "function"
                   /\ stack' = PopFrame
                   /\ caught' = NoException
                   /\ UNCHANGED <<catchers, cleanup_chain, uiout>>

LoopReturns == /\ stack # <<>> /\ Top.at = "loop"
               /\ Len(cleanup_chain) = Top.mark
               /\ Top.exception = NoException
               /\ stack' = PopFrame
               /\ UNCHANGED <<catchers, cleanup_chain, uiout, caught>>

-----------------------------------------------------------------------------
(* Throwing. *)

(* throw_it frees the message of the exception thrown before. *)
Stale(e) == IF e.message = "live" THEN [e EXCEPT !.message = "freed"] ELSE e

(* error, and fatal for a quit with a message.  throw_exception begins     *)
(* with do_cleanups (ALL_CLEANUPS); its effects on the quit flags, the     *)
(* breakpoint commands and the displays belong to other components.        *)
ThrowMessage(reason) ==
    /\ InCode
    /\ Depth < MaxDepth
    /\ LET e == [reason |-> reason, message |-> "live"]
       IN  stack' = Append([i \in DOMAIN stack |->
                              [stack[i] EXCEPT !.exception = Stale(@)]],
                           Frame("loop", 0, e, NoCleanup))
    /\ catchers' = [j \in DOMAIN catchers |->
                      [catchers[j] EXCEPT !.exception = Stale(@)]]
    /\ caught' = NoException
    /\ UNCHANGED <<cleanup_chain, uiout>>

(* deprecated_throw_reason *)
ThrowReason(reason) ==
    /\ InCode
    /\ Depth < MaxDepth
    /\ LET e == [reason |-> reason, message |-> "null"]
       IN  stack' = Append(stack, Frame("loop", 0, e, NoCleanup))
    /\ caught' = NoException
    /\ UNCHANGED <<catchers, cleanup_chain, uiout>>

(* Mutant: the jump does not wait for the last cleanup. *)
LongjmpEarly ==
    /\ stack # <<>> /\ Top.at = "loop" /\ Top.exception # NoException
    /\ Current.state \in {"RUNNING", "RUNNING_1"}
    /\ Len(cleanup_chain) <= 1
    /\ catchers' = [catchers EXCEPT ![Len(catchers)] =
                      [@ EXCEPT !.state = "ABORTING",
                                !.exception = Top.exception]]
    /\ stack' = [SubSeq(stack, 1, Current.buf)
                    EXCEPT ![Current.buf].at = "outer"]
    /\ UNCHANGED <<cleanup_chain, uiout, caught>>

(* Mutant: CATCH_THROWING leaves the state alone. *)
LongjmpRunning ==
    /\ stack # <<>> /\ Top.at = "loop" /\ Top.exception # NoException
    /\ cleanup_chain = <<>>
    /\ Current.state \in {"RUNNING", "RUNNING_1"}
    /\ catchers' = [catchers EXCEPT ![Len(catchers)].exception =
                                        Top.exception]
    /\ stack' = [SubSeq(stack, 1, Current.buf)
                    EXCEPT ![Current.buf].at = "outer"]
    /\ UNCHANGED <<cleanup_chain, uiout, caught>>

(* The rest of throw_exception: CATCH_THROWING, the exception is stored    *)
(* and every frame above the catcher's is gone.                            *)
Longjmp ==
    /\ stack # <<>> /\ Top.at = "loop" /\ Top.exception # NoException
    /\ cleanup_chain = <<>>
    /\ Current.state \in {"RUNNING", "RUNNING_1"}
    /\ catchers' = [catchers EXCEPT ![Len(catchers)] =
                      [@ EXCEPT !.state = "ABORTING",
                                !.exception = Top.exception]]
    /\ stack' = [SubSeq(stack, 1, Current.buf)
                    EXCEPT ![Current.buf].at = "outer"]
    /\ UNCHANGED <<cleanup_chain, uiout, caught>>

-----------------------------------------------------------------------------
(* TRY_CATCH and exceptions_state_mc. *)

(* Mutant: the chain of the code outside is left in place. *)
SaveCleanupsNot == cleanup_chain

(* save_cleanups leaves an empty chain. *)
SaveCleanups == <<>>

(* exceptions_state_mc_init; main has the outermost TRY_CATCH, for any     *)
(* reason, and comes back to it whenever it ends.                          *)
EnterTry(mask, ui) ==
    /\ IF stack = <<>> THEN mask = Reasons ELSE InCode
    /\ Depth < MaxDepth
    /\ stack' = Append(stack, Frame("outer", 0, NoException, NoCleanup))
    /\ catchers' = Append(catchers,
          [state |-> "CREATED", buf |-> Depth + 1, exception |-> NoException,
           mask |-> mask, saved_uiout |-> uiout,
           saved_cleanup_chain |-> cleanup_chain])
    /\ cleanup_chain' = SaveCleanups
    /\ uiout' = ui
    /\ caught' = NoException

(* catcher_pop *)
CatcherPop == /\ catchers' = SubSeq(catchers, 1, Len(catchers) - 1)
              /\ cleanup_chain' = Current.saved_cleanup_chain
              /\ uiout' = Current.saved_uiout

AtOuter(states) == /\ stack # <<>> /\ Top.at = "outer"
                   /\ Current.state \in states

IterCreated == /\ AtOuter({"CREATED"})
               /\ SetState("RUNNING")
               /\ MoveTo("inner")
               /\ UNCHANGED <<cleanup_chain, uiout, caught>>

(* CATCH_ITER after the body, or after a break out of it. *)
IterDone == /\ AtOuter({"RUNNING", "RUNNING_1"})
            /\ CatcherPop
            /\ stack' = PopFrame
            /\ UNCHANGED caught

Catch == /\ AtOuter({"ABORTING"})
         /\ Current.exception.reason \in Current.mask
         /\ CatcherPop
         /\ stack' = PopFrame
         /\ caught' = Current.exception

(* The exception goes on to the next catcher out. *)
Relay == /\ AtOuter({"ABORTING"})
         /\ Current.exception.reason \notin Current.mask
         /\ CatcherPop
         /\ stack' = Append(PopFrame,
                            Frame("loop", 0, Current.exception, NoCleanup))
         /\ UNCHANGED caught

(* CATCH_ITER_1 *)
EnterBody == /\ stack # <<>> /\ Top.at = "inner"
             /\ Current.state = "RUNNING"
             /\ SetState("RUNNING_1")
             /\ stack' = [stack EXCEPT ![Depth].at = "body",
                                       ![Depth].ran = @ + 1]
             /\ UNCHANGED <<cleanup_chain, uiout, caught>>

LeaveBody == /\ stack # <<>> /\ Top.at = "inner"
             /\ Current.state = "RUNNING_1"
             /\ SetState("RUNNING")
             /\ MoveTo("outer")
             /\ UNCHANGED <<cleanup_chain, uiout, caught>>

BodyEnds == /\ stack # <<>> /\ Top.at = "body"
            /\ MoveTo("inner")
            /\ caught' = NoException
            /\ UNCHANGED <<catchers, cleanup_chain, uiout>>

(* Mutant: a break that leaves both loops of the macro. *)
BreakBoth == /\ stack # <<>> /\ Top.at = "body"
             /\ stack' = PopFrame
             /\ caught' = NoException
             /\ UNCHANGED <<catchers, cleanup_chain, uiout>>

(* A break leaves the inner loop only. *)
Break == /\ stack # <<>> /\ Top.at = "body"
         /\ MoveTo("outer")
         /\ caught' = NoException
         /\ UNCHANGED <<catchers, cleanup_chain, uiout>>

Next == \/ \E c \in Cleanups : MakeCleanup(c)
        \/ \E mark \in 0 .. Len(cleanup_chain) :
              DiscardCleanups(mark) \/ DoCleanups(mark)
        \/ RunCleanup \/ FunctionReturns \/ LoopReturns
        \/ \E reason \in Reasons : ThrowMessage(reason) \/ ThrowReason(reason)
        \/ Longjmp
        \/ \E mask \in Masks, ui \in Uis : EnterTry(mask, ui)
        \/ IterCreated \/ IterDone \/ Catch \/ Relay
        \/ EnterBody \/ LeaveBody \/ BodyEnds \/ Break

Spec == Init /\ [][Next]_vars

-----------------------------------------------------------------------------
TypeOK == /\ stack \in Seq(Frames)
          /\ catchers \in Seq(Catchers)
          /\ cleanup_chain \in Seq(Cleanups)
          /\ uiout \in Uis
          /\ caught \in Exceptions
          /\ \A j \in DOMAIN catchers : catchers[j].state = "ABORTING" <=>
                                        catchers[j].exception # NoException

(* The catchers are exactly the TRY_CATCH frames on the stack, in order:   *)
(* a throw never jumps into a frame that has returned, and always finds a  *)
(* catcher, since main's accepts every reason.                             *)
JumpTargetsLive ==
    /\ \A j \in DOMAIN catchers : catchers[j].buf \in DOMAIN stack
    /\ \A i, j \in DOMAIN catchers : i < j => catchers[i].buf < catchers[j].buf
    /\ \A i \in DOMAIN stack :
          stack[i].at \in Tries <=> \E j \in DOMAIN catchers :
                                       catchers[j].buf = i
    /\ stack # <<>> => catchers # <<>>

Chains == [j \in DOMAIN catchers |-> catchers[j].saved_cleanup_chain]

(* A cleanup is in one place: pending once, or running, never both, so it  *)
(* runs and its argument is freed at most once, even when a cleanup        *)
(* function throws or runs do_cleanups itself.                             *)
CleanupsOnce ==
    LET all == Append(Chains, cleanup_chain)
    IN  /\ \A j, k \in DOMAIN all : \A m \in DOMAIN all[j], n \in DOMAIN all[k] :
              all[j][m] = all[k][n] => j = k /\ m = n
        /\ \A j \in DOMAIN all : Held(all[j]) \cap RunningFunctions = {}

(* Catchers and chain together implement the scopes of CleanupScopes. *)
Scopes == INSTANCE CleanupScopes
    WITH scopes <- [j \in 1 .. Len(catchers) + 1 |->
                      IF j <= Len(catchers)
                      THEN [pending |-> catchers[j].saved_cleanup_chain,
                            ui |-> catchers[j].saved_uiout]
                      ELSE [pending |-> cleanup_chain, ui |-> uiout]],
         thrown <- catchers # <<>> /\ Current.state = "ABORTING"
ImplementsScopes == Scopes!SSpec

(* The text of an error is in exception.message when the handler gets it,  *)
(* as exceptions.h says of GENERIC_ERROR.                                  *)
MessageLive == caught.message # "freed"
=============================================================================
