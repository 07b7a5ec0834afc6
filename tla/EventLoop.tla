----------------------------- MODULE EventLoop -----------------------------
(***************************************************************************)
(* The event loop of gdb/event-loop.c: the notifier with its file handlers *)
(* and timers, the event queue, the signal handlers that only mark what is *)
(* to be run, and the steps of gdb_do_one_event.  What the handlers do is  *)
(* left to the module that composes the loop with its users.               *)
(*                                                                         *)
(* gdb is one thread; what happens between its steps is the arrival of     *)
(* input and of signals.  Every timer of this program has a delay of zero  *)
(* (gdb/ser-base.c holds the only calls of create_timer), so timers are in *)
(* order of creation and one in the list is due: there is no clock.        *)
(***************************************************************************)
EXTENDS Integers, Sequences, SequencesExt, FiniteSets

CONSTANTS Fds,     \* the descriptors that may have a file handler
          Signals  \* sighandler_list, in its order

ASSUME EventLoopAssumption == Signals \in Seq(STRING)

Tokens == {Signals[i] : i \in 1..Len(Signals)}
Timer  == "timer"  \* the event that runs handle_timer_event
ASSUME TimerAssumption == Timer \notin Fds

VARIABLES pc,        \* where the one thread is
          timer_ptr, \* handle_timer_event: the timers it still has to run
          notifier,  \* gdb_notifier and timer_list
          queue,     \* event_queue
          signals,   \* the ready flags and async_handler_ready
          input,     \* characters that wait in the kernel
          hung       \* descriptors whose other end is gone

loopVars == <<pc, timer_ptr, notifier, queue, signals, input, hung>>

LoopTypeOK ==
    /\ timer_ptr \in Seq(Nat)
    /\ notifier \in [fds : Seq(Fds), ready : [Fds -> {"none", "in", "err"}],
                     timers : Seq(Nat)]
    /\ queue \in Seq(Fds \union {Timer})
    /\ signals \in [ready : SUBSET Tokens, flag : BOOLEAN]
    /\ input \in [Fds -> Nat]
    /\ hung \subseteq Fds

LoopInit(fds) ==
    /\ pc = "check"
    /\ timer_ptr = <<>>
    /\ notifier = [fds |-> fds, ready |-> [f \in Fds |-> "none"],
                   timers |-> <<>>]
    /\ queue = <<>>
    /\ signals = [ready |-> {}, flag |-> FALSE]
    /\ input = [f \in Fds |-> 0]
    /\ hung = {}

Registered(n, f) == f \in {n.fds[i] : i \in 1..Len(n.fds)}
TimerIds(n)      == {n.timers[i] : i \in 1..Len(n.timers)}

(***************************************************************************)
(* The notifier.  A handler that is registered again keeps its place and   *)
(* its ready_mask; one that is new starts with none.  delete_file_handler  *)
(* frees the handler, ready_mask included, and leaves the queue alone.     *)
(***************************************************************************)
add_file_handler(n, f) ==
    IF Registered(n, f) THEN n
    ELSE [n EXCEPT !.fds = Append(@, f), !.ready[f] = "none"]

(* Mutant: a handler registered again inherits the old ready_mask. *)
delete_file_handlerKeepsMask(n, f) ==
    IF Registered(n, f)
    THEN [n EXCEPT !.fds = RemoveFirst(@, f)]
    ELSE n

delete_file_handler(n, f) ==
    IF Registered(n, f)
    THEN [n EXCEPT !.fds = RemoveFirst(@, f),
                   !.ready[f] = "none"]
    ELSE n

(* num_timers only ever grows; an id is compared with live ones, so the    *)
(* least id that is free stands for a fresh one.                           *)
NewTimer(n) == CHOOSE id \in 1..Len(n.timers) + 1 :
                   /\ id \notin TimerIds(n)
                   /\ \A i \in 1..id-1 : i \in TimerIds(n)
create_timer(n, id) == [n EXCEPT !.timers = Append(@, id)]
delete_timer(n, id) == [n EXCEPT !.timers = RemoveFirst(@, id)]

(***************************************************************************)
(* Signals.  mark_async_signal_handler runs in the interrupt handler, so   *)
(* between any two steps of the thread; in poll it also ends the call with *)
(* EINTR, whatever else is ready.                                          *)
(***************************************************************************)
(* Mutant: the handler is marked and process_event not told. *)
MarkedSilently(s) == [signals EXCEPT !.ready = @ \union {s}]

Marked(s) == [ready |-> signals.ready \union {s}, flag |-> TRUE]

Interrupt(s) ==
    /\ signals' = Marked(s)
    /\ pc' = IF pc = "poll" THEN "check2" ELSE pc
    /\ UNCHANGED <<timer_ptr, notifier, queue, input, hung>>

(* process_event, twice in gdb_do_one_event: before and after the wait.    *)
(* invoke_async_signal_handler clears the flag and then runs every ready   *)
(* handler, from the head of the list after each one.                      *)
InvokeStart ==
    /\ pc \in {"check", "check2"}
    /\ signals.flag
    /\ signals' = [signals EXCEPT !.flag = FALSE]
    /\ pc' = "invoke"
    /\ UNCHANGED <<timer_ptr, notifier, queue, input, hung>>

FirstReady == Signals[CHOOSE i \in 1..Len(Signals) :
                         /\ Signals[i] \in signals.ready
                         /\ \A j \in 1..i-1 : Signals[j] \notin signals.ready]
Unready(s) == [signals EXCEPT !.ready = @ \ {s}]

(* Mutant: one handler is run for one look at the flag. *)
InvokeEndEarly ==
    /\ pc = "invoke"
    /\ pc' = "check"
    /\ UNCHANGED <<timer_ptr, notifier, queue, signals, input, hung>>

InvokeEnd ==
    /\ pc = "invoke"
    /\ signals.ready = {}
    /\ pc' = "check"
    /\ UNCHANGED <<timer_ptr, notifier, queue, signals, input, hung>>

(* The first event leaves the queue before its procedure is called, since  *)
(* the procedure may throw.  handle_file_event calls nothing for a         *)
(* descriptor whose handler is gone, or is new since the event was queued. *)
ProcOf(f) == IF ~Registered(notifier, f) THEN "check"
             ELSE CASE notifier.ready[f] = "in"  -> f
                    [] notifier.ready[f] = "err" -> "error"
                    [] OTHER                     -> "check"

(* Mutant: the received events are not cleared for the next time. *)
ClearedNot(n, f) == n
Cleared(n, f) == [n EXCEPT !.ready[f] = "none"]

ProcessEvent ==
    /\ pc \in {"check", "check2"}
    /\ ~signals.flag
    /\ queue # <<>>
    /\ queue' = Tail(queue)
    /\ \/ /\ Head(queue) = Timer
          /\ timer_ptr' = notifier.timers
          /\ pc' = "timers"
          /\ UNCHANGED notifier
       \/ /\ Head(queue) # Timer
          /\ pc' = ProcOf(Head(queue))
          /\ notifier' = Cleared(notifier, Head(queue))
          /\ UNCHANGED timer_ptr
    /\ UNCHANGED <<signals, input, hung>>

NothingQueued ==
    /\ pc \in {"check", "check2"}
    /\ ~signals.flag
    /\ queue = <<>>
    /\ pc' = IF pc = "check" THEN "pollTimers" ELSE "check"
    /\ UNCHANGED <<timer_ptr, notifier, queue, signals, input, hung>>

(* handle_timer_event after its last timer; what it does for each timer is *)
(* in the module of the timer procedures.                                  *)
TimersDone ==
    /\ pc = "timers"
    /\ timer_ptr = <<>>
    /\ pc' = "check"
    /\ UNCHANGED <<timer_ptr, notifier, queue, signals, input, hung>>

(***************************************************************************)
(* poll_timers, and gdb_wait_for_event in two steps: up to the call of     *)
(* poll, where gdb leaves the loop when no descriptor is registered, and   *)
(* poll itself, which does not wait when a timer is due.                   *)
(***************************************************************************)
poll_timers ==
    /\ pc = "pollTimers"
    /\ queue' = IF notifier.timers # <<>> THEN Append(queue, Timer) ELSE queue
    /\ pc' = "wait"
    /\ UNCHANGED <<timer_ptr, notifier, signals, input, hung>>

EnterWait ==
    /\ pc = "wait"
    /\ pc' = IF notifier.fds = <<>> THEN "exit" ELSE "poll"
    /\ UNCHANGED <<timer_ptr, notifier, queue, signals, input, hung>>

(* What poll may report of f: a hangup is an error on a pipe or a terminal *)
(* and input on a socket.                                                  *)
Revents(f) == CASE f \in hung   -> {"in", "err"}
                [] input[f] > 0 -> {"in"}
                [] OTHER        -> {"none"}

(* The walk over the file handlers: a descriptor gets an event only if its *)
(* handler has none outstanding.                                           *)
Due(n, found, f) == found[f] # "none" /\ n.ready[f] = "none"
Enqueued(n, found) ==
    LET upTo[k \in 0..Len(n.fds)] ==
            IF k = 0 THEN <<>>
            ELSE IF Due(n, found, n.fds[k]) THEN Append(upTo[k-1], n.fds[k])
            ELSE upTo[k-1]
    IN upTo[Len(n.fds)]

PollReturns ==
    /\ pc = "poll"
    /\ \E found \in [Fds -> {"none", "in", "err"}] :
          /\ \A f \in Fds : found[f] \in IF Registered(notifier, f)
                                         THEN Revents(f) ELSE {"none"}
          /\ notifier.timers # <<>> \/ \E f \in Fds : found[f] # "none"
          /\ queue' = queue \o Enqueued(notifier, found)
          /\ notifier' = [notifier EXCEPT !.ready =
                [f \in Fds |-> IF found[f] = "none" THEN @[f] ELSE found[f]]]
    /\ pc' = "check2"
    /\ UNCHANGED <<timer_ptr, signals, input, hung>>

LoopStep == \/ InvokeStart
            \/ InvokeEnd
            \/ ProcessEvent
            \/ NothingQueued
            \/ TimersDone
            \/ poll_timers
            \/ EnterWait
            \/ PollReturns
=============================================================================
