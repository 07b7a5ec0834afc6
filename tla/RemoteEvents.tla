---------------------------- MODULE RemoteEvents ----------------------------
(***************************************************************************)
(* The event loop with its users when a remote target runs asynchronously: *)
(* stdin and the commands it starts (gdb/event-top.c), the serial device   *)
(* with the ASYNC state machine of gdb/ser-base.c and gdb/serial.c, and    *)
(* the remote target that hands stdin and SIGINT to the inferior and back  *)
(* (gdb/remote.c, gdb/inf-loop.c).                                         *)
(*                                                                         *)
(* remote_desc is the only serial line that is ever put in ASYNC mode.  A  *)
(* command is what it does to the device, the terminal and the loop.  The  *)
(* input, the signals and the other end of the line are the environment.   *)
(***************************************************************************)
EXTENDS EventLoop

CONSTANTS MaxTyped,    \* the characters that are ever typed
          MaxReceived, \* those that ever arrive from the remote side
          MaxSignals,  \* the signals that ever arrive
          MaxWaiting   \* characters the kernel holds for one descriptor

ASSUME RemoteEventsAssumption ==
    /\ Fds = {"stdin", "dev"}
    /\ Tokens = {"remote", "int", "fpe"}
    /\ MaxTyped \in Nat /\ MaxReceived \in Nat /\ MaxSignals \in Nat
    /\ MaxWaiting \in Nat \ {0}

VARIABLES dev,       \* remote_desc: the struct serial
          term,      \* who owns stdin and SIGINT
          quit_flag, \* a SIGINT asks the command to unwind
          stranded,  \* history: ready handlers an exception left unmarked
          budget     \* what the environment may still do

vars == <<pc, timer_ptr, notifier, queue, signals, input, hung, dev, term,
          quit_flag, stranded, budget>>

(* enum serial_rc, and async_state: a timer id, or one of these two.       *)
SERIAL_ERROR      == -1
SERIAL_EOF        == -3
FD_SCHEDULED      == -1
NOTHING_SCHEDULED == -2

Devices == [open : BOOLEAN,   \* FALSE: closed and freed
            tty : BOOLEAN,    \* reads of a terminal line do not block
            async : BOOLEAN,  \* async_handler is set
            state : {FD_SCHEDULED, NOTHING_SCHEDULED} \union Nat,
            bufcnt : {SERIAL_ERROR, SERIAL_EOF} \union 0..MaxWaiting]

(* Before the first connection and after do_serial_close.                  *)
NoDevice == [open |-> FALSE, tty |-> FALSE, async |-> FALSE,
             state |-> NOTHING_SCHEDULED, bufcnt |-> 0]

Places == {"check", "check2", "pollTimers", "wait", "poll", "invoke",
           "timers", "stdin", "dev", "error", "command", "client", "getpkt",
           "packet", "reschedule", "exit", "quit", "crashed"}

TypeOK ==
    /\ LoopTypeOK
    /\ pc \in Places
    /\ dev \in Devices
    /\ term \in [sync : BOOLEAN,  \* sync_execution
                 ours : BOOLEAN]  \* remote_async_terminal_ours_p
    /\ quit_flag \in BOOLEAN
    /\ stranded \subseteq Tokens
    /\ budget \in [input : [Fds -> Nat], signals : 0..MaxSignals]

Init ==
    /\ LoopInit(<<"stdin">>)
    /\ dev = NoDevice
    /\ term = [sync |-> FALSE, ours |-> TRUE]
    /\ quit_flag = FALSE
    /\ stranded = {}
    /\ budget = [input |-> [f \in Fds |-> IF f = "stdin" THEN MaxTyped
                                                         ELSE MaxReceived],
                 signals |-> MaxSignals]

(***************************************************************************)
(* The serial line.  Most of its operations change the device and the      *)
(* notifier, so they map one such pair to the next.                        *)
(***************************************************************************)
Pair == [d |-> dev, n |-> notifier]
Moves(p, state, n) == [d |-> [p.d EXCEPT !.state = state], n |-> n]

ToTimer(p, n) == LET id == NewTimer(n)
                 IN Moves(p, id, create_timer(n, id))
ToFd(p, n) == Moves(p, FD_SCHEDULED, add_file_handler(n, "dev"))

(* Mutant: the descriptor stays with the loop beside the timer. *)
rescheduleOnBoth(p) ==
    CASE ~p.d.async -> p
      [] p.d.async /\ p.d.state = FD_SCHEDULED ->
            IF p.d.bufcnt = 0 THEN p ELSE ToTimer(p, p.n)
      [] p.d.async /\ p.d.state = NOTHING_SCHEDULED ->
            IF p.d.bufcnt = 0 THEN ToFd(p, p.n) ELSE ToTimer(p, p.n)
      [] OTHER ->
            IF p.d.bufcnt = 0 THEN ToFd(p, delete_timer(p.n, p.d.state))
            ELSE p

(* Mutant: the client is told of what was read ahead once, not again. *)
rescheduleOnce(p) ==
    CASE ~p.d.async -> p
      [] p.d.async /\ p.d.state = NOTHING_SCHEDULED -> ToFd(p, p.n)
      [] OTHER ->
            IF p.d.bufcnt = 0 \/ p.d.state # FD_SCHEDULED THEN p
            ELSE ToTimer(p, delete_file_handler(p.n, "dev"))

reschedule(p) ==
    CASE ~p.d.async -> p
      [] p.d.async /\ p.d.state = FD_SCHEDULED ->
            IF p.d.bufcnt = 0 THEN p
            ELSE ToTimer(p, delete_file_handler(p.n, "dev"))
      [] p.d.async /\ p.d.state = NOTHING_SCHEDULED ->
            IF p.d.bufcnt = 0 THEN ToFd(p, p.n) ELSE ToTimer(p, p.n)
      [] OTHER ->
            IF p.d.bufcnt = 0 THEN ToFd(p, delete_timer(p.n, p.d.state))
            ELSE p

(* ser_base_async, called by serial_async only on a change of mode.        *)
(* Mutant: a timer survives the change to synchronous mode. *)
DescheduledFdOnly(p) ==
    IF p.d.state = FD_SCHEDULED THEN delete_file_handler(p.n, "dev") ELSE p.n

Descheduled(p) ==
    CASE p.d.state = FD_SCHEDULED      -> delete_file_handler(p.n, "dev")
      [] p.d.state = NOTHING_SCHEDULED -> p.n
      [] OTHER                         -> delete_timer(p.n, p.d.state)

serial_async(p, on) ==
    CASE p.d.async = on -> p
      [] on /\ ~p.d.async ->
            reschedule([p EXCEPT !.d = [@ EXCEPT !.async = TRUE,
                                          !.state = NOTHING_SCHEDULED]])
      [] OTHER -> [d |-> [p.d EXCEPT !.async = FALSE], n |-> Descheduled(p)]

(* do_serial_close frees the device; whoever held it now holds a dangling  *)
(* pointer, and target_async and pop_target reach another target.          *)
serial_close(p) == [d |-> NoDevice, n |-> serial_async(p, FALSE).n]

Becomes(p) == dev' = p.d /\ notifier' = p.n

(***************************************************************************)
(* The terminal.  Both functions of remote.c look at sync_execution, and   *)
(* do nothing once the remote target is off the target stack.              *)
(***************************************************************************)
Recovered(t, open) == t.sync /\ ~t.ours /\ open

(* target_terminal_ours, as print_flush and async_enable_stdin call it.    *)
OursNotifier(n, t, open) ==
    IF Recovered(t, open) THEN add_file_handler(n, "stdin") ELSE n
OursTerm(t, open) == IF Recovered(t, open) THEN [t EXCEPT !.ours = TRUE] ELSE t

(* An exception that reaches start_event_loop: throw_exception clears      *)
(* quit_flag, print_flush and async_enable_stdin take the terminal back.   *)
(* Mutant: the error message does not take the terminal back. *)
ToTopLevelDetached(p) ==
    /\ Becomes(p)
    /\ term' = [term EXCEPT !.sync = FALSE]
    /\ quit_flag' = FALSE
    /\ pc' = "check"

ToTopLevel(p) ==
    /\ dev' = p.d
    /\ notifier' = OursNotifier(p.n, term, p.d.open)
    /\ term' = [OursTerm(term, p.d.open) EXCEPT !.sync = FALSE]
    /\ quit_flag' = FALSE
    /\ pc' = "check"

(***************************************************************************)
(* stdin_event_handler reads a character; at the end of a line             *)
(* command_handler clears quit_flag and runs the command.  A command is    *)
(* one of: connect, disconnect, a resumption in the background, a          *)
(* synchronous one, an exchange of packets, an error, quit.                *)
(***************************************************************************)
Typed == /\ input' = [input EXCEPT !["stdin"] = @ - 1]
         /\ UNCHANGED <<timer_ptr, notifier, queue, signals, hung, dev, term,
                        stranded, budget>>

stdin_event_handler ==
    /\ pc = "stdin"
    /\ input["stdin"] > 0
    /\ Typed
    /\ \/ pc' = "check" /\ UNCHANGED quit_flag
       \/ pc' = "command" /\ quit_flag' = FALSE

LineUp   == UNCHANGED <<input, hung>>
LineDown == /\ input' = [input EXCEPT !["dev"] = 0]
            /\ hung' = hung \ {"dev"}
Rest     == UNCHANGED <<timer_ptr, queue, signals, stranded, budget>>

remote_open ==
    /\ pc = "command" /\ ~dev.open
    /\ \E tty \in BOOLEAN :
          dev' = [NoDevice EXCEPT !.open = TRUE, !.tty = tty]
    /\ term' = [term EXCEPT !.ours = TRUE]
    /\ pc' = "check"
    /\ LineUp /\ Rest
    /\ UNCHANGED <<notifier, quit_flag>>

remote_disconnect ==
    /\ pc = "command" /\ dev.open /\ ~term.sync
    /\ Becomes(serial_close(Pair))
    /\ pc' = "check"
    /\ LineDown /\ Rest
    /\ UNCHANGED <<term, quit_flag>>

(* The end of remote_resume registers the target with the event loop.      *)
remote_resume ==
    /\ pc = "command" /\ dev.open /\ ~dev.async
    /\ Becomes(serial_async(Pair, TRUE))
    /\ pc' = "check"
    /\ LineUp /\ Rest
    /\ UNCHANGED <<term, quit_flag>>

async_disable_stdin ==
    /\ pc = "command" /\ dev.open /\ ~dev.async /\ ~term.sync
    /\ term' = [sync |-> TRUE, ours |-> FALSE]
    /\ notifier' = delete_file_handler(notifier, "stdin")
    /\ LineUp /\ Rest
    /\ UNCHANGED <<pc, dev, quit_flag>>

CommandDone ==
    /\ pc = "command" /\ ~term.sync
    /\ pc' \in {"check", "quit"}
    /\ LineUp /\ Rest
    /\ UNCHANGED <<notifier, dev, term, quit_flag>>

CommandFails ==
    /\ pc = "command"
    /\ ToTopLevel(Pair)
    /\ LineUp /\ Rest

(***************************************************************************)
(* generic_readchar, from a command or from the client of the device: the  *)
(* read-ahead buffer, else all that the kernel holds, then reschedule.     *)
(* With nothing to read it waits.  An end of file or an error sticks;      *)
(* readchar of remote.c mourns the target on the first and throws on both. *)
(*                                                                         *)
(* The client reads in getpkt until it has a packet that is complete, is   *)
(* not garbled and is not one that remote_wait passes over ('F', an empty  *)
(* or unknown reply).  It waits for the start of a packet without a        *)
(* timeout, and a packet that breaks off in the middle makes it wait for   *)
(* the start of the next: at getpkt any number of characters may not do.   *)
(* What it reads after its packet are the answers to requests of its own.  *)
(***************************************************************************)
(* Mutant: a character is counted twice. *)
BufferedLess(p, n) == [p EXCEPT !.d.bufcnt = n - 1]
Buffered(p, n) == [p EXCEPT !.d.bufcnt = n]
Reading == pc \in {"command", "client", "getpkt", "packet"} /\ dev.open
AfterRead(p) == IF p \in {"command", "packet"} THEN {p}
                                               ELSE {"getpkt", "packet"}

ReadBuffered ==
    /\ Reading /\ dev.bufcnt > 0
    /\ Becomes(reschedule(Buffered(Pair, dev.bufcnt - 1)))
    /\ pc' \in AfterRead(pc)
    /\ LineUp /\ Rest
    /\ UNCHANGED <<term, quit_flag>>

ReadKernel ==
    /\ Reading /\ dev.bufcnt = 0 /\ input["dev"] > 0
    /\ Becomes(reschedule(Buffered(Pair, input["dev"] - 1)))
    /\ input' = [input EXCEPT !["dev"] = 0]
    /\ pc' \in AfterRead(pc)
    /\ Rest
    /\ UNCHANGED <<hung, term, quit_flag>>

(* The client runs under catch_errors: the message takes the terminal back *)
(* if the target is still there, then the target is closed.                *)
ClientFails(p) ==
    LET printed == [p EXCEPT !.n = OursNotifier(p.n, term, p.d.open)]
    IN /\ Becomes(IF p.d.open THEN serial_close(printed) ELSE printed)
       /\ term' = [OursTerm(term, p.d.open) EXCEPT !.sync = FALSE]
       /\ quit_flag' = FALSE
       /\ pc' = "reschedule"
       /\ LineDown

ReadFails ==
    /\ Reading
    /\ \/ dev.bufcnt < 0
       \/ dev.bufcnt = 0 /\ input["dev"] = 0 /\ "dev" \in hung
    /\ LET rc     == IF dev.bufcnt < 0 THEN dev.bufcnt ELSE SERIAL_EOF
           read   == reschedule(Buffered(Pair, rc))
           mourned == IF rc = SERIAL_EOF THEN serial_close(read) ELSE read
       IN IF pc = "command"
          THEN ToTopLevel(mourned) /\ IF rc = SERIAL_EOF THEN LineDown
                                                         ELSE LineUp
          ELSE ClientFails(mourned)
    /\ Rest

(***************************************************************************)
(* fd_event, push_event.  read_prim of a terminal line returns 0 when      *)
(* there is nothing, which reads as the end of the file; of a socket or a  *)
(* pipe it blocks.                                                         *)
(***************************************************************************)
NothingToRead == input["dev"] = 0 /\ "dev" \notin hung

fd_event ==
    /\ pc = "dev"
    /\ NothingToRead => dev.tty \/ dev.bufcnt # 0
    /\ dev' = [dev EXCEPT !.bufcnt =
                 IF @ # 0 THEN @
                 ELSE IF input["dev"] > 0 THEN input["dev"] ELSE SERIAL_EOF]
    /\ input' = [input EXCEPT !["dev"] = IF dev.bufcnt = 0 THEN 0 ELSE @]
    /\ pc' = "client"
    /\ Rest
    /\ UNCHANGED <<notifier, hung, term, quit_flag>>

fd_event_error ==
    /\ pc = "error"
    /\ dev' = [dev EXCEPT !.bufcnt = SERIAL_ERROR]
    /\ pc' = "client"
    /\ LineUp /\ Rest
    /\ UNCHANGED <<notifier, term, quit_flag>>

push_event ==
    /\ pc = "timers"
    /\ timer_ptr # <<>>
    /\ timer_ptr' = Tail(timer_ptr)
    /\ notifier' = [notifier EXCEPT !.timers = Tail(@)]
    /\ dev' = [dev EXCEPT !.state = NOTHING_SCHEDULED]
    /\ pc' = "client"
    /\ LineUp
    /\ UNCHANGED <<queue, signals, stranded, budget, term, quit_flag>>

(* Both end with reschedule (scb), a pointer that is dangling by now if    *)
(* the client has closed the device: the outcome is undefined.  Back in    *)
(* handle_timer_event, which has nothing left to do after fd_event.        *)
EventEnds ==
    /\ pc = "reschedule"
    /\ IF dev.open THEN Becomes(reschedule(Pair)) /\ pc' = "timers"
       ELSE UNCHANGED <<dev, notifier>> /\ pc' \in {"timers", "crashed"}
    /\ LineUp /\ Rest
    /\ UNCHANGED <<term, quit_flag>>

(***************************************************************************)
(* The client, remote_async_serial_handler: inferior_event_handler fetches *)
(* one packet.  Console output leaves everything as it is; a stop takes    *)
(* the terminal back and the target out of ASYNC mode, and its breakpoint  *)
(* commands may resume it, synchronously; an exit mourns the target; an    *)
(* error or a QUIT drops it.                                               *)
(***************************************************************************)
ConsoleOutput ==
    /\ pc = "packet"
    /\ pc' = "reschedule"
    /\ LineUp /\ Rest
    /\ UNCHANGED <<notifier, dev, term, quit_flag>>

Back(p) == [p EXCEPT !.n = OursNotifier(p.n, term, TRUE)]

Stopped ==
    /\ pc = "packet"
    /\ Becomes(serial_async(Back(Pair), FALSE))
    /\ term' = [sync |-> FALSE, ours |-> TRUE]
    /\ pc' = "reschedule"
    /\ LineUp /\ Rest
    /\ UNCHANGED quit_flag

StoppedAndResumed ==
    /\ pc = "packet"
    /\ LET stopped == serial_async(Back(Pair), FALSE)
           given   == [stopped EXCEPT !.n = delete_file_handler(@, "stdin")]
       IN Becomes(serial_async(given, TRUE))
    /\ term' = [sync |-> TRUE, ours |-> FALSE]
    /\ pc' = "reschedule"
    /\ LineUp /\ Rest
    /\ UNCHANGED quit_flag

Exited ==
    /\ pc = "packet"
    /\ Becomes(serial_close(Back(Pair)))
    /\ term' = [sync |-> FALSE, ours |-> TRUE]
    /\ pc' = "reschedule"
    /\ LineDown /\ Rest
    /\ UNCHANGED quit_flag

ClientThrows ==
    /\ pc = "packet"
    /\ ClientFails(Pair)
    /\ Rest

(***************************************************************************)
(* One ready signal handler.  async_request_quit throws if quit_flag is    *)
(* still set, async_float_handler always; the throw leaves the other ready *)
(* handlers behind with async_handler_ready cleared.                       *)
(***************************************************************************)
Throws(s) == \/ s = "fpe"
             \/ s = "int" /\ quit_flag

InvokeNext ==
    /\ pc = "invoke"
    /\ signals.ready # {}
    /\ signals' = Unready(FirstReady)
    /\ IF Throws(FirstReady)
       THEN /\ ToTopLevel(Pair)
            /\ stranded' = IF signals.flag THEN {} ELSE signals'.ready
       ELSE UNCHANGED <<pc, notifier, dev, term, quit_flag, stranded>>
    /\ LineUp
    /\ UNCHANGED <<timer_ptr, queue, budget>>

GdbStep == \/ LoopStep /\ UNCHANGED <<dev, term, quit_flag, stranded, budget>>
           \/ stdin_event_handler
           \/ remote_open \/ remote_disconnect
           \/ async_disable_stdin \/ remote_resume
           \/ CommandDone \/ CommandFails
           \/ ReadBuffered \/ ReadKernel \/ ReadFails
           \/ fd_event \/ fd_event_error \/ push_event \/ EventEnds
           \/ ConsoleOutput \/ Stopped \/ StoppedAndResumed \/ Exited
           \/ ClientThrows
           \/ InvokeNext

(***************************************************************************)
(* The environment.  handle_sigint sets quit_flag and marks its token;     *)
(* while the inferior has the terminal handle_remote_sigint is installed   *)
(* instead.                                                                *)
(***************************************************************************)
Halted == pc \in {"exit", "quit", "crashed"}

Signal(s) ==
    /\ ~Halted
    /\ budget.signals > 0
    /\ budget' = [budget EXCEPT !.signals = @ - 1]
    /\ stranded' = {}
    /\ Interrupt(s)
    /\ UNCHANGED <<dev, term>>

handle_sigint ==
    IF term.ours THEN Signal("int") /\ quit_flag' = TRUE
                 ELSE Signal("remote") /\ UNCHANGED quit_flag
handle_sigfpe == Signal("fpe") /\ UNCHANGED quit_flag

Arrives(f) ==
    /\ ~Halted
    /\ f = "dev" => dev.open /\ f \notin hung
    /\ input[f] < MaxWaiting /\ budget.input[f] > 0
    /\ input' = [input EXCEPT ![f] = @ + 1]
    /\ budget' = [budget EXCEPT !.input[f] = @ - 1]
    /\ UNCHANGED <<pc, timer_ptr, notifier, queue, signals, hung, dev, term,
                   quit_flag, stranded>>

HangsUp ==
    /\ ~Halted
    /\ dev.open
    /\ "dev" \notin hung
    /\ hung' = hung \union {"dev"}
    /\ UNCHANGED <<pc, timer_ptr, notifier, queue, signals, input, dev, term,
                   quit_flag, stranded, budget>>

Environment == \/ handle_sigint
               \/ handle_sigfpe
               \/ \E f \in Fds : Arrives(f)
               \/ HangsUp

Next == GdbStep \/ Environment
Spec == Init /\ [][Next]_vars

(* gdb's one thread keeps running (start_event_loop never pauses by        *)
(* itself); nobody owes it input or signals.                               *)
FairSpec == Spec /\ WF_vars(GdbStep)

-----------------------------------------------------------------------------
(* The state machine of ser-base.c and the loop agree on what is scheduled *)
(* for the device: its file handler, the one timer that async_state names, *)
(* or nothing, and that only while push_event runs the client.             *)
ScheduleAgrees ==
    LET onFd == Registered(notifier, "dev")
        ids  == notifier.timers
    IN IF ~dev.async THEN ~onFd /\ ids = <<>>
       ELSE CASE dev.state = FD_SCHEDULED -> onFd /\ ids = <<>>
              [] dev.state = NOTHING_SCHEDULED ->
                     /\ ~onFd /\ ids = <<>>
                     /\ pc = "client"
              [] OTHER -> ~onFd /\ ids = <<dev.state>>

(* A descriptor whose ready_mask is set has its event in the queue: else   *)
(* gdb_wait_for_event would never queue another and it would be deaf.      *)
NoDeafDescriptor ==
    \A f \in Fds : notifier.ready[f] # "none" =>
        Registered(notifier, f) /\ f \in {queue[i] : i \in 1..Len(queue)}

(* While the remote target is there, stdin is with the loop exactly when   *)
(* gdb has the terminal, and gdb gives it up only for synchronous          *)
(* execution.                                                              *)
TerminalAgrees ==
    dev.open => /\ Registered(notifier, "stdin") <=> term.ours
                /\ term.ours \/ term.sync

(* A handler that is ready is found: the flag that process_event looks at  *)
(* is set, or the handlers are being run, or an exception left it behind.  *)
MarksKept == signals.ready \subseteq stranded \/ signals.flag \/ pc = "invoke"

(* Characters that were read ahead reach the reader: as long as the device *)
(* is open, no event, error or change of mode overwrites them.             *)
ReadAheadKept ==
    [][dev.open /\ dev'.open /\ dev.bufcnt > 0 =>
           dev'.bufcnt \in {dev.bufcnt, dev.bufcnt - 1}]_vars

(* gdb's thread is in a read that blocks, and nothing is there: fd_event's *)
(* of a line that was found readable and is not, or the client's in        *)
(* getpkt, which no signal ends.                                           *)
Stuck == /\ NothingToRead /\ dev.bufcnt = 0
         /\ pc = "getpkt" \/ (pc = "dev" /\ ~dev.tty)

(* The other end of the line never leaves gdb in such a read for good.     *)
LineGoesOn == []<>~Stuck

(* What is typed while stdin is with the loop is read, unless the terminal *)
(* goes to the inferior, gdb stops running its loop, or is left in a read. *)
StdinServed ==
    LineGoesOn =>
        (input["stdin"] > 0 /\ Registered(notifier, "stdin")) ~>
            (input["stdin"] = 0 \/ ~Registered(notifier, "stdin") \/ Halted)

(* Input, read-ahead characters, an error or a hangup of an ASYNC device   *)
(* reach its client, unless something reads or closes the device before.   *)
DevicePending == dev.async /\ (dev.bufcnt # 0 \/ input["dev"] > 0
                                              \/ "dev" \in hung)
ClientNotified ==
    DevicePending ~> (pc = "client" \/ ~DevicePending \/ Halted)

(* A signal that arrives outside the stretch between the last look at the  *)
(* flag and the call of poll has its handler run, or left behind by a      *)
(* throw, unless gdb halts or is left in a read: its handlers only mark    *)
(* what the loop is to call, and the read goes on after one.               *)
BeforePoll == pc \in {"pollTimers", "wait", "poll"}
SignalsServed ==
    \A s \in {"remote", "int", "fpe"} :
        LineGoesOn =>
            (s \in signals.ready \ stranded /\ ~BeforePoll) ~>
                (s \notin signals.ready \ stranded \/ Halted)

-----------------------------------------------------------------------------
(* What comments of the code say, and what it does not do.                 *)

(* event-top.c, async_enable_stdin: stdin is enabled again after the end   *)
(* of synchronous execution or after an error from the target.             *)
StdinEnabledAgain ==
    (pc = "check" /\ ~term.sync) => Registered(notifier, "stdin")

(* remote.c, remote_wait: in async mode gdb should never wait for ever.    *)
NeverWaitsForEver == (dev.async /\ pc = "getpkt") ~> pc # "getpkt"

(* gdb_do_one_event: the loop ends when there are no event sources left.   *)
EndsWithoutSources == pc = "exit" => notifier.timers = <<>> /\ queue = <<>>

(* ser-base.c: fd_event reads as soon as data arrives.                     *)
ReadsWhatArrived == ~(pc = "dev" /\ dev.bufcnt = 0 /\ NothingToRead)

(* ser-base.c: the client may close the device in its callback.            *)
DeviceOutlivesEvent == pc = "reschedule" => dev.open

(* event-loop.c: async_handler_ready says whether a handler is ready.      *)
FlagTellsReady == (pc = "check" /\ signals.ready # {}) => signals.flag
=============================================================================
