------------------------- MODULE RemoteEventsProofs -------------------------
(***************************************************************************)
(* Proofs about RemoteEvents, for any amount of input and any number of    *)
(* signals, connections and resumptions.                                   *)
(*                                                                         *)
(* None of the properties but MarksKept is inductive by itself.            *)
(* ScheduleAgrees depends on when the device is rescheduled: a buffer that *)
(* changes without reschedule leaves the line where it is, and the event   *)
(* of a line that is on its descriptor overwrites what was read ahead.     *)
(* IInv adds that between two calls of the client the line is Settled,     *)
(* what is scheduled being what the buffer calls for; that the loop calls  *)
(* handlers of registered descriptors only, which puts the line on its     *)
(* descriptor, and so its buffer at zero, whenever an error is reported;   *)
(* and that handle_timer_event never holds a timer that is not in the list.*)
(* It bounds the buffer by what the kernel holds, as the reads fill it.    *)
(*                                                                         *)
(* NoDeafDescriptor needs the steps that register and give up descriptors  *)
(* to be Spared: whoever gives one up frees its ready_mask.  They leave    *)
(* the queue alone, and the loop, which does not, clears a ready_mask as   *)
(* it takes the event and queues an event for each one that it sets; that  *)
(* the walk over the handlers misses none of them is AllEnqueued.          *)
(*                                                                         *)
(* The proof goes from the notifier (AddHandler to DeleteTimer) over the   *)
(* operations on the line (RescheduleFollows, AsyncGood, CloseGood) and    *)
(* the terminal (OursGood, TopLevelGood) to one lemma for each group of    *)
(* actions, and from there to the queue.                                   *)
(***************************************************************************)
EXTENDS RemoteEvents, SequenceTheorems, WellFoundedInduction, TLAPS

(* What is known of the notifier: a descriptor has one handler, and an     *)
(* error is never reported of stdin.                                       *)
Notifiers == [fds : Seq(Fds), ready : [Fds -> {"none", "in", "err"}],
              timers : Seq(Nat)]
Distinct(s) == \A i, j \in 1..Len(s) : s[i] = s[j] => i = j
NotifierGood(n) == /\ n \in Notifiers
                   /\ Distinct(n.fds)
                   /\ n.ready["stdin"] # "err"

(* A descriptor that has an event outstanding in m had it in n, and is     *)
(* still with the loop.                                                    *)
Spares(n, m) == \A f \in Fds : m.ready[f] # "none" =>
                    /\ n.ready[f] # "none"
                    /\ Registered(n, f) => Registered(m, f)

(* A device and the notifier agree on what is scheduled for it.            *)
Buffers == {SERIAL_ERROR, SERIAL_EOF} \union 0..MaxWaiting
Agrees(p) ==
    LET onFd == Registered(p.n, "dev")
        ids  == p.n.timers
    IN IF ~p.d.async THEN ~onFd /\ ids = <<>>
       ELSE CASE p.d.state = FD_SCHEDULED -> onFd /\ ids = <<>>
              [] p.d.state = NOTHING_SCHEDULED -> ~onFd /\ ids = <<>>
              [] OTHER -> ~onFd /\ ids = <<p.d.state>>
PairGood(p) == /\ p = [d |-> p.d, n |-> p.n]
               /\ p.d \in Devices /\ NotifierGood(p.n) /\ Agrees(p)
               /\ p.d.async => p.d.open

(* What is scheduled is what the read-ahead buffer calls for.              *)
Settled(d) == d.async => /\ d.state # NOTHING_SCHEDULED
                         /\ d.state = FD_SCHEDULED <=> d.bufcnt = 0

Terminals == [sync : BOOLEAN, ours : BOOLEAN]

(* A command other than the connection runs with stdin as TerminalAgrees   *)
(* says; with no target gdb always has it.                                 *)
StdinGood == /\ TerminalAgrees
             /\ pc = "stdin" \/ (pc = "command" /\ ~dev.open)
                   => Registered(notifier, "stdin")

SignalsGood == signals \in [ready : SUBSET Tokens, flag : BOOLEAN]

IInv == /\ input \in [Fds -> 0..MaxWaiting]
        /\ hung \subseteq {"dev"}
        /\ term \in Terminals
        /\ PairGood(Pair)
        /\ pc # "client" => Settled(dev)
        /\ pc \in {"dev", "error"} => Registered(notifier, "dev")
        /\ pc = "packet" => dev.open
        /\ timer_ptr # <<>> => pc = "timers" /\ timer_ptr = notifier.timers
        /\ StdinGood

(* No handler that is ready is lost sight of, whatever the rest does.      *)
LEMMA MarksStep ==
    SignalsGood /\ MarksKept /\ [Next]_vars => SignalsGood' /\ MarksKept'
<1> SUFFICES ASSUME SignalsGood, MarksKept, [Next]_vars
             PROVE  SignalsGood' /\ MarksKept'
  OBVIOUS
<1> USE DEF SignalsGood, MarksKept
<1>1. CASE LoopStep /\ UNCHANGED <<dev, term, quit_flag, stranded, budget>>
  <2>1. CASE InvokeStart
    BY <2>1, <1>1 DEF InvokeStart
  <2>2. CASE InvokeEnd
    BY <2>2, <1>1 DEF InvokeEnd
  <2>3. CASE ProcessEvent \/ NothingQueued \/ TimersDone \/ poll_timers
                \/ EnterWait \/ PollReturns
    BY <2>3, <1>1 DEF ProcessEvent, NothingQueued, TimersDone, poll_timers,
                      EnterWait, PollReturns
  <2> QED
    BY <1>1, <2>1, <2>2, <2>3 DEF LoopStep
<1>2. CASE InvokeNext
  BY <1>2 DEF InvokeNext, Unready, Throws, ToTopLevel
<1>3. CASE \/ stdin_event_handler \/ remote_open \/ remote_disconnect
           \/ async_disable_stdin \/ remote_resume \/ CommandDone
           \/ CommandFails
  BY <1>3 DEF stdin_event_handler, remote_open, remote_disconnect, Typed, Rest,
              async_disable_stdin, remote_resume, CommandDone, CommandFails,
              ToTopLevel
<1>4. CASE \/ ReadBuffered \/ ReadKernel \/ ReadFails \/ fd_event
           \/ fd_event_error \/ push_event \/ EventEnds
  BY <1>4 DEF ReadBuffered, ReadKernel, ReadFails, fd_event, fd_event_error,
              push_event, EventEnds, Reading, Rest
<1>5. CASE \/ ConsoleOutput \/ Stopped \/ StoppedAndResumed \/ Exited
           \/ ClientThrows
  BY <1>5 DEF ConsoleOutput, Stopped, StoppedAndResumed, Exited, ClientThrows,
              Rest
<1>6. CASE handle_sigint \/ handle_sigfpe
  <2>1. PICK s \in {"remote", "int", "fpe"} : Signal(s)
    BY <1>6 DEF handle_sigint, handle_sigfpe
  <2>2. signals' = [ready |-> signals.ready \union {s}, flag |-> TRUE]
    BY <2>1 DEF Signal, Interrupt, Marked
  <2> QED
    BY <2>1, <2>2, RemoteEventsAssumption
<1>7. CASE (\E f \in Fds : Arrives(f)) \/ HangsUp \/ UNCHANGED vars
  BY <1>7 DEF Arrives, HangsUp, vars
<1> QED
  BY <1>1, <1>2, <1>3, <1>4, <1>5, <1>6, <1>7 DEF Next, GdbStep, Environment

(* r is s without its element x.                                           *)
IsWithout(r, s, x, S) ==
    /\ r \in Seq(S)
    /\ Distinct(r)
    /\ Len(r) = Len(s) - 1
    /\ \A e : (\E i \in 1..Len(r) : r[i] = e)
                   <=> e # x /\ \E i \in 1..Len(s) : s[i] = e

(* RemoveFirst takes one element out of a sequence of distinct ones.       *)
LEMMA RemoveFirstDistinct ==
    ASSUME NEW S, NEW s \in Seq(S), NEW x, Distinct(s),
           \E i \in 1..Len(s) : s[i] = x
    PROVE  IsWithout(RemoveFirst(s, x), s, x, S)
<1>k. PICK k \in 1..Len(s) : s[k] = x
  OBVIOUS
<1> DEFINE I == {i \in 1..Len(s) : s[i] = x}
<1> DEFINE a == SubSeq(s, 1, k-1)
<1> DEFINE b == SubSeq(s, k+1, Len(s))
<1>len. Len(s) \in Nat
  BY LenProperties
<1>1. I = {k}
  BY <1>k DEF Distinct
<1>2. SelectInSeq(s, LAMBDA v : v = x) = k
  <2>1. SelectInSeq(s, LAMBDA v : v = x) = IF I # {} THEN Min(I) ELSE 0
    BY DEF SelectInSeq
  <2>2. Min({k}) = k
    BY <1>len DEF Min
  <2> QED
    BY <2>1, <2>2, <1>1
<1>3. RemoveFirst(s, x) = a \o b
  BY <1>2, <1>k DEF RemoveFirst, RemoveAt
<1>4. /\ a \in Seq(S) /\ Len(a) = k-1
      /\ \A i \in 1..k-1 : a[i] = s[i]
  BY <1>len, SubSeqProperties, LenProperties, ElementOfSeq
<1>5. /\ b \in Seq(S) /\ Len(b) = Len(s) - k
      /\ \A i \in 1..Len(s)-k : b[i] = s[k+i]
  <2>1. \A i \in k+1..Len(s) : s[i] \in S
    BY <1>len, LenProperties, ElementOfSeq
  <2>2. k+1 \in Int /\ Len(s) \in Int
    BY <1>len
  <2>3. /\ b \in Seq(S)
        /\ Len(b) = IF k+1 <= Len(s) THEN Len(s)-(k+1)+1 ELSE 0
        /\ \A i \in 1 .. Len(s)-(k+1)+1 : b[i] = s[(k+1)+i-1]
    BY <2>1, <2>2, SubSeqProperties
  <2> QED
    BY <2>3, <1>len
<1>6. /\ a \o b \in Seq(S) /\ Len(a \o b) = Len(s) - 1
      /\ \A i \in 1..Len(s)-1 :
            (a \o b)[i] = IF i < k THEN s[i] ELSE s[i+1]
  <2> HIDE DEF a, b
  <2>1. /\ a \o b \in Seq(S) /\ Len(a \o b) = Len(a) + Len(b)
        /\ \A i \in 1..Len(a) + Len(b) :
              (a \o b)[i] = IF i <= Len(a) THEN a[i] ELSE b[i - Len(a)]
    BY <1>4, <1>5, ConcatProperties
  <2> QED
    BY <2>1, <1>4, <1>5, <1>len
<1> DEFINE r == RemoveFirst(s, x)
<1>7. /\ r \in Seq(S) /\ Len(r) = Len(s) - 1
      /\ \A i \in 1..Len(s)-1 : r[i] = IF i < k THEN s[i] ELSE s[i+1]
  BY <1>3, <1>6
<1> HIDE DEF r
<1>8. Distinct(r)
  BY <1>7, <1>len DEF Distinct
<1>9. ASSUME NEW e
      PROVE  (\E i \in 1..Len(r) : r[i] = e)
                 <=> e # x /\ \E i \in 1..Len(s) : s[i] = e
  <2>1. ASSUME NEW i \in 1..Len(r), r[i] = e
        PROVE  e # x /\ \E j \in 1..Len(s) : s[j] = e
    <3> DEFINE j == IF i < k THEN i ELSE i+1
    <3>1. j \in 1..Len(s) /\ j # k /\ s[j] = e
      BY <2>1, <1>7, <1>len
    <3> QED
      BY <3>1, <1>k DEF Distinct
  <2>2. ASSUME e # x, NEW j \in 1..Len(s), s[j] = e
        PROVE  \E i \in 1..Len(r) : r[i] = e
    <3> DEFINE i == IF j < k THEN j ELSE j-1
    <3>1. i \in 1..Len(r) /\ r[i] = e
      BY <2>2, <1>7, <1>len, <1>k
    <3> QED
      BY <3>1
  <2> QED
    BY <2>1, <2>2
<1> QED
  BY <1>7, <1>8, <1>9 DEF r, IsWithout

(* No descriptor goes deaf in two steps that each see to that.             *)
LEMMA SparesBoth ==
    ASSUME NEW n, NEW m, NEW o, Spares(n, m), Spares(m, o)
    PROVE  Spares(n, o)
  BY DEF Spares

(* Registering a descriptor leaves the others and the timers alone.        *)
LEMMA AddHandler ==
    ASSUME NEW n, NotifierGood(n), NEW f \in Fds
    PROVE  LET m == add_file_handler(n, f)
           IN /\ NotifierGood(m)
              /\ m.timers = n.timers
              /\ Spares(n, m)
              /\ \A g : Registered(m, g) <=> g = f \/ Registered(n, g)
<1> DEFINE m == add_file_handler(n, f)
<1>1. CASE Registered(n, f)
  BY <1>1 DEF add_file_handler, Spares
<1>2. CASE ~Registered(n, f)
  <2>1. n \in Notifiers /\ Len(n.fds) \in Nat
    BY LenProperties DEF NotifierGood, Notifiers
  <2>2. m = [fds |-> Append(n.fds, f),
             ready |-> [n.ready EXCEPT ![f] = "none"],
             timers |-> n.timers]
    BY <1>2, <2>1 DEF add_file_handler, Notifiers
  <2>3. /\ Append(n.fds, f) \in Seq(Fds)
        /\ Len(Append(n.fds, f)) = Len(n.fds) + 1
        /\ \A i \in 1..Len(n.fds) : Append(n.fds, f)[i] = n.fds[i]
        /\ Append(n.fds, f)[Len(n.fds) + 1] = f
    BY <2>1 DEF Notifiers
  <2>4. Distinct(m.fds)
    BY <1>2, <2>1, <2>2, <2>3 DEF Distinct, Registered, NotifierGood
  <2>5. m.ready \in [Fds -> {"none", "in", "err"}] /\ m.ready["stdin"] # "err"
    BY <2>1, <2>2, RemoteEventsAssumption DEF NotifierGood, Notifiers
  <2>6. NotifierGood(m)
    BY <2>1, <2>2, <2>3, <2>4, <2>5 DEF NotifierGood, Notifiers
  <2>7. \A g : Registered(m, g) <=> g = f \/ Registered(n, g)
    <3>1. 1..Len(n.fds) + 1 = (1..Len(n.fds)) \union {Len(n.fds) + 1}
      BY <2>1
    <3> QED
      BY <2>2, <2>3, <3>1 DEF Registered
  <2>8. m.timers = n.timers
    BY <2>2
  <2>9. Spares(n, m)
    <3> HIDE DEF m
    <3>1. /\ n.ready \in [Fds -> {"none", "in", "err"}]
          /\ m.ready = [n.ready EXCEPT ![f] = "none"]
      BY <2>1, <2>2 DEF Notifiers
    <3> QED
      BY <2>7, <3>1 DEF Spares
  <2> QED
    BY <2>6, <2>7, <2>8, <2>9
<1> QED
  BY <1>1, <1>2

(* So does giving one up.                                                  *)
LEMMA DeleteHandler ==
    ASSUME NEW n, NotifierGood(n), NEW f \in Fds
    PROVE  LET m == delete_file_handler(n, f)
           IN /\ NotifierGood(m)
              /\ m.timers = n.timers
              /\ Spares(n, m)
              /\ \A g : Registered(m, g) <=> g # f /\ Registered(n, g)
<1> DEFINE m == delete_file_handler(n, f)
<1>1. CASE ~Registered(n, f)
  BY <1>1 DEF delete_file_handler, Spares
<1>2. CASE Registered(n, f)
  <2> DEFINE r == RemoveFirst(n.fds, f)
  <2>1. n \in Notifiers /\ n.fds \in Seq(Fds) /\ Distinct(n.fds)
    BY DEF NotifierGood, Notifiers
  <2>2. m = [fds |-> r, ready |-> [n.ready EXCEPT ![f] = "none"],
             timers |-> n.timers]
    BY <1>2, <2>1 DEF delete_file_handler, Notifiers
  <2>3. \E i \in 1..Len(n.fds) : n.fds[i] = f
    BY <1>2 DEF Registered
  <2>4. IsWithout(r, n.fds, f, Fds)
    BY <2>1, <2>3, RemoveFirstDistinct
  <2> HIDE DEF r
  <2>5. m.ready \in [Fds -> {"none", "in", "err"}] /\ m.ready["stdin"] # "err"
    BY <2>1, <2>2, RemoteEventsAssumption DEF NotifierGood, Notifiers
  <2>6. NotifierGood(m)
    BY <2>1, <2>2, <2>4, <2>5 DEF NotifierGood, Notifiers, IsWithout
  <2>7. \A g : Registered(m, g) <=> g # f /\ Registered(n, g)
    <3>1. m.fds = r
      BY <2>2
    <3> QED
      BY <3>1, <2>4 DEF Registered, IsWithout
  <2>8. Spares(n, m)
    BY <2>1, <2>2, <2>7 DEF Spares, Notifiers
  <2> QED
    BY <2>2, <2>6, <2>7, <2>8
<1> QED
  BY <1>1, <1>2

(* The first timer has the least id, and the last one leaves none.         *)
LEMMA CreateTimer ==
    ASSUME NEW n, NotifierGood(n), n.timers = <<>>
    PROVE  LET m == create_timer(n, NewTimer(n))
           IN /\ NewTimer(n) \in Nat
              /\ NotifierGood(m)
              /\ Spares(n, m)
              /\ m.timers = <<NewTimer(n)>>
              /\ \A g : Registered(m, g) <=> Registered(n, g)
<1>1. NewTimer(n) = 1
  BY DEF NewTimer, TimerIds
<1>2. create_timer(n, 1) = [fds |-> n.fds, ready |-> n.ready, timers |-> <<1>>]
  BY DEF create_timer, NotifierGood, Notifiers
<1> DEFINE m == create_timer(n, 1)
<1>3. m.fds = n.fds /\ m.ready = n.ready /\ m.timers = <<1>>
  BY <1>2
<1>4. m \in Notifiers
  <2>1. /\ n.fds \in Seq(Fds) /\ n.ready \in [Fds -> {"none", "in", "err"}]
        /\ <<1>> \in Seq(Nat)
    BY DEF NotifierGood, Notifiers
  <2>2. m = [fds |-> n.fds, ready |-> n.ready, timers |-> <<1>>]
    BY <1>2
  <2> HIDE DEF m
  <2> QED
    BY <2>1, <2>2 DEF Notifiers
<1> HIDE DEF m
<1>5. Spares(n, m)
  BY <1>3 DEF Spares, Registered
<1>6. NotifierGood(m)
  BY <1>3, <1>4 DEF NotifierGood
<1> QED
  BY <1>1, <1>3, <1>5, <1>6 DEF Registered, m

(* See CreateTimer.                                                        *)
LEMMA DeleteTimer ==
    ASSUME NEW n, NotifierGood(n), NEW id \in Nat, n.timers = <<id>>
    PROVE  LET m == delete_timer(n, id)
           IN /\ NotifierGood(m)
              /\ Spares(n, m)
              /\ m.timers = <<>>
              /\ \A g : Registered(m, g) <=> Registered(n, g)
<1> DEFINE r == RemoveFirst(<<id>>, id)
<1>1. r = <<>>
  <2>1. <<id>> \in Seq(Nat) /\ 1 \in 1..Len(<<id>>) /\ <<id>>[1] = id
        /\ Len(<<id>>) = 1
    OBVIOUS
  <2>2. Distinct(<<id>>)
    BY <2>1 DEF Distinct
  <2>3. IsWithout(r, <<id>>, id, Nat)
    BY <2>1, <2>2, RemoveFirstDistinct
  <2> QED
    BY <2>1, <2>3, EmptySeq DEF IsWithout
<1>2. delete_timer(n, id) = [fds |-> n.fds, ready |-> n.ready, timers |-> <<>>]
  BY <1>1 DEF delete_timer, NotifierGood, Notifiers
<1> QED
  BY <1>2 DEF NotifierGood, Notifiers, Registered, Spares

(* q is p, scheduled as its buffer calls for; stdin is as it is in n, and  *)
(* no descriptor went deaf.                                                *)
Follows(q, p, n) ==
    /\ PairGood(q)
    /\ Settled(q.d)
    /\ q.d.open = p.d.open /\ q.d.async = p.d.async /\ q.d.bufcnt = p.d.bufcnt
    /\ Registered(q.n, "stdin") <=> Registered(n, "stdin")
    /\ Spares(n, q.n)

(* With nothing scheduled, either place is taken as it should be.          *)
LEMMA ToFdFollows ==
    ASSUME NEW p, NEW n, p.d \in Devices, p.d.async, p.d.open, p.d.bufcnt = 0,
           NotifierGood(n), n.timers = <<>>
    PROVE  Follows(ToFd(p, n), p, n)
<1> DEFINE m == add_file_handler(n, "dev")
           d == [p.d EXCEPT !.state = FD_SCHEDULED]
<1>1. /\ NotifierGood(m) /\ m.timers = <<>> /\ Registered(m, "dev")
      /\ Registered(m, "stdin") <=> Registered(n, "stdin")
      /\ Spares(n, m)
  <2>1. "dev" \in Fds /\ "dev" # "stdin"
    BY RemoteEventsAssumption
  <2> QED
    BY <2>1, AddHandler
<1>2. /\ d \in Devices /\ d.state = FD_SCHEDULED /\ d.open = p.d.open
      /\ d.async = p.d.async /\ d.bufcnt = p.d.bufcnt /\ d.async
  BY DEF Devices
<1> DEFINE q == ToFd(p, n)
<1>3. q = [d |-> d, n |-> m]
  BY DEF ToFd, Moves
<1> HIDE DEF d, m, q
<1>4. q.d = d /\ q.n = m /\ q = [d |-> q.d, n |-> q.n]
  BY <1>3
<1>5. Agrees(q)
  <2>1. q.d.async /\ q.d.state = d.state
    BY <1>2, <1>4
  <2> QED
    BY <2>1, <1>1, <1>2, <1>4 DEF Agrees, FD_SCHEDULED, NOTHING_SCHEDULED
<1>6. Settled(q.d)
  BY <1>1, <1>2, <1>4 DEF Settled, FD_SCHEDULED, NOTHING_SCHEDULED
<1>7. Follows(q, p, n)
  BY <1>1, <1>2, <1>4, <1>5, <1>6 DEF Follows, PairGood
<1> QED
  BY <1>7 DEF q

(* See ToFdFollows.                                                        *)
LEMMA ToTimerFollows ==
    ASSUME NEW p, NEW n, p.d \in Devices, p.d.async, p.d.open, p.d.bufcnt # 0,
           NotifierGood(n), n.timers = <<>>, ~Registered(n, "dev")
    PROVE  Follows(ToTimer(p, n), p, n)
<1> DEFINE id == NewTimer(n)
           m  == create_timer(n, id)
           d  == [p.d EXCEPT !.state = id]
<1>1. /\ id \in Nat /\ NotifierGood(m) /\ m.timers = <<id>>
      /\ \A g : Registered(m, g) <=> Registered(n, g)
      /\ Spares(n, m)
  BY CreateTimer
<1>2. /\ d \in Devices /\ d.state = id /\ d.open = p.d.open
      /\ d.async = p.d.async /\ d.bufcnt = p.d.bufcnt /\ d.async
  BY <1>1 DEF Devices
<1> DEFINE q == ToTimer(p, n)
<1>3. q = [d |-> d, n |-> m]
  BY DEF ToTimer, Moves
<1> HIDE DEF d, m, id, q
<1>4. q.d = d /\ q.n = m /\ q = [d |-> q.d, n |-> q.n]
  BY <1>3
<1>5. Agrees(q)
  <2>1. q.d.async /\ q.d.state = d.state
    BY <1>2, <1>4
  <2> QED
    BY <2>1, <1>1, <1>2, <1>4 DEF Agrees, FD_SCHEDULED, NOTHING_SCHEDULED
<1>6. Settled(q.d)
  BY <1>1, <1>2, <1>4 DEF Settled, FD_SCHEDULED, NOTHING_SCHEDULED
<1>7. Follows(q, p, n)
  BY <1>1, <1>2, <1>4, <1>5, <1>6 DEF Follows, PairGood
<1> QED
  BY <1>7 DEF q

(* reschedule makes of a line whose buffer has changed a settled one.      *)
LEMMA RescheduleFollows ==
    ASSUME NEW p, PairGood(p)
    PROVE  Follows(reschedule(p), p, p.n)
<1> USE DEF PairGood, Agrees, FD_SCHEDULED, NOTHING_SCHEDULED
<1>0. Spares(p.n, p.n)
  BY DEF Spares
<1>1. CASE ~p.d.async
  BY <1>1, <1>0 DEF reschedule, Follows, Settled
<1>2. CASE p.d.async /\ p.d.state = FD_SCHEDULED
  <2>1. CASE p.d.bufcnt = 0
    <3>1. reschedule(p) = p
      BY <1>2, <2>1 DEF reschedule
    <3>2. Settled(p.d)
      BY <1>2, <2>1 DEF Settled
    <3> QED
      BY <1>0, <3>1, <3>2 DEF Follows
  <2>2. CASE p.d.bufcnt # 0
    <3> DEFINE n == delete_file_handler(p.n, "dev")
    <3>1. "dev" \in Fds /\ "dev" # "stdin"
      BY RemoteEventsAssumption
    <3>2. /\ NotifierGood(n) /\ n.timers = <<>> /\ ~Registered(n, "dev")
          /\ Registered(n, "stdin") <=> Registered(p.n, "stdin")
          /\ Spares(p.n, n)
      BY <1>2, <3>1, DeleteHandler
    <3>3. reschedule(p) = ToTimer(p, n)
      BY <1>2, <2>2 DEF reschedule
    <3> HIDE DEF n
    <3>4. Follows(ToTimer(p, n), p, n)
      BY <1>2, <2>2, <3>2, ToTimerFollows
    <3> QED
      BY <3>2, <3>3, <3>4, SparesBoth DEF Follows
  <2> QED
    BY <2>1, <2>2
<1>3. CASE p.d.async /\ p.d.state = NOTHING_SCHEDULED
  <2>1. p.n.timers = <<>> /\ ~Registered(p.n, "dev")
    BY <1>3
  <2>2. CASE p.d.bufcnt = 0
    <3>1. reschedule(p) = ToFd(p, p.n)
      BY <1>3, <2>2 DEF reschedule
    <3> QED
      BY <1>3, <2>1, <2>2, <3>1, ToFdFollows
  <2>3. CASE p.d.bufcnt # 0
    <3>1. reschedule(p) = ToTimer(p, p.n)
      BY <1>3, <2>3 DEF reschedule
    <3> QED
      BY <1>3, <2>1, <2>3, <3>1, ToTimerFollows
  <2> QED
    BY <2>2, <2>3
<1>4. CASE p.d.async /\ p.d.state \notin {FD_SCHEDULED, NOTHING_SCHEDULED}
  <2>1. p.d.state \in Nat
    BY <1>4 DEF Devices
  <2>2. CASE p.d.bufcnt = 0
    <3> DEFINE n == delete_timer(p.n, p.d.state)
    <3>1. /\ NotifierGood(n) /\ n.timers = <<>>
          /\ \A g : Registered(n, g) <=> Registered(p.n, g)
          /\ Spares(p.n, n)
      BY <1>4, <2>1, DeleteTimer
    <3>2. reschedule(p) = ToFd(p, n)
      BY <1>4, <2>2 DEF reschedule
    <3> HIDE DEF n
    <3>3. Follows(ToFd(p, n), p, n)
      BY <1>4, <2>2, <3>1, ToFdFollows
    <3> QED
      BY <3>1, <3>2, <3>3, SparesBoth DEF Follows
  <2>3. CASE p.d.bufcnt # 0
    <3>1. reschedule(p) = p
      BY <1>4, <2>3 DEF reschedule
    <3> QED
      BY <1>0, <1>4, <2>3, <3>1 DEF Follows, Settled
  <2> QED
    BY <2>2, <2>3
<1> QED
  BY <1>1, <1>2, <1>3, <1>4

(* A pair that differs in stdin or in what is read ahead only is as good.  *)
LEMMA BufferedGood ==
    ASSUME NEW p, PairGood(p), NEW b \in Buffers
    PROVE  LET q == Buffered(p, b)
           IN /\ PairGood(q)
              /\ q.n = p.n
              /\ q.d.open = p.d.open /\ q.d.async = p.d.async
              /\ q.d.bufcnt = b
<1> DEFINE d == [p.d EXCEPT !.bufcnt = b]
           q == Buffered(p, b)
<1>1. q = [d |-> d, n |-> p.n]
  BY DEF Buffered, PairGood
<1>2. /\ d \in Devices /\ d.open = p.d.open /\ d.async = p.d.async
      /\ d.state = p.d.state /\ d.bufcnt = b
  BY DEF PairGood, Devices, Buffers
<1> HIDE DEF d, q
<1>3. q.d = d /\ q.n = p.n /\ q = [d |-> q.d, n |-> q.n]
  BY <1>1
<1>4. Agrees(q)
  BY <1>2, <1>3 DEF Agrees, PairGood
<1>5. PairGood(q)
  BY <1>2, <1>3, <1>4 DEF PairGood
<1> QED
  BY <1>2, <1>3, <1>5 DEF q

(* See BufferedGood.                                                       *)
LEMMA MovedGood ==
    ASSUME NEW p, PairGood(p), NEW n, NotifierGood(n), n.timers = p.n.timers,
           Registered(n, "dev") <=> Registered(p.n, "dev")
    PROVE  PairGood([d |-> p.d, n |-> n])
<1> DEFINE q == [d |-> p.d, n |-> n]
<1>1. q.d = p.d /\ q.n = n /\ q = [d |-> q.d, n |-> q.n]
  OBVIOUS
<1> HIDE DEF q
<1>2. Agrees(q)
  BY <1>1 DEF Agrees, PairGood
<1>3. PairGood(q)
  BY <1>1, <1>2 DEF PairGood
<1> QED
  BY <1>3 DEF q

(* A line that leaves ASYNC mode leaves nothing behind in the loop.        *)
LEMMA DescheduledGood ==
    ASSUME NEW p, PairGood(p), p.d.async
    PROVE  LET n == Descheduled(p)
           IN /\ NotifierGood(n) /\ n.timers = <<>> /\ ~Registered(n, "dev")
              /\ Registered(n, "stdin") <=> Registered(p.n, "stdin")
              /\ Spares(p.n, n)
<1> USE DEF PairGood, Agrees, FD_SCHEDULED, NOTHING_SCHEDULED
<1>0. "dev" \in Fds /\ "dev" # "stdin"
  BY RemoteEventsAssumption
<1>1. CASE p.d.state = FD_SCHEDULED
  <2>1. Descheduled(p) = delete_file_handler(p.n, "dev")
    BY <1>1 DEF Descheduled
  <2>2. p.n.timers = <<>> /\ NotifierGood(p.n)
    BY <1>1
  <2> QED
    BY <1>0, <2>1, <2>2, DeleteHandler
<1>2. CASE p.d.state = NOTHING_SCHEDULED
  BY <1>2 DEF Descheduled, Spares
<1>3. CASE p.d.state \notin {FD_SCHEDULED, NOTHING_SCHEDULED}
  <2>1. Descheduled(p) = delete_timer(p.n, p.d.state)
    BY <1>3 DEF Descheduled
  <2>2. p.d.state \in Nat /\ p.n.timers = <<p.d.state>> /\ NotifierGood(p.n)
        /\ ~Registered(p.n, "dev")
    BY <1>3 DEF Devices
  <2> QED
    BY <2>1, <2>2, DeleteTimer
<1> QED
  BY <1>1, <1>2, <1>3

(* serial_async leaves the line settled in the mode that is asked for.     *)
LEMMA AsyncGood ==
    ASSUME NEW p, PairGood(p), Settled(p.d), NEW on \in BOOLEAN, on => p.d.open
    PROVE  LET q == serial_async(p, on)
           IN /\ PairGood(q) /\ Settled(q.d)
              /\ q.d.open = p.d.open /\ q.d.async = on
              /\ q.d.bufcnt = p.d.bufcnt
              /\ Registered(q.n, "stdin") <=> Registered(p.n, "stdin")
              /\ Spares(p.n, q.n)
<1>1. CASE p.d.async = on
  BY <1>1 DEF serial_async, Spares
<1>2. CASE on /\ ~p.d.async
  <2> DEFINE d == [p.d EXCEPT !.async = TRUE, !.state = NOTHING_SCHEDULED]
             r == [d |-> d, n |-> p.n]
  <2>1. serial_async(p, on) = reschedule(r)
    <3>1. [p EXCEPT !.d = d] = r
      BY DEF PairGood
    <3> QED
      BY <1>2, <3>1 DEF serial_async
  <2>2. /\ d \in Devices /\ d.open = p.d.open /\ d.async = TRUE
        /\ d.state = NOTHING_SCHEDULED /\ d.bufcnt = p.d.bufcnt
    BY DEF PairGood, Devices
  <2>3. r.d = d /\ r.n = p.n /\ r = [d |-> r.d, n |-> r.n]
    OBVIOUS
  <2> HIDE DEF d, r
  <2>4. Agrees(r)
    BY <1>2, <2>2, <2>3
    DEF Agrees, PairGood, FD_SCHEDULED, NOTHING_SCHEDULED
  <2>5. PairGood(r)
    BY <1>2, <2>2, <2>3, <2>4 DEF PairGood
  <2>6. Follows(reschedule(r), r, p.n)
    BY <2>3, <2>5, RescheduleFollows
  <2> QED
    BY <1>2, <2>1, <2>2, <2>3, <2>6 DEF Follows
<1>3. CASE ~on /\ p.d.async
  <2> DEFINE d == [p.d EXCEPT !.async = FALSE]
             n == Descheduled(p)
             q == serial_async(p, on)
  <2>1. q = [d |-> d, n |-> n]
    BY <1>3 DEF serial_async
  <2>2. /\ d \in Devices /\ d.open = p.d.open /\ d.async = FALSE
        /\ d.bufcnt = p.d.bufcnt
    BY DEF PairGood, Devices
  <2>3. /\ NotifierGood(n) /\ n.timers = <<>> /\ ~Registered(n, "dev")
        /\ Registered(n, "stdin") <=> Registered(p.n, "stdin")
        /\ Spares(p.n, n)
    BY <1>3, DescheduledGood
  <2> HIDE DEF d, n, q
  <2>4. q.d = d /\ q.n = n /\ q = [d |-> q.d, n |-> q.n]
    BY <2>1
  <2>5. ~q.d.async
    BY <2>2, <2>4
  <2>6. Agrees(q) /\ Settled(q.d)
    BY <2>3, <2>4, <2>5 DEF Agrees, Settled
  <2>7. PairGood(q)
    BY <2>2, <2>3, <2>4, <2>5, <2>6 DEF PairGood
  <2> QED
    BY <1>3, <2>2, <2>3, <2>4, <2>6, <2>7 DEF q
<1> QED
  <2>1. p.d.async \in BOOLEAN
    BY DEF PairGood, Devices
  <2> QED
    BY <2>1, <1>1, <1>2, <1>3

(* A closed line is out of the loop and has nothing left to deliver.       *)
LEMMA CloseGood ==
    ASSUME NEW p, PairGood(p), Settled(p.d)
    PROVE  LET q == serial_close(p)
           IN /\ PairGood(q) /\ Settled(q.d)
              /\ q.d.open = FALSE
              /\ Registered(q.n, "stdin") <=> Registered(p.n, "stdin")
              /\ Spares(p.n, q.n)
<1> DEFINE off == serial_async(p, FALSE)
           q   == serial_close(p)
<1>1. /\ PairGood(off) /\ off.d.async = FALSE
      /\ Registered(off.n, "stdin") <=> Registered(p.n, "stdin")
      /\ Spares(p.n, off.n)
  BY AsyncGood
<1>2. NotifierGood(off.n) /\ off.n.timers = <<>> /\ ~Registered(off.n, "dev")
  BY <1>1 DEF PairGood, Agrees
<1> HIDE DEF off
<1>3. q.d = NoDevice /\ q.n = off.n /\ q = [d |-> q.d, n |-> q.n]
  BY DEF serial_close, off
<1> HIDE DEF q
<1>4. NoDevice \in Devices /\ NoDevice.open = FALSE /\ NoDevice.async = FALSE
  BY RemoteEventsAssumption DEF Devices, NoDevice
<1>5. Agrees(q) /\ Settled(q.d)
  BY <1>2, <1>3, <1>4 DEF Agrees, Settled
<1>6. PairGood(q)
  BY <1>2, <1>3, <1>4, <1>5 DEF PairGood
<1> QED
  BY <1>1, <1>3, <1>4, <1>5, <1>6 DEF q

(* What the invariant says of the device and the notifier after a step     *)
(* that makes them p.                                                      *)
LEMMA BecomesGood ==
    ASSUME NEW p, PairGood(p), dev' = p.d, notifier' = p.n
    PROVE  PairGood(Pair)'
<1>1. Pair' = [d |-> p.d, n |-> p.n]
  BY DEF Pair
<1>2. Pair' = p
  BY <1>1 DEF PairGood
<1> QED
  BY <1>2

(* target_terminal_ours gives stdin back to gdb if the target has it.      *)
LEMMA OursGood ==
    ASSUME NEW p, PairGood(p), NEW t \in Terminals, NEW open \in BOOLEAN
    PROVE  LET n == OursNotifier(p.n, t, open)
               u == OursTerm(t, open)
           IN /\ NotifierGood(n)
              /\ Spares(p.n, n)
              /\ PairGood([d |-> p.d, n |-> n])
              /\ Registered(n, "stdin") <=>
                     Recovered(t, open) \/ Registered(p.n, "stdin")
              /\ u \in Terminals /\ u.sync = t.sync
              /\ u.ours <=> Recovered(t, open) \/ t.ours
<1> DEFINE n == OursNotifier(p.n, t, open)
<1>1. OursTerm(t, open) \in Terminals /\ OursTerm(t, open).sync = t.sync
  BY DEF OursTerm, Terminals
<1>2. OursTerm(t, open).ours <=> Recovered(t, open) \/ t.ours
  BY DEF OursTerm, Terminals
<1>3. CASE Recovered(t, open)
  <2>1. "stdin" \in Fds /\ "dev" # "stdin"
    BY RemoteEventsAssumption
  <2>2. n = add_file_handler(p.n, "stdin")
    BY <1>3 DEF OursNotifier
  <2>3. NotifierGood(p.n)
    BY DEF PairGood
  <2>4. /\ NotifierGood(n) /\ n.timers = p.n.timers /\ Registered(n, "stdin")
        /\ Registered(n, "dev") <=> Registered(p.n, "dev")
        /\ Spares(p.n, n)
    BY <2>1, <2>2, <2>3, AddHandler
  <2> HIDE DEF n
  <2>5. PairGood([d |-> p.d, n |-> n])
    BY <2>4, MovedGood
  <2> QED
    BY <1>1, <1>2, <1>3, <2>4, <2>5 DEF n
<1>4. CASE ~Recovered(t, open)
  <2>1. n = p.n
    BY <1>4 DEF OursNotifier
  <2> QED
    BY <1>1, <1>2, <1>4, <2>1 DEF PairGood, Spares
<1> QED
  BY <1>3, <1>4

(* What TerminalAgrees says of a pair and a terminal.                      *)
StdinAgrees(p, t) == p.d.open => /\ Registered(p.n, "stdin") <=> t.ours
                                 /\ t.ours \/ t.sync

(* An exception that reaches the top level finds the terminal with gdb.    *)
LEMMA TopLevelGood ==
    ASSUME NEW p, PairGood(p), term \in Terminals, StdinAgrees(p, term),
           ToTopLevel(p)
    PROVE  /\ PairGood(Pair)'
           /\ term' \in Terminals
           /\ TerminalAgrees'
           /\ Spares(p.n, notifier')
<1> DEFINE n == OursNotifier(p.n, term, p.d.open)
           u == OursTerm(term, p.d.open)
           q == [d |-> p.d, n |-> n]
<1>0. p.d.open \in BOOLEAN
  BY DEF PairGood, Devices
<1>1. /\ PairGood(q) /\ Spares(p.n, n)
      /\ Registered(n, "stdin") <=>
             Recovered(term, p.d.open) \/ Registered(p.n, "stdin")
      /\ u \in Terminals /\ u.sync = term.sync
      /\ u.ours <=> Recovered(term, p.d.open) \/ term.ours
  BY <1>0, OursGood
<1>2. dev' = p.d /\ notifier' = n /\ term' = [u EXCEPT !.sync = FALSE]
  BY DEF ToTopLevel
<1>3. q.d = p.d /\ q.n = n
  OBVIOUS
<1> HIDE DEF n, u, q
<1>4. PairGood(Pair)'
  BY <1>1, <1>2, <1>3, BecomesGood
<1>5. term' \in Terminals /\ term'.ours = u.ours
  BY <1>1, <1>2 DEF Terminals
<1>6. TerminalAgrees'
  <2> SUFFICES ASSUME p.d.open
               PROVE  Registered(notifier', "stdin") /\ term'.ours
    BY <1>2 DEF TerminalAgrees, Registered
  <2>1. Recovered(term, p.d.open) \/ term.ours
    BY DEF Recovered, StdinAgrees, Terminals
  <2>2. Recovered(term, p.d.open) \/ Registered(p.n, "stdin")
    BY <2>1 DEF StdinAgrees
  <2> QED
    BY <1>1, <1>2, <1>5, <2>1, <2>2
<1> QED
  BY <1>1, <1>2, <1>4, <1>5, <1>6

(* What ReadAheadKept says of a step.                                      *)
Kept == dev.open /\ dev'.open /\ dev.bufcnt > 0 =>
            dev'.bufcnt \in {dev.bufcnt, dev.bufcnt - 1}

(* No descriptor goes deaf in a step that is not one of the loop itself.   *)
Spared == Spares(notifier, notifier')

(* What the invariant says of the device and the notifier.                 *)
LEMMA PairFacts ==
    ASSUME IInv
    PROVE  /\ Pair.d = dev /\ Pair.n = notifier
           /\ PairGood(Pair) /\ dev \in Devices /\ NotifierGood(notifier)
           /\ dev.async => dev.open
           /\ StdinAgrees(Pair, term)
  BY DEF IInv, Pair, PairGood, StdinGood, TerminalAgrees, StdinAgrees

(* The event loop itself touches no more of the notifier than ready_mask,  *)
(* and calls no handler of a descriptor that is not registered.            *)
LEMMA LoopKeeps ==
    ASSUME IInv, LoopStep, UNCHANGED <<dev, term, quit_flag, stranded, budget>>
    PROVE  IInv' /\ Kept
<1>0. /\ PairGood(Pair) /\ dev \in Devices /\ NotifierGood(notifier)
      /\ Pair.d = dev /\ Pair.n = notifier
  BY PairFacts
<1>k. Kept
  BY <1>0 DEF Kept, Devices
<1>1. ASSUME NEW r \in [Fds -> {"none", "in", "err"}], r["stdin"] # "err",
             notifier' = [notifier EXCEPT !.ready = r]
      PROVE  /\ PairGood(Pair)'
             /\ \A f : Registered(notifier', f) <=> Registered(notifier, f)
             /\ notifier'.timers = notifier.timers
  <2>1. /\ notifier' \in Notifiers /\ notifier'.fds = notifier.fds
        /\ notifier'.timers = notifier.timers /\ notifier'.ready = r
    BY <1>0, <1>1 DEF NotifierGood, Notifiers
  <2>2. NotifierGood(notifier')
    BY <1>0, <1>1, <2>1 DEF NotifierGood
  <2>3. \A f : Registered(notifier', f) <=> Registered(notifier, f)
    BY <2>1 DEF Registered
  <2>4. PairGood([d |-> dev, n |-> notifier'])
    BY <1>0, <2>1, <2>2, <2>3, MovedGood
  <2>5. PairGood(Pair)'
    BY <2>4, BecomesGood
  <2> QED
    BY <2>1, <2>3, <2>5
<1>2. CASE ProcessEvent
  <2> DEFINE f == Head(queue)
             r == [notifier.ready EXCEPT ![f] = "none"]
  <2>1. CASE f = Timer
    <3>1. /\ timer_ptr' = notifier.timers /\ pc' = "timers"
          /\ UNCHANGED <<notifier, signals, input, hung>>
      BY <1>2, <2>1 DEF ProcessEvent
    <3>2. pc \in {"check", "check2"}
      BY <1>2 DEF ProcessEvent
    <3> QED
      BY <3>1, <3>2, <1>k
      DEF IInv, PairGood, Pair, Agrees, StdinGood, TerminalAgrees, Registered
  <2>2. CASE f # Timer
    <3>1. /\ pc \in {"check", "check2"}
          /\ pc' = ProcOf(f) /\ notifier' = [notifier EXCEPT !.ready = r]
          /\ UNCHANGED <<timer_ptr, signals, input, hung>>
      BY <1>0, <1>2, <2>2 DEF ProcessEvent, Cleared, NotifierGood, Notifiers
    <3>2. r \in [Fds -> {"none", "in", "err"}] /\ r["stdin"] # "err"
      BY <1>0, RemoteEventsAssumption DEF NotifierGood, Notifiers
    <3> HIDE DEF f, r
    <3>3. /\ PairGood(Pair)'
          /\ \A g : Registered(notifier', g) <=> Registered(notifier, g)
      BY <1>1, <3>1, <3>2
    <3>4. Registered(notifier, f) => f \in {"stdin", "dev"}
      BY <1>0, RemoteEventsAssumption DEF Registered, NotifierGood, Notifiers
    <3>5. \/ pc' = "check"
          \/ pc' = "stdin" /\ Registered(notifier, "stdin")
          \/ pc' \in {"dev", "error"} /\ Registered(notifier, "dev")
      BY <1>0, <3>1, <3>4 DEF ProcOf, NotifierGood
    <3> QED
      BY <3>1, <3>3, <3>5, <1>k DEF IInv, StdinGood, TerminalAgrees
  <2> QED
    BY <2>1, <2>2
<1>3. CASE PollReturns
  <2>1. PICK found \in [Fds -> {"none", "in", "err"}] :
            /\ \A f \in Fds : found[f] \in IF Registered(notifier, f)
                                            THEN Revents(f) ELSE {"none"}
            /\ notifier' = [notifier EXCEPT !.ready =
                   [f \in Fds |-> IF found[f] = "none" THEN @[f] ELSE found[f]]]
    BY <1>3 DEF PollReturns
  <2> DEFINE r == [f \in Fds |-> IF found[f] = "none"
                                 THEN notifier.ready[f] ELSE found[f]]
  <2>2. found["stdin"] # "err"
    BY <2>1, RemoteEventsAssumption DEF IInv, Revents
  <2>3. r \in [Fds -> {"none", "in", "err"}] /\ r["stdin"] # "err"
    BY <1>0, <2>2, RemoteEventsAssumption DEF NotifierGood, Notifiers
  <2>4. notifier' = [notifier EXCEPT !.ready = r]
    BY <1>0, <2>1 DEF NotifierGood, Notifiers
  <2> HIDE DEF r
  <2>5. /\ PairGood(Pair)'
        /\ \A g : Registered(notifier', g) <=> Registered(notifier, g)
    BY <1>1, <2>3, <2>4
  <2>6. /\ pc = "poll" /\ pc' = "check2"
        /\ UNCHANGED <<timer_ptr, signals, input, hung>>
    BY <1>3 DEF PollReturns
  <2> QED
    BY <2>5, <2>6, <1>k DEF IInv, StdinGood, TerminalAgrees
<1>4. CASE \/ InvokeStart \/ InvokeEnd \/ NothingQueued \/ TimersDone
           \/ poll_timers \/ EnterWait
  <2>1. /\ pc \in {"check", "check2", "invoke", "timers", "pollTimers", "wait"}
        /\ pc' \in {"check", "invoke", "pollTimers", "wait", "poll", "exit"}
        /\ timer_ptr' = timer_ptr /\ (pc = "timers" => timer_ptr = <<>>)
        /\ UNCHANGED <<notifier, input, hung>>
    BY <1>4 DEF InvokeStart, InvokeEnd, NothingQueued, TimersDone,
                poll_timers, EnterWait
  <2> QED
    BY <2>1, <1>k DEF IInv, PairGood, Pair, Agrees, StdinGood, TerminalAgrees,
                      Registered
<1> QED
  BY <1>2, <1>3, <1>4 DEF LoopStep

(* A step that leaves handle_timer_event alone and does not end in the     *)
(* client or in an event of the device keeps the invariant, if it leaves   *)
(* a good line and the terminal with who should have it.                   *)
LEMMA Rebuilt ==
    ASSUME IInv, UNCHANGED timer_ptr, pc # "timers",
           input' \in [Fds -> 0..MaxWaiting], hung' \subseteq {"dev"},
           term' \in Terminals,
           PairGood(Pair)', Settled(dev'), TerminalAgrees',
           pc' \notin {"client", "dev", "error", "stdin"},
           pc' = "packet" => dev'.open,
           pc' = "command" /\ ~dev'.open => Registered(notifier', "stdin")
    PROVE  IInv'
  BY DEF IInv, StdinGood

(* Lines that go up or down change no more than what waits in the kernel.  *)
LEMMA LineGood ==
    ASSUME IInv, LineUp \/ LineDown
    PROVE  input' \in [Fds -> 0..MaxWaiting] /\ hung' \subseteq {"dev"}
<1>1. CASE LineUp
  BY <1>1 DEF IInv, LineUp
<1>2. CASE LineDown
  <2>1. input' = [input EXCEPT !["dev"] = 0] /\ hung' = hung \ {"dev"}
    BY <1>2 DEF LineDown
  <2>2. input \in [Fds -> 0..MaxWaiting] /\ hung \subseteq {"dev"}
    BY DEF IInv
  <2> QED
    BY <2>1, <2>2, RemoteEventsAssumption
<1> QED
  BY <1>1, <1>2

(* What is typed, and the commands that it makes.                          *)
LEMMA CommandKeeps ==
    ASSUME IInv,
           \/ stdin_event_handler \/ remote_open \/ remote_disconnect
           \/ async_disable_stdin \/ remote_resume \/ CommandDone
           \/ CommandFails
    PROVE  IInv' /\ Kept /\ Spared
<1>0. /\ PairGood(Pair) /\ dev \in Devices /\ NotifierGood(notifier)
      /\ Pair.d = dev /\ Pair.n = notifier
      /\ dev.async => dev.open
      /\ StdinAgrees(Pair, term)
      /\ term \in Terminals
  BY PairFacts DEF IInv
<1>s. pc \in {"stdin", "command"} => Settled(dev)
  BY DEF IInv
<1>k. ASSUME dev' = dev PROVE Kept
  BY <1>0, <1>k DEF Kept, Devices
<1>n. ASSUME notifier' = notifier PROVE Spared
  BY <1>n DEF Spared, Spares, Registered
<1>1. CASE stdin_event_handler
  <2>1. /\ pc = "stdin" /\ pc' \in {"check", "command"}
        /\ input["stdin"] > 0
        /\ input' = [input EXCEPT !["stdin"] = @ - 1]
        /\ UNCHANGED <<timer_ptr, notifier, hung, dev, term>>
    BY <1>1 DEF stdin_event_handler, Typed
  <2>2. input' \in [Fds -> 0..MaxWaiting]
    BY <2>1, RemoteEventsAssumption DEF IInv
  <2>3. PairGood(Pair)' /\ Kept
    BY <1>0, <1>k, <2>1, BecomesGood
  <2> QED
    BY <1>n, <1>s, <2>1, <2>2, <2>3 DEF IInv, StdinGood, TerminalAgrees
<1>2. CASE remote_open
  <2>1. /\ pc = "command" /\ ~dev.open /\ pc' = "check"
        /\ term' = [term EXCEPT !.ours = TRUE]
        /\ LineUp
        /\ UNCHANGED <<timer_ptr, notifier>>
    BY <1>2 DEF remote_open, Rest
  <2>2. PICK tty \in BOOLEAN :
            dev' = [open |-> TRUE, tty |-> tty, async |-> FALSE,
                    state |-> NOTHING_SCHEDULED, bufcnt |-> 0]
    BY <1>2 DEF remote_open, NoDevice
  <2> DEFINE q == [d |-> dev', n |-> notifier]
  <2>3. q.d = dev' /\ q.n = notifier /\ q = [d |-> q.d, n |-> q.n]
    OBVIOUS
  <2> HIDE DEF q
  <2>4. dev' \in Devices /\ ~dev'.async /\ Settled(dev')
    BY <2>2, RemoteEventsAssumption DEF Devices, Settled
  <2>5. Agrees(q)
    BY <1>0, <2>1, <2>3, <2>4 DEF Agrees, PairGood
  <2>6. PairGood(Pair)'
    <3>1. PairGood(q)
      BY <1>0, <2>3, <2>4, <2>5 DEF PairGood
    <3> QED
      BY <2>1, <2>3, <3>1, BecomesGood
  <2>7. term' \in Terminals /\ term'.ours = TRUE
    BY <1>0, <2>1 DEF Terminals
  <2>8. TerminalAgrees'
    BY <2>1, <2>7 DEF TerminalAgrees, Registered, IInv, StdinGood
  <2>9. Kept /\ Spared
    BY <1>n, <2>1 DEF Kept
  <2> QED
    BY <2>1, <2>4, <2>6, <2>7, <2>8, <2>9, LineGood, Rebuilt
<1>3. CASE remote_disconnect
  <2> DEFINE q == serial_close(Pair)
  <2>1. /\ pc = "command" /\ pc' = "check" /\ term' = term
        /\ LineDown /\ dev' = q.d /\ notifier' = q.n
        /\ timer_ptr' = timer_ptr
    BY <1>3 DEF remote_disconnect, Rest, Becomes
  <2>2. /\ PairGood(q) /\ Settled(q.d) /\ q.d.open = FALSE
        /\ Spares(notifier, q.n)
    BY <1>0, <1>s, <2>1, CloseGood
  <2> HIDE DEF q
  <2>3. PairGood(Pair)'
    BY <2>1, <2>2, BecomesGood
  <2>4. TerminalAgrees' /\ Kept /\ Spared
    BY <2>1, <2>2 DEF TerminalAgrees, Kept, Spared
  <2> QED
    BY <1>0, <2>1, <2>2, <2>3, <2>4, LineGood, Rebuilt
<1>4. CASE async_disable_stdin
  <2> DEFINE n == delete_file_handler(notifier, "stdin")
  <2>1. /\ pc = "command" /\ dev.open /\ pc' = pc /\ dev' = dev
        /\ term' = [sync |-> TRUE, ours |-> FALSE]
        /\ notifier' = n /\ LineUp /\ timer_ptr' = timer_ptr
    BY <1>4 DEF async_disable_stdin, Rest
  <2>2. "stdin" \in Fds /\ "dev" # "stdin"
    BY RemoteEventsAssumption
  <2>3. /\ NotifierGood(n) /\ n.timers = notifier.timers
        /\ ~Registered(n, "stdin") /\ Spares(notifier, n)
        /\ Registered(n, "dev") <=> Registered(notifier, "dev")
    BY <1>0, <2>2, DeleteHandler
  <2> HIDE DEF n
  <2>4. PairGood([d |-> dev, n |-> n])
    BY <1>0, <2>3, MovedGood
  <2>5. PairGood(Pair)' /\ Kept /\ Spared
    BY <1>k, <2>1, <2>3, <2>4, BecomesGood DEF Spared
  <2>6. term' \in Terminals /\ TerminalAgrees'
    BY <2>1, <2>3 DEF Terminals, TerminalAgrees, Registered
  <2> QED
    BY <1>s, <2>1, <2>5, <2>6, LineGood, Rebuilt
<1>5. CASE remote_resume
  <2> DEFINE q == serial_async(Pair, TRUE)
  <2>1. /\ pc = "command" /\ dev.open /\ pc' = "check" /\ term' = term
        /\ LineUp /\ dev' = q.d /\ notifier' = q.n
        /\ timer_ptr' = timer_ptr
    BY <1>5 DEF remote_resume, Rest, Becomes
  <2>2. /\ PairGood(q) /\ Settled(q.d) /\ q.d.open = dev.open
        /\ q.d.bufcnt = dev.bufcnt /\ Spares(notifier, q.n)
        /\ Registered(q.n, "stdin") <=> Registered(notifier, "stdin")
    BY <1>0, <1>s, <2>1, AsyncGood
  <2> HIDE DEF q
  <2>3. PairGood(Pair)'
    BY <2>1, <2>2, BecomesGood
  <2>4. TerminalAgrees' /\ Kept /\ Spared
    BY <1>0, <2>1, <2>2
    DEF TerminalAgrees, Spared, Kept, StdinAgrees, Registered, Devices
  <2> QED
    BY <1>0, <2>1, <2>2, <2>3, <2>4, LineGood, Rebuilt
<1>6. CASE CommandDone
  <2>1. /\ pc = "command" /\ pc' \in {"check", "quit"} /\ LineUp
        /\ UNCHANGED <<timer_ptr, notifier, dev, term>>
    BY <1>6 DEF CommandDone, Rest
  <2>2. PairGood(Pair)' /\ Kept
    BY <1>0, <1>k, <2>1, BecomesGood
  <2>3. TerminalAgrees'
    BY <2>1 DEF IInv, StdinGood, TerminalAgrees
  <2> QED
    BY <1>0, <1>n, <1>s, <2>1, <2>2, <2>3, LineGood, Rebuilt
<1>7. CASE CommandFails
  <2>1. /\ pc = "command" /\ pc' = "check" /\ LineUp /\ dev' = dev
        /\ timer_ptr' = timer_ptr /\ ToTopLevel(Pair)
    BY <1>0, <1>7 DEF CommandFails, Rest, ToTopLevel
  <2>2. /\ PairGood(Pair)' /\ term' \in Terminals /\ TerminalAgrees'
        /\ Spared
    BY <1>0, <2>1, TopLevelGood DEF Spared
  <2> QED
    BY <1>k, <1>s, <2>1, <2>2, LineGood, Rebuilt
<1> QED
  BY <1>1, <1>2, <1>3, <1>4, <1>5, <1>6, <1>7

(* Reads of the device, by a command or by its client.                     *)
LEMMA ReadKeeps ==
    ASSUME IInv, ReadBuffered \/ ReadKernel
    PROVE  IInv' /\ Kept /\ Spared
<1>0. /\ PairGood(Pair) /\ dev \in Devices
      /\ Pair.d = dev /\ Pair.n = notifier
      /\ StdinAgrees(Pair, term)
      /\ term \in Terminals
      /\ input \in [Fds -> 0..MaxWaiting] /\ hung \subseteq {"dev"}
  BY PairFacts DEF IInv
<1>1. ASSUME NEW b \in Buffers, dev' = reschedule(Buffered(Pair, b)).d,
             notifier' = reschedule(Buffered(Pair, b)).n, Reading,
             pc' \in AfterRead(pc), UNCHANGED <<timer_ptr, term>>,
             input' \in [Fds -> 0..MaxWaiting], hung' \subseteq {"dev"}
      PROVE  IInv' /\ dev'.bufcnt = b /\ Spared
  <2> DEFINE p == Buffered(Pair, b)
             q == reschedule(p)
  <2>1. /\ PairGood(p) /\ p.n = notifier /\ p.d.open = dev.open
        /\ p.d.bufcnt = b
    BY <1>0, BufferedGood
  <2>2. /\ PairGood(q) /\ Settled(q.d) /\ q.d.open = dev.open
        /\ q.d.bufcnt = b /\ Spares(notifier, q.n)
        /\ Registered(q.n, "stdin") <=> Registered(notifier, "stdin")
    <3> HIDE DEF p
    <3>1. Follows(q, p, p.n)
      BY <2>1, RescheduleFollows
    <3> QED
      BY <2>1, <3>1 DEF Follows
  <2>3. dev' = q.d /\ notifier' = q.n
    BY <1>1
  <2> HIDE DEF p, q
  <2>4. PairGood(Pair)'
    BY <2>2, <2>3, BecomesGood
  <2>5. TerminalAgrees'
    BY <1>0, <1>1, <2>2, <2>3 DEF TerminalAgrees, StdinAgrees, Registered
  <2>6. /\ pc # "timers" /\ pc' \in {"command", "getpkt", "packet"}
        /\ dev'.open
    BY <1>1, <2>2, <2>3 DEF Reading, AfterRead
  <2> QED
    BY <1>0, <1>1, <2>2, <2>3, <2>4, <2>5, <2>6, Rebuilt DEF Spared
<1>2. CASE ReadBuffered
  <2>1. dev.bufcnt - 1 \in Buffers
    BY <1>0, <1>2, RemoteEventsAssumption
    DEF Devices, Buffers, ReadBuffered, SERIAL_ERROR, SERIAL_EOF
  <2>2. IInv' /\ dev'.bufcnt = dev.bufcnt - 1 /\ Spared
    BY <1>0, <1>1, <1>2, <2>1 DEF ReadBuffered, Becomes, LineUp, Rest
  <2> QED
    BY <2>2 DEF Kept
<1>3. CASE ReadKernel
  <2>1. input["dev"] - 1 \in Buffers
    BY <1>0, <1>3, RemoteEventsAssumption DEF Buffers, ReadKernel
  <2>2. input' \in [Fds -> 0..MaxWaiting]
    BY <1>0, <1>3, RemoteEventsAssumption DEF ReadKernel
  <2>3. IInv' /\ Spared
    BY <1>0, <1>1, <1>3, <2>1, <2>2 DEF ReadKernel, Becomes, Rest
  <2> QED
    BY <1>3, <2>3 DEF Kept, ReadKernel
<1> QED
  BY <1>2, <1>3

(* A client that fails is out of the loop, with the terminal back.         *)
LEMMA ClientFailsKeeps ==
    ASSUME IInv, NEW p, PairGood(p), Settled(p.d), ClientFails(p),
           UNCHANGED timer_ptr, pc # "timers", Spares(notifier, p.n)
    PROVE  IInv' /\ Kept /\ Spared
<1> DEFINE n == OursNotifier(p.n, term, p.d.open)
           u == OursTerm(term, p.d.open)
           printed == [d |-> p.d, n |-> n]
           q == IF p.d.open THEN serial_close(printed) ELSE printed
<1>0. term \in Terminals /\ p.d.open \in BOOLEAN /\ p = [d |-> p.d, n |-> p.n]
  BY DEF IInv, PairGood, Devices
<1>1. PairGood(printed) /\ u \in Terminals /\ Spares(p.n, n)
  BY <1>0, OursGood
<1>2. printed.d = p.d /\ printed.n = n
  OBVIOUS
<1>3. printed = [p EXCEPT !.n = n]
  BY <1>0
<1>4. /\ dev' = q.d /\ notifier' = q.n
      /\ term' = [u EXCEPT !.sync = FALSE]
      /\ pc' = "reschedule" /\ LineDown
  BY <1>3 DEF ClientFails, Becomes
<1> HIDE DEF n, u, printed
<1>5. PairGood(q) /\ Settled(q.d) /\ q.d.open = FALSE
  BY <1>0, <1>1, <1>2, CloseGood
<1>8. Spares(notifier, q.n)
  <2>1. Spares(n, q.n)
    BY <1>0, <1>1, <1>2, CloseGood DEF Spares
  <2> QED
    BY <1>1, <2>1, SparesBoth
<1> HIDE DEF q
<1>6. PairGood(Pair)' /\ term' \in Terminals
  BY <1>1, <1>4, <1>5, BecomesGood DEF Terminals
<1>7. TerminalAgrees' /\ Kept /\ Spared
  BY <1>4, <1>5, <1>8 DEF TerminalAgrees, Kept, Spared
<1> QED
  BY <1>4, <1>5, <1>6, <1>7, LineGood, Rebuilt

(* See ReadKeeps: the end of the file, and an error that sticks.           *)
LEMMA ReadFailsKeeps ==
    ASSUME IInv, ReadFails
    PROVE  IInv' /\ Kept /\ Spared
<1> DEFINE rc == IF dev.bufcnt < 0 THEN dev.bufcnt ELSE SERIAL_EOF
           p == Buffered(Pair, rc)
           read == reschedule(p)
           q == IF rc = SERIAL_EOF THEN serial_close(read) ELSE read
<1>0. /\ PairGood(Pair) /\ dev \in Devices
      /\ Pair.d = dev /\ Pair.n = notifier
      /\ StdinAgrees(Pair, term)
      /\ term \in Terminals
  BY PairFacts DEF IInv
<1>1. /\ Reading /\ dev.bufcnt <= 0
      /\ IF pc = "command"
         THEN ToTopLevel(q) /\ IF rc = SERIAL_EOF THEN LineDown ELSE LineUp
         ELSE ClientFails(q)
      /\ UNCHANGED timer_ptr
  <2>1. Reading /\ (dev.bufcnt < 0 \/ dev.bufcnt = 0) /\ UNCHANGED timer_ptr
    BY DEF ReadFails, Rest
  <2>2. IF pc = "command"
        THEN ToTopLevel(q) /\ IF rc = SERIAL_EOF THEN LineDown ELSE LineUp
        ELSE ClientFails(q)
    BY DEF ReadFails
  <2> QED
    BY <1>0, <2>1, <2>2 DEF Devices, SERIAL_ERROR, SERIAL_EOF
<1>k. Kept
  BY <1>0, <1>1 DEF Kept, Devices, SERIAL_ERROR, SERIAL_EOF
<1>2. /\ PairGood(p) /\ p.n = notifier /\ p.d.open = dev.open
  <2>1. rc \in Buffers
    BY <1>0 DEF Devices, Buffers, SERIAL_ERROR, SERIAL_EOF
  <2> QED
    BY <1>0, <2>1, BufferedGood
<1> HIDE DEF p
<1>3. /\ PairGood(read) /\ Settled(read.d) /\ read.d.open = dev.open
      /\ Spares(notifier, read.n)
      /\ Registered(read.n, "stdin") <=> Registered(notifier, "stdin")
  <2>1. Follows(read, p, p.n)
    BY <1>2, RescheduleFollows
  <2> QED
    BY <1>2, <2>1 DEF Follows
<1> HIDE DEF read, rc
<1>4. /\ PairGood(q) /\ Settled(q.d) /\ Spares(notifier, q.n)
      /\ q.d.open = FALSE \/ q.d.open = dev.open
      /\ Registered(q.n, "stdin") <=> Registered(notifier, "stdin")
  BY <1>3, CloseGood, SparesBoth
<1>5. StdinAgrees(q, term)
  BY <1>0, <1>4 DEF StdinAgrees
<1> HIDE DEF q
<1>6. CASE pc = "command"
  <2>1. ToTopLevel(q) /\ (LineUp \/ LineDown)
    BY <1>1, <1>6
  <2>2. dev' = q.d /\ pc' = "check"
    BY <2>1 DEF ToTopLevel
  <2>3. /\ PairGood(Pair)' /\ term' \in Terminals /\ TerminalAgrees'
        /\ Spared
    BY <1>0, <1>4, <1>5, <2>1, TopLevelGood, SparesBoth DEF Spared
  <2> QED
    BY <1>k, <1>1, <1>4, <1>6, <2>1, <2>2, <2>3, LineGood, Rebuilt
<1>7. CASE pc # "command"
  <2>1. ClientFails(q) /\ pc # "timers"
    BY <1>1, <1>7 DEF Reading
  <2> QED
    BY <1>1, <1>4, <2>1, ClientFailsKeeps
<1> QED
  BY <1>6, <1>7

(* The handlers of the device: fd_event in its two outcomes, push_event,   *)
(* and what both end with.  An error is reported only while the descriptor *)
(* is with the loop, and so while nothing is read ahead.                   *)
LEMMA DeviceKeeps ==
    ASSUME IInv, fd_event \/ fd_event_error \/ push_event \/ EventEnds
    PROVE  IInv' /\ Kept /\ Spared
<1>0. /\ PairGood(Pair) /\ dev \in Devices /\ NotifierGood(notifier)
      /\ Pair.d = dev /\ Pair.n = notifier /\ Agrees(Pair)
      /\ dev.async => dev.open
      /\ StdinAgrees(Pair, term)
      /\ term \in Terminals
      /\ input \in [Fds -> 0..MaxWaiting] /\ hung \subseteq {"dev"}
  BY PairFacts DEF IInv, PairGood
<1>n. ASSUME notifier' = notifier PROVE Spared
  BY <1>n DEF Spared, Spares, Registered
<1>1. ASSUME NEW b \in Buffers, pc # "timers", pc' = "client",
             dev' = [dev EXCEPT !.bufcnt = b],
             UNCHANGED <<timer_ptr, notifier, hung, term>>,
             input' \in [Fds -> 0..MaxWaiting]
      PROVE  IInv'
  <2> DEFINE q == Buffered(Pair, b)
  <2>1. PairGood(q) /\ q.n = notifier
    BY <1>0, BufferedGood
  <2>2. q.d = dev'
    BY <1>0, <1>1 DEF Buffered, Pair
  <2> HIDE DEF q
  <2>3. PairGood(Pair)'
    BY <1>1, <2>1, <2>2, BecomesGood
  <2>4. dev'.open = dev.open
    BY <1>0, <1>1 DEF Devices
  <2> QED
    BY <1>0, <1>1, <2>3, <2>4 DEF IInv, StdinGood, TerminalAgrees
<1>2. CASE fd_event
  <2> DEFINE b == IF dev.bufcnt # 0 THEN dev.bufcnt
                  ELSE IF input["dev"] > 0 THEN input["dev"] ELSE SERIAL_EOF
  <2>1. /\ pc = "dev" /\ pc' = "client"
        /\ dev' = [dev EXCEPT !.bufcnt = b]
        /\ input' = [input EXCEPT !["dev"] = IF dev.bufcnt = 0 THEN 0 ELSE @]
        /\ UNCHANGED <<timer_ptr, notifier, hung, term>>
    BY <1>2 DEF fd_event, Rest
  <2>2. b \in Buffers
    BY <1>0, RemoteEventsAssumption DEF Devices, Buffers
  <2>3. input' \in [Fds -> 0..MaxWaiting]
    BY <1>0, <2>1, RemoteEventsAssumption
  <2>4. Kept
    BY <1>0, <2>1 DEF Kept, Devices
  <2> HIDE DEF b
  <2> QED
    BY <1>1, <1>n, <2>1, <2>2, <2>3, <2>4
<1>3. CASE fd_event_error
  <2>1. /\ pc = "error" /\ pc' = "client"
        /\ dev' = [dev EXCEPT !.bufcnt = SERIAL_ERROR]
        /\ UNCHANGED <<timer_ptr, notifier, input, hung, term>>
    BY <1>3 DEF fd_event_error, Rest, LineUp
  <2>2. dev.bufcnt = 0
    <3>1. Registered(notifier, "dev") /\ Settled(dev)
      BY <2>1 DEF IInv
    <3>2. dev.async /\ dev.state = FD_SCHEDULED
      BY <1>0, <3>1 DEF Agrees
    <3> QED
      BY <3>1, <3>2 DEF Settled
  <2> QED
    BY <1>0, <1>1, <1>n, <2>1, <2>2 DEF Buffers, SERIAL_ERROR, Kept
<1>4. CASE push_event
  <2>1. /\ pc = "timers" /\ timer_ptr # <<>> /\ timer_ptr' = Tail(timer_ptr)
        /\ notifier' = [notifier EXCEPT !.timers = Tail(@)]
        /\ dev' = [dev EXCEPT !.state = NOTHING_SCHEDULED]
        /\ pc' = "client"
        /\ UNCHANGED <<input, hung, term>>
    BY <1>4 DEF push_event, LineUp
  <2>2. timer_ptr = notifier.timers
    BY <2>1 DEF IInv
  <2>3. dev.async /\ notifier.timers = <<dev.state>>
        /\ ~Registered(notifier, "dev")
    BY <1>0, <2>1, <2>2 DEF Agrees
  <2>4. Tail(notifier.timers) = <<>>
    BY <2>3
  <2>5. /\ notifier' \in Notifiers /\ notifier'.timers = <<>>
        /\ notifier'.fds = notifier.fds /\ notifier'.ready = notifier.ready
    <3>1. notifier' = [notifier EXCEPT !.timers = <<>>]
      BY <2>1, <2>4
    <3>2. notifier' = [fds |-> notifier.fds, ready |-> notifier.ready,
                       timers |-> <<>>]
      BY <1>0, <3>1 DEF NotifierGood, Notifiers
    <3>3. notifier.fds \in Seq(Fds)
          /\ notifier.ready \in [Fds -> {"none", "in", "err"}]
      BY <1>0 DEF NotifierGood, Notifiers
    <3>4. <<>> \in Seq(Nat)
      OBVIOUS
    <3> QED
      BY <3>2, <3>3, <3>4 DEF Notifiers
  <2>6. NotifierGood(notifier')
    BY <1>0, <2>5 DEF NotifierGood
  <2>7. \A f : Registered(notifier', f) <=> Registered(notifier, f)
    BY <2>5 DEF Registered
  <2>8. /\ dev' \in Devices /\ dev'.open = dev.open /\ dev'.async = dev.async
        /\ dev'.state = NOTHING_SCHEDULED /\ dev'.bufcnt = dev.bufcnt
    BY <1>0, <2>1 DEF Devices
  <2> DEFINE q == [d |-> dev', n |-> notifier']
  <2>9. q.d = dev' /\ q.n = notifier' /\ q = [d |-> q.d, n |-> q.n]
    OBVIOUS
  <2> HIDE DEF q
  <2>10. Agrees(q)
    <3>1. q.d.async /\ q.d.state = NOTHING_SCHEDULED
      BY <2>3, <2>8, <2>9
    <3> QED
      BY <3>1, <2>3, <2>5, <2>7, <2>9
      DEF Agrees, FD_SCHEDULED, NOTHING_SCHEDULED
  <2>11. PairGood(Pair)'
    <3>1. PairGood(q)
      BY <1>0, <2>6, <2>8, <2>9, <2>10 DEF PairGood
    <3> QED
      BY <2>9, <3>1, BecomesGood
  <2>12. timer_ptr' = <<>>
    BY <2>1, <2>2, <2>4
  <2>13. Kept /\ Spared
    BY <1>0, <2>5, <2>7, <2>8 DEF Kept, Devices, Spared, Spares
  <2> QED
    BY <1>0, <2>1, <2>7, <2>8, <2>11, <2>12, <2>13
    DEF IInv, StdinGood, TerminalAgrees
<1>5. CASE EventEnds
  <2> DEFINE q == IF dev.open THEN reschedule(Pair) ELSE Pair
  <2>1. /\ pc = "reschedule" /\ pc' \in {"timers", "crashed"}
        /\ dev' = q.d /\ notifier' = q.n
        /\ LineUp /\ UNCHANGED <<timer_ptr, term>>
    BY <1>0, <1>5 DEF EventEnds, Becomes, Rest
  <2>2. /\ PairGood(q) /\ Settled(q.d) /\ q.d.open = dev.open
        /\ q.d.bufcnt = dev.bufcnt
        /\ Registered(q.n, "stdin") <=> Registered(notifier, "stdin")
        /\ Spares(notifier, q.n)
    <3>1. Follows(reschedule(Pair), Pair, Pair.n)
      BY <1>0, RescheduleFollows
    <3>2. Settled(dev)
      BY <2>1 DEF IInv
    <3> QED
      BY <1>0, <3>1, <3>2 DEF Follows, Spares
  <2> HIDE DEF q
  <2>3. PairGood(Pair)'
    BY <2>1, <2>2, BecomesGood
  <2>4. TerminalAgrees' /\ Kept /\ Spared
    BY <1>0, <2>1, <2>2
    DEF TerminalAgrees, Spared, Kept, StdinAgrees, Registered, Devices
  <2> QED
    BY <1>0, <2>1, <2>2, <2>3, <2>4, LineGood, Rebuilt
<1> QED
  BY <1>2, <1>3, <1>4, <1>5

(* What the client of the device does once it has a packet.                *)
LEMMA ClientKeeps ==
    ASSUME IInv,
           \/ ConsoleOutput \/ Stopped \/ StoppedAndResumed \/ Exited
           \/ ClientThrows
    PROVE  IInv' /\ Kept /\ Spared
<1>0. /\ PairGood(Pair) /\ dev \in Devices /\ NotifierGood(notifier)
      /\ Pair.d = dev /\ Pair.n = notifier /\ Pair = [d |-> dev, n |-> notifier]
      /\ StdinAgrees(Pair, term)
      /\ term \in Terminals
  BY PairFacts DEF IInv, Pair
<1>1. pc = "packet" /\ UNCHANGED timer_ptr
  BY DEF ConsoleOutput, Stopped, StoppedAndResumed, Exited, ClientThrows, Rest
<1>2. Settled(dev) /\ dev.open
  BY <1>1 DEF IInv
<1> DEFINE n == OursNotifier(notifier, term, TRUE)
           b == Back(Pair)
<1>3. b = [d |-> dev, n |-> n]
  <2>1. b = [Pair EXCEPT !.n = n]
    BY <1>0 DEF Back
  <2> HIDE DEF n, b
  <2> QED
    BY <1>0, <2>1
<1>4. /\ NotifierGood(n) /\ PairGood(b) /\ Registered(n, "stdin")
      /\ Spares(notifier, n)
  <2>1. /\ NotifierGood(n) /\ PairGood([d |-> dev, n |-> n])
        /\ Spares(notifier, n)
        /\ Registered(n, "stdin") <=>
               Recovered(term, TRUE) \/ Registered(notifier, "stdin")
    BY <1>0, OursGood
  <2>2. Recovered(term, TRUE) \/ Registered(notifier, "stdin")
    BY <1>0, <1>2 DEF Recovered, StdinAgrees, Terminals
  <2> QED
    BY <1>3, <2>1, <2>2
<1>5. b.d = dev /\ b.n = n
  BY <1>3
<1> HIDE DEF n, b
<1>6. CASE ConsoleOutput
  <2>1. pc' = "reschedule" /\ LineUp /\ UNCHANGED <<notifier, dev, term>>
    BY <1>6 DEF ConsoleOutput
  <2>2. PairGood(Pair)' /\ TerminalAgrees' /\ Kept /\ Spared
    BY <1>0, <2>1, BecomesGood
    DEF Kept, Spared, Spares, Registered, TerminalAgrees, IInv, StdinGood,
        Devices
  <2> QED
    BY <1>0, <1>1, <1>2, <2>1, <2>2, LineGood, Rebuilt
<1>7. CASE Stopped
  <2> DEFINE q == serial_async(b, FALSE)
  <2>1. /\ pc' = "reschedule" /\ LineUp /\ dev' = q.d /\ notifier' = q.n
        /\ term' = [sync |-> FALSE, ours |-> TRUE]
    BY <1>7 DEF Stopped, Becomes, b
  <2>2. /\ PairGood(q) /\ Settled(q.d) /\ q.d.bufcnt = dev.bufcnt
        /\ Registered(q.n, "stdin") /\ Spares(notifier, q.n)
    <3>1. /\ PairGood(q) /\ Settled(q.d) /\ q.d.bufcnt = dev.bufcnt
          /\ Registered(q.n, "stdin") /\ Spares(n, q.n)
      BY <1>2, <1>4, <1>5, AsyncGood
    <3> HIDE DEF q
    <3> QED
      BY <1>4, <3>1, SparesBoth
  <2> HIDE DEF q
  <2>3. PairGood(Pair)' /\ term' \in Terminals
    BY <2>1, <2>2, BecomesGood DEF Terminals
  <2>4. TerminalAgrees' /\ Kept /\ Spared
    BY <1>0, <2>1, <2>2 DEF TerminalAgrees, Spared, Kept, Registered, Devices
  <2> QED
    BY <1>1, <2>1, <2>2, <2>3, <2>4, LineGood, Rebuilt
<1>8. CASE StoppedAndResumed
  <2> DEFINE stopped == serial_async(b, FALSE)
             m == delete_file_handler(stopped.n, "stdin")
             given == [d |-> stopped.d, n |-> m]
             q == serial_async(given, TRUE)
  <2>1. /\ PairGood(stopped) /\ Settled(stopped.d)
        /\ stopped.d.bufcnt = dev.bufcnt /\ stopped.d.open = dev.open
        /\ Spares(notifier, stopped.n)
    <3>1. /\ PairGood(stopped) /\ Settled(stopped.d)
          /\ stopped.d.bufcnt = dev.bufcnt /\ stopped.d.open = dev.open
          /\ Spares(n, stopped.n)
      BY <1>2, <1>4, <1>5, AsyncGood
    <3> HIDE DEF stopped
    <3> QED
      BY <1>4, <3>1, SparesBoth
  <2>2. given = [stopped EXCEPT !.n = delete_file_handler(@, "stdin")]
    <3> HIDE DEF stopped
    <3>1. stopped = [d |-> stopped.d, n |-> stopped.n]
      BY <2>1 DEF PairGood
    <3> QED
      BY <3>1
  <2>3. /\ pc' = "reschedule" /\ LineUp /\ dev' = q.d /\ notifier' = q.n
        /\ term' = [sync |-> TRUE, ours |-> FALSE]
    BY <1>8, <2>2 DEF StoppedAndResumed, Becomes, b
  <2>4. PairGood(given) /\ ~Registered(m, "stdin") /\ Spares(notifier, m)
    <3>1. "stdin" \in Fds /\ "dev" # "stdin"
      BY RemoteEventsAssumption
    <3>2. NotifierGood(stopped.n)
      BY <2>1 DEF PairGood
    <3>3. /\ NotifierGood(m) /\ m.timers = stopped.n.timers
          /\ ~Registered(m, "stdin") /\ Spares(stopped.n, m)
          /\ Registered(m, "dev") <=> Registered(stopped.n, "dev")
      BY <3>1, <3>2, DeleteHandler
    <3> HIDE DEF stopped, m
    <3> QED
      BY <2>1, <3>3, MovedGood, SparesBoth
  <2>5. given.d = stopped.d /\ given.n = m
    OBVIOUS
  <2> HIDE DEF stopped, m, given
  <2>6. /\ PairGood(q) /\ Settled(q.d) /\ q.d.bufcnt = dev.bufcnt
        /\ ~Registered(q.n, "stdin") /\ Spares(notifier, q.n)
    <3>1. given.d.open /\ Settled(given.d)
      BY <1>2, <2>1, <2>5
    <3>2. /\ PairGood(q) /\ Settled(q.d) /\ q.d.bufcnt = given.d.bufcnt
          /\ Registered(q.n, "stdin") <=> Registered(given.n, "stdin")
          /\ Spares(given.n, q.n)
      BY <2>4, <3>1, AsyncGood
    <3> QED
      BY <2>1, <2>4, <2>5, <3>2, SparesBoth
  <2> HIDE DEF q
  <2>7. PairGood(Pair)' /\ term' \in Terminals
    BY <2>3, <2>6, BecomesGood DEF Terminals
  <2>8. TerminalAgrees' /\ Kept /\ Spared
    BY <1>0, <2>3, <2>6 DEF TerminalAgrees, Spared, Kept, Registered, Devices
  <2> QED
    BY <1>1, <2>3, <2>6, <2>7, <2>8, LineGood, Rebuilt
<1>9. CASE Exited
  <2> DEFINE q == serial_close(b)
  <2>1. /\ pc' = "reschedule" /\ LineDown /\ dev' = q.d /\ notifier' = q.n
        /\ term' = [sync |-> FALSE, ours |-> TRUE]
    BY <1>9 DEF Exited, Becomes, b
  <2>2. /\ PairGood(q) /\ Settled(q.d) /\ q.d.open = FALSE
        /\ Spares(notifier, q.n)
    BY <1>2, <1>4, <1>5, CloseGood, SparesBoth
  <2> HIDE DEF q
  <2>3. PairGood(Pair)' /\ term' \in Terminals
    BY <2>1, <2>2, BecomesGood DEF Terminals
  <2>4. TerminalAgrees' /\ Kept /\ Spared
    BY <2>1, <2>2 DEF TerminalAgrees, Kept, Spared
  <2> QED
    BY <1>1, <2>1, <2>2, <2>3, <2>4, LineGood, Rebuilt
<1>10. CASE ClientThrows
  <2>1. ClientFails(Pair)
    BY <1>10 DEF ClientThrows
  <2>2. Spares(notifier, Pair.n)
    BY <1>0 DEF Spares
  <2> QED
    BY <1>0, <1>1, <1>2, <2>1, <2>2, ClientFailsKeeps
<1> QED
  BY <1>6, <1>7, <1>8, <1>9, <1>10

(* A signal handler that runs, and everything that is not gdb.             *)
LEMMA OthersKeep ==
    ASSUME IInv, InvokeNext \/ Environment \/ UNCHANGED vars
    PROVE  IInv' /\ Kept /\ Spared
<1>0. /\ PairGood(Pair) /\ dev \in Devices
      /\ Pair.d = dev /\ Pair.n = notifier
      /\ StdinAgrees(Pair, term)
      /\ term \in Terminals
      /\ input \in [Fds -> 0..MaxWaiting] /\ hung \subseteq {"dev"}
  BY PairFacts DEF IInv
<1>k. ASSUME dev' = dev PROVE Kept
  BY <1>0, <1>k DEF Kept, Devices
<1>1. ASSUME UNCHANGED <<notifier, dev, term, timer_ptr>>,
             pc' = pc \/ (pc = "poll" /\ pc' = "check2"),
             input' \in [Fds -> 0..MaxWaiting], hung' \subseteq {"dev"}
      PROVE  IInv' /\ Kept /\ Spared
  <2>1. PairGood(Pair)'
    BY <1>0, <1>1, BecomesGood
  <2> QED
    BY <1>1, <1>k, <2>1
    DEF IInv, StdinGood, TerminalAgrees, Spared, Spares, Registered
<1>2. CASE InvokeNext
  <2>1. /\ pc = "invoke" /\ LineUp /\ UNCHANGED timer_ptr
        /\ \/ ToTopLevel(Pair)
           \/ UNCHANGED <<pc, notifier, dev, term>>
    BY <1>2 DEF InvokeNext
  <2>2. CASE ToTopLevel(Pair)
    <3>1. /\ PairGood(Pair)' /\ term' \in Terminals /\ TerminalAgrees'
          /\ pc' = "check" /\ dev' = dev /\ Spared
      BY <1>0, <2>2, TopLevelGood DEF ToTopLevel, Spared
    <3>2. Settled(dev)
      BY <2>1 DEF IInv
    <3> QED
      BY <1>k, <2>1, <3>1, <3>2, LineGood, Rebuilt
  <2>3. CASE UNCHANGED <<pc, notifier, dev, term>>
    BY <1>1, <2>1, <2>3, LineGood
  <2> QED
    BY <2>1, <2>2, <2>3
<1>3. CASE handle_sigint \/ handle_sigfpe
  BY <1>0, <1>1, <1>3
  DEF handle_sigint, handle_sigfpe, Signal, Interrupt
<1>4. CASE \E f \in Fds : Arrives(f)
  <2>1. PICK f \in Fds : Arrives(f)
    BY <1>4
  <2>2. /\ input' = [input EXCEPT ![f] = @ + 1]
        /\ input[f] < MaxWaiting
        /\ UNCHANGED <<pc, timer_ptr, notifier, hung, dev, term>>
    BY <2>1 DEF Arrives
  <2>3. input' \in [Fds -> 0..MaxWaiting]
    <3>1. input[f] + 1 \in 0..MaxWaiting
      BY <1>0, <2>2, RemoteEventsAssumption
    <3> QED
      BY <1>0, <2>2, <3>1
  <2> QED
    BY <1>0, <1>1, <2>2, <2>3
<1>5. CASE HangsUp \/ UNCHANGED vars
  BY <1>0, <1>1, <1>5 DEF HangsUp, vars
<1> QED
  BY <1>2, <1>3, <1>4, <1>5 DEF Environment

(* The initial state.                                                      *)
LEMMA InitGood == Init => IInv /\ SignalsGood /\ MarksKept
<1> SUFFICES ASSUME Init PROVE IInv /\ SignalsGood /\ MarksKept
  OBVIOUS
<1> DEFINE n == [fds |-> <<"stdin">>, ready |-> [f \in Fds |-> "none"],
                 timers |-> <<>>]
           p == [d |-> NoDevice, n |-> n]
<1>1. /\ pc = "check" /\ timer_ptr = <<>> /\ notifier = n /\ hung = {}
      /\ input = [f \in Fds |-> 0] /\ dev = NoDevice
      /\ signals = [ready |-> {}, flag |-> FALSE]
      /\ term = [sync |-> FALSE, ours |-> TRUE]
  BY DEF Init, LoopInit
<1>2. n \in Notifiers /\ n.ready["stdin"] # "err" /\ n.timers = <<>>
      /\ n.fds = <<"stdin">>
  BY RemoteEventsAssumption DEF Notifiers
<1>3. NotifierGood(n)
  BY <1>2 DEF NotifierGood, Distinct
<1>4. ~Registered(n, "dev")
  BY <1>2 DEF Registered
<1> HIDE DEF n
<1>5. NoDevice \in Devices /\ NoDevice.async = FALSE /\ NoDevice.open = FALSE
  BY RemoteEventsAssumption DEF NoDevice, Devices
<1>6. p.d = NoDevice /\ p.n = n /\ p = [d |-> p.d, n |-> p.n]
  OBVIOUS
<1> HIDE DEF p
<1>7. Agrees(p) /\ Settled(NoDevice)
  BY <1>2, <1>4, <1>5, <1>6 DEF Agrees, Settled
<1>8. PairGood(p)
  BY <1>3, <1>5, <1>6, <1>7 DEF PairGood
<1>9. Pair = p
  BY <1>1 DEF Pair, p
<1>10. /\ input \in [Fds -> 0..MaxWaiting] /\ term \in Terminals
       /\ TerminalAgrees /\ SignalsGood /\ MarksKept
  BY <1>1, <1>5, RemoteEventsAssumption
  DEF Terminals, TerminalAgrees, SignalsGood, MarksKept
<1> QED
  BY <1>1, <1>7, <1>8, <1>9, <1>10 DEF IInv, StdinGood

(* Every step keeps the invariant and what was read ahead.                 *)
LEMMA StepKeeps == IInv /\ [Next]_vars =>
                       IInv' /\ Kept /\ (Spared \/ LoopStep)
<1> SUFFICES ASSUME IInv, [Next]_vars
             PROVE  IInv' /\ Kept /\ (Spared \/ LoopStep)
  OBVIOUS
<1> QED
  BY LoopKeeps, CommandKeeps, ReadKeeps, ReadFailsKeeps, DeviceKeeps,
     ClientKeeps, OthersKeep DEF Next, GdbStep

(* A set of natural numbers with 0 and the next of each is all of them.    *)
LEMMA AllNat ==
    ASSUME NEW S \in SUBSET Nat, 0 \in S, \A k \in S : k + 1 \in S
    PROVE  S = Nat
<1> SUFFICES ASSUME Nat \ S # {}
             PROVE  FALSE
  OBVIOUS
<1> DEFINE T == Nat \ S
<1>1. IsWellFoundedOn(OpToRel(<, Nat), Nat)
  BY NatLessThanWellFounded
<1>2. T \in SUBSET Nat /\ T # {}
  OBVIOUS
<1> HIDE DEF T
<1>3. PICK x \in T : \A y \in T : ~(<<y, x>> \in OpToRel(<, Nat))
  BY <1>1, <1>2, WFMin
<1>4. x \in Nat /\ x \notin S /\ x # 0
  BY DEF T
<1>5. x - 1 \in Nat /\ x - 1 \in S
  <2>1. x - 1 \in Nat /\ x - 1 < x
    BY <1>4
  <2>2. x - 1 \notin T
    BY <1>3, <1>4, <2>1 DEF OpToRel
  <2> QED
    BY <2>1, <2>2 DEF T
<1>6. (x - 1) + 1 = x
  BY <1>4
<1> QED
  BY <1>4, <1>5, <1>6

(* The queue after one more file handler has been looked at.               *)
Walked(n, found, k, q) == IF Due(n, found, n.fds[k])
                          THEN Append(q, n.fds[k]) ELSE q

(* The walk over the file handlers is defined, up to any of them.          *)
LEMMA WalkDefined ==
    ASSUME NEW n, NEW found, NEW m \in Nat
    PROVE  \E u : u = [k \in 0..m |-> IF k = 0 THEN <<>>
                                      ELSE Walked(n, found, k, u[k-1])]
<1> DEFINE P(j, u) == u = [k \in 0..j |-> IF k = 0 THEN <<>>
                                          ELSE Walked(n, found, k, u[k-1])]
           S == {j \in Nat : \E u : P(j, u)}
<1>1. 0 \in S
  <2> DEFINE u == [k \in 0..0 |-> <<>>]
  <2>1. P(0, u)
    OBVIOUS
  <2> QED
    BY <2>1
<1>2. ASSUME NEW j \in S PROVE j + 1 \in S
  <2>1. PICK g : P(j, g)
    OBVIOUS
  <2>2. j \in Nat
    OBVIOUS
  <2> DEFINE i == j + 1
             u == [k \in 0..i |-> IF k = i THEN Walked(n, found, i, g[j])
                                            ELSE g[k]]
  <2>3. i \in Nat /\ i # 0 /\ i - 1 = j /\ j \in 0..i /\ j # i
    BY <2>2
  <2>4. u[i] = Walked(n, found, i, g[j]) /\ u[j] = g[j]
    BY <2>3
  <2>5. ASSUME NEW k \in 0..i
        PROVE  u[k] = IF k = 0 THEN <<>> ELSE Walked(n, found, k, u[k-1])
    <3>1. CASE k = i
      BY <2>3, <2>4, <3>1
    <3>2. CASE k # i
      <4>1. k \in 0..j /\ u[k] = g[k]
        BY <2>2, <3>2
      <4>2. g[k] = IF k = 0 THEN <<>> ELSE Walked(n, found, k, g[k-1])
        BY <2>1, <4>1
      <4>3. k # 0 => u[k-1] = g[k-1]
        <5>1. k # 0 => k - 1 \in 0..i /\ k - 1 # i
          BY <2>2, <4>1
        <5> QED
          BY <5>1
      <4> QED
        BY <4>1, <4>2, <4>3
    <3> QED
      BY <3>1, <3>2
  <2>6. u = [k \in 0..i |-> u[k]]
    OBVIOUS
  <2> HIDE DEF u
  <2>7. P(i, u)
    BY <2>5, <2>6
  <2>8. i \in S
    BY <2>3, <2>7
  <2> QED
    BY <2>8
<1>3. S \in SUBSET Nat
  OBVIOUS
<1> HIDE DEF S
<1>4. S = Nat
  BY <1>1, <1>2, <1>3, AllNat
<1>5. m \in S
  BY <1>4
<1> QED
  BY <1>5 DEF S

(* x is an element of the sequence s.                                      *)
In(x, s) == x \in {s[i] : i \in 1..Len(s)}

(* A longer sequence has the elements of the shorter one, and the new.     *)
LEMMA InAppend ==
    ASSUME NEW S, NEW s \in Seq(S), NEW x \in S
    PROVE  /\ Append(s, x) \in Seq(S)
           /\ In(x, Append(s, x))
           /\ \A y : In(y, s) => In(y, Append(s, x))
<1>1. /\ Len(s) \in Nat /\ Append(s, x) \in Seq(S)
      /\ Len(Append(s, x)) = Len(s) + 1
      /\ \A i \in 1..Len(s) : Append(s, x)[i] = s[i]
      /\ Append(s, x)[Len(s) + 1] = x
  BY LenProperties
<1>2. Len(s) + 1 \in 1..Len(Append(s, x))
      /\ 1..Len(s) \subseteq 1..Len(Append(s, x))
  BY <1>1
<1> QED
  BY <1>1, <1>2 DEF In

(* See InAppend.                                                           *)
LEMMA InConcat ==
    ASSUME NEW S, NEW s \in Seq(S), NEW t \in Seq(S)
    PROVE  /\ s \o t \in Seq(S)
           /\ \A y : In(y, s) \/ In(y, t) => In(y, s \o t)
<1>1. /\ Len(s) \in Nat /\ Len(t) \in Nat
      /\ s \o t \in Seq(S) /\ Len(s \o t) = Len(s) + Len(t)
      /\ \A i \in 1..Len(s) + Len(t) :
            (s \o t)[i] = IF i <= Len(s) THEN s[i] ELSE t[i - Len(s)]
  BY LenProperties, ConcatProperties
<1>2. ASSUME NEW i \in 1..Len(s)
      PROVE  i \in 1..Len(s \o t) /\ (s \o t)[i] = s[i]
  BY <1>1
<1>3. ASSUME NEW i \in 1..Len(t)
      PROVE  Len(s) + i \in 1..Len(s \o t) /\ (s \o t)[Len(s) + i] = t[i]
  BY <1>1
<1>4. ASSUME NEW y, In(y, s) PROVE In(y, s \o t)
  <2>1. PICK i \in 1..Len(s) : y = s[i]
    BY <1>4 DEF In
  <2> QED
    BY <1>2, <2>1 DEF In
<1>5. ASSUME NEW y, In(y, t) PROVE In(y, s \o t)
  <2>1. PICK i \in 1..Len(t) : y = t[i]
    BY <1>5 DEF In
  <2> QED
    BY <1>3, <2>1 DEF In
<1> QED
  BY <1>1, <1>4, <1>5

(* The tail of a sequence lacks no element but the head.                   *)
LEMMA InTail ==
    ASSUME NEW S, NEW s \in Seq(S), s # <<>>
    PROVE  /\ Tail(s) \in Seq(S) /\ Head(s) \in S
           /\ \A y : In(y, s) /\ y # Head(s) => In(y, Tail(s))
<1>1. /\ Tail(s) \in Seq(S) /\ Head(s) = s[1] /\ Head(s) \in S
      /\ Len(s) \in Nat \ {0} /\ Len(Tail(s)) = Len(s) - 1
      /\ \A i \in 1..Len(Tail(s)) : Tail(s)[i] = s[i+1]
  BY HeadTailProperties, LenProperties, EmptySeq
<1>2. ASSUME NEW y, In(y, s), y # Head(s) PROVE In(y, Tail(s))
  <2>1. PICK i \in 1..Len(s) : y = s[i]
    BY <1>2 DEF In
  <2>2. i # 1
    BY <1>1, <1>2, <2>1
  <2>3. i - 1 \in 1..Len(Tail(s)) /\ Tail(s)[i - 1] = s[(i - 1) + 1]
        /\ (i - 1) + 1 = i
    BY <1>1, <2>2
  <2> QED
    BY <2>1, <2>3 DEF In
<1> QED
  BY <1>1, <1>2

(* Every descriptor that is due gets its event.                            *)
LEMMA AllEnqueued ==
    ASSUME NEW n, NotifierGood(n), NEW found
    PROVE  /\ Enqueued(n, found) \in Seq(Fds)
           /\ \A f : Registered(n, f) /\ Due(n, found, f)
                         => In(f, Enqueued(n, found))
<1> DEFINE L == Len(n.fds)
           u == CHOOSE u : u = [k \in 0..L |->
                    IF k = 0 THEN <<>> ELSE Walked(n, found, k, u[k-1])]
           Done(k) == /\ u[k] \in Seq(Fds)
                      /\ \A i \in 1..k : Due(n, found, n.fds[i])
                                             => In(n.fds[i], u[k])
           S == {k \in Nat : k \in 0..L => Done(k)}
<1>1. /\ L \in Nat /\ \A i \in 1..L : n.fds[i] \in Fds
  BY LenProperties, ElementOfSeq DEF NotifierGood, Notifiers
<1>2. Enqueued(n, found) = u[L]
  BY DEF Enqueued, Walked
<1>3. u = [k \in 0..L |-> IF k = 0 THEN <<>>
                          ELSE Walked(n, found, k, u[k-1])]
  BY <1>1, WalkDefined
<1> HIDE DEF u, L
<1>4. u[0] = <<>> /\ \A k \in 1..L : u[k] = Walked(n, found, k, u[k-1])
  <2>1. 0 \in 0..L /\ \A k \in 1..L : k \in 0..L /\ k # 0
    BY <1>1
  <2> QED
    BY <1>3, <2>1
<1>5. 0 \in S
  <2>1. Done(0)
    BY <1>4
  <2> HIDE DEF Done
  <2> QED
    BY <2>1
<1>6. ASSUME NEW k \in S PROVE k + 1 \in S
  <2> SUFFICES ASSUME k + 1 \in 0..L PROVE Done(k + 1)
    OBVIOUS
  <2> DEFINE i == k + 1
  <2>1. k \in Nat /\ k \in 0..L /\ i \in 1..L /\ i - 1 = k
        /\ 1..i = (1..k) \union {i}
    BY <1>1
  <2>2. u[k] \in Seq(Fds) /\ \A j \in 1..k : Due(n, found, n.fds[j])
                                                 => In(n.fds[j], u[k])
    BY <2>1
  <2>3. u[i] = Walked(n, found, i, u[k]) /\ n.fds[i] \in Fds
    BY <1>1, <1>4, <2>1
  <2> HIDE DEF i
  <2>4. CASE Due(n, found, n.fds[i])
    <3>1. u[i] = Append(u[k], n.fds[i])
      BY <2>3, <2>4 DEF Walked
    <3>2. /\ u[i] \in Seq(Fds) /\ In(n.fds[i], u[i])
          /\ \A y : In(y, u[k]) => In(y, u[i])
      BY <2>2, <2>3, <3>1, InAppend
    <3>3. Done(i)
      BY <2>1, <2>2, <3>2
    <3> QED
      BY <3>3 DEF i
  <2>5. CASE ~Due(n, found, n.fds[i])
    <3>1. u[i] = u[k]
      BY <2>3, <2>5 DEF Walked
    <3>2. Done(i)
      BY <2>1, <2>2, <2>5, <3>1
    <3> QED
      BY <3>2 DEF i
  <2> QED
    BY <2>4, <2>5
<1>7. S \in SUBSET Nat
  OBVIOUS
<1>8. Done(L)
  <2> HIDE DEF Done
  <2>1. S \in SUBSET Nat /\ 0 \in S /\ \A k \in S : k + 1 \in S
    BY <1>5, <1>6, <1>7
  <2> HIDE DEF S
  <2>2. L \in S
    BY <1>1, <2>1, AllNat
  <2>3. L \in 0..L
    BY <1>1
  <2> QED
    BY <2>2, <2>3 DEF S
<1> QED
  BY <1>2, <1>8 DEF Registered, L

(* What is known of the queue.                                             *)
QueueGood == queue \in Seq(Fds \union {Timer}) /\ NoDeafDescriptor

(* The loop takes events out of the queue as it clears their ready_mask,   *)
(* and sets no ready_mask without an event.                                *)
LEMMA LoopQueues ==
    ASSUME IInv, QueueGood, LoopStep
    PROVE  QueueGood'
<1>0. /\ NotifierGood(notifier) /\ notifier \in Notifiers
      /\ queue \in Seq(Fds \union {Timer})
      /\ \A f \in Fds : notifier.ready[f] # "none"
                            => Registered(notifier, f) /\ In(f, queue)
  BY PairFacts DEF NotifierGood, QueueGood, NoDeafDescriptor, In
<1>1. ASSUME queue' \in Seq(Fds \union {Timer}),
             \A f \in Fds : notifier'.ready[f] # "none"
                                => Registered(notifier', f) /\ In(f, queue')
      PROVE  QueueGood'
  BY <1>1 DEF QueueGood, NoDeafDescriptor, Registered, In
<1>2. CASE ProcessEvent
  <2>1. queue # <<>> /\ queue' = Tail(queue)
    BY <1>2 DEF ProcessEvent
  <2>2. /\ queue' \in Seq(Fds \union {Timer})
        /\ Head(queue) \in Fds \union {Timer}
        /\ \A f : In(f, queue) /\ f # Head(queue) => In(f, queue')
    BY <1>0, <2>1, InTail
  <2>3. CASE Head(queue) = Timer
    <3>1. notifier' = notifier
      BY <1>2, <2>3 DEF ProcessEvent
    <3>2. Timer \notin Fds
      BY TimerAssumption
    <3> QED
      BY <1>0, <1>1, <2>2, <2>3, <3>1, <3>2
  <2>4. CASE Head(queue) # Timer
    <3> DEFINE h == Head(queue)
    <3>1. notifier' = [notifier EXCEPT !.ready[h] = "none"] /\ h \in Fds
      BY <1>2, <2>2, <2>4 DEF ProcessEvent, Cleared
    <3>2. /\ notifier'.fds = notifier.fds
          /\ notifier'.ready = [notifier.ready EXCEPT ![h] = "none"]
      BY <1>0, <3>1 DEF Notifiers
    <3>3. notifier.ready \in [Fds -> {"none", "in", "err"}]
      BY <1>0 DEF Notifiers
    <3> HIDE DEF h
    <3>4. \A f \in Fds : notifier'.ready[f] # "none" =>
              f # h /\ notifier.ready[f] # "none"
      BY <3>1, <3>2, <3>3
    <3>5. \A f : Registered(notifier, f) => Registered(notifier', f)
      BY <3>2 DEF Registered
    <3> QED
      BY <1>0, <1>1, <2>2, <3>4, <3>5 DEF h
  <2> QED
    BY <2>3, <2>4
<1>3. CASE PollReturns
  <2>1. PICK found \in [Fds -> {"none", "in", "err"}] :
            /\ \A f \in Fds : found[f] \in IF Registered(notifier, f)
                                            THEN Revents(f) ELSE {"none"}
            /\ queue' = queue \o Enqueued(notifier, found)
            /\ notifier' = [notifier EXCEPT !.ready =
                   [f \in Fds |-> IF found[f] = "none" THEN @[f] ELSE found[f]]]
    BY <1>3 DEF PollReturns
  <2>2. /\ notifier'.fds = notifier.fds
        /\ \A f \in Fds : notifier'.ready[f] =
               IF found[f] = "none" THEN notifier.ready[f] ELSE found[f]
    BY <1>0, <2>1 DEF Notifiers
  <2> DEFINE e == Enqueued(notifier, found)
  <2>3. /\ e \in Seq(Fds \union {Timer})
        /\ \A f : Registered(notifier, f) /\ Due(notifier, found, f)
                      => In(f, e)
    <3>1. Seq(Fds) \subseteq Seq(Fds \union {Timer})
      OBVIOUS
    <3> QED
      BY <1>0, <3>1, AllEnqueued
  <2> HIDE DEF e
  <2>4. /\ queue' \in Seq(Fds \union {Timer})
        /\ \A f : In(f, queue) \/ In(f, e) => In(f, queue')
    BY <1>0, <2>1, <2>3, InConcat DEF e
  <2>5. \A f : Registered(notifier, f) => Registered(notifier', f)
    BY <2>2 DEF Registered
  <2>6. ASSUME NEW f \in Fds, notifier'.ready[f] # "none"
        PROVE  Registered(notifier', f) /\ In(f, queue')
    <3>1. CASE notifier.ready[f] # "none"
      BY <1>0, <2>4, <2>5, <3>1
    <3>2. CASE notifier.ready[f] = "none"
      <4>1. found[f] # "none"
        BY <2>2, <2>6, <3>2
      <4>2. Registered(notifier, f)
        BY <2>1, <4>1
      <4> QED
        BY <2>3, <2>4, <2>5, <3>2, <4>1, <4>2 DEF Due
    <3> QED
      BY <3>1, <3>2
  <2> QED
    BY <1>1, <2>4, <2>6
<1>4. CASE poll_timers
  <2>1. notifier' = notifier
        /\ queue' = IF notifier.timers # <<>> THEN Append(queue, Timer)
                                              ELSE queue
    BY <1>4 DEF poll_timers
  <2>2. /\ queue' \in Seq(Fds \union {Timer})
        /\ \A f : In(f, queue) => In(f, queue')
    BY <1>0, <2>1, InAppend
  <2> QED
    BY <1>0, <1>1, <2>1, <2>2
<1>5. CASE \/ InvokeStart \/ InvokeEnd \/ NothingQueued \/ TimersDone
           \/ EnterWait
  <2>1. notifier' = notifier /\ queue' = queue
    BY <1>5 DEF InvokeStart, InvokeEnd, NothingQueued, TimersDone, EnterWait
  <2> QED
    BY <1>0, <1>1, <2>1
<1> QED
  BY <1>2, <1>3, <1>4, <1>5 DEF LoopStep

(* Nobody else touches the queue.                                          *)
LEMMA OthersLeaveQueue ==
    ASSUME [Next]_vars, ~LoopStep
    PROVE  queue' = queue
<1>1. CASE \/ stdin_event_handler \/ remote_open \/ remote_disconnect
           \/ async_disable_stdin \/ remote_resume \/ CommandDone
           \/ CommandFails
  BY <1>1 DEF stdin_event_handler, remote_open, remote_disconnect, Typed, Rest,
              async_disable_stdin, remote_resume, CommandDone, CommandFails
<1>2. CASE \/ ReadBuffered \/ ReadKernel \/ ReadFails \/ fd_event
           \/ fd_event_error \/ push_event \/ EventEnds
  BY <1>2 DEF ReadBuffered, ReadKernel, ReadFails, fd_event, fd_event_error,
              push_event, EventEnds, Rest
<1>3. CASE \/ ConsoleOutput \/ Stopped \/ StoppedAndResumed \/ Exited
           \/ ClientThrows \/ InvokeNext
  BY <1>3 DEF ConsoleOutput, Stopped, StoppedAndResumed, Exited, ClientThrows,
              InvokeNext, Rest
<1>4. CASE Environment \/ UNCHANGED vars
  BY <1>4 DEF Environment, handle_sigint, handle_sigfpe, Signal, Interrupt,
              Arrives, HangsUp, vars
<1> QED
  BY <1>1, <1>2, <1>3, <1>4 DEF Next, GdbStep

(* No step makes a descriptor deaf.                                        *)
LEMMA QueueKeeps ==
    ASSUME IInv, QueueGood, [Next]_vars
    PROVE  QueueGood'
<1>1. CASE LoopStep
  BY <1>1, LoopQueues
<1>2. CASE ~LoopStep
  <2>1. queue' = queue /\ Spared
    BY <1>2, OthersLeaveQueue, StepKeeps
  <2> QED
    BY <2>1 DEF QueueGood, NoDeafDescriptor, Spared, Spares, Registered
<1> QED
  BY <1>1, <1>2

(* The rest of the types, which no property depends on.                    *)
OddsGood == /\ pc \in Places
            /\ quit_flag \in BOOLEAN
            /\ stranded \subseteq Tokens
            /\ budget \in [input : [Fds -> Nat], signals : 0..MaxSignals]

(* See OddsGood.                                                           *)
LEMMA OddsKeep ==
    ASSUME IInv, SignalsGood, SignalsGood', QueueGood, OddsGood, [Next]_vars
    PROVE  OddsGood'
<1> USE DEF OddsGood, Places
<1>1. CASE LoopStep /\ UNCHANGED <<dev, term, quit_flag, stranded, budget>>
  <2>1. CASE ProcessEvent
    <3>1. pc' = "timers" \/ pc' = ProcOf(Head(queue))
      BY <2>1 DEF ProcessEvent
    <3>2. ProcOf(Head(queue)) \in Places
      <4>1. Registered(notifier, Head(queue)) => Head(queue) \in Fds
        BY PairFacts, ElementOfSeq DEF NotifierGood, Notifiers, Registered
      <4> QED
        BY <4>1, RemoteEventsAssumption DEF ProcOf
    <3> QED
      BY <1>1, <3>1, <3>2
  <2>2. CASE \/ InvokeStart \/ InvokeEnd \/ NothingQueued \/ TimersDone
             \/ poll_timers \/ EnterWait \/ PollReturns
    BY <1>1, <2>2 DEF InvokeStart, InvokeEnd, NothingQueued, TimersDone,
                      poll_timers, EnterWait, PollReturns
  <2> QED
    BY <1>1, <2>1, <2>2 DEF LoopStep
<1>2. CASE \/ stdin_event_handler \/ remote_open \/ remote_disconnect
           \/ async_disable_stdin \/ remote_resume \/ CommandDone
           \/ CommandFails
  BY <1>2 DEF stdin_event_handler, remote_open, remote_disconnect, Typed, Rest,
              async_disable_stdin, remote_resume, CommandDone, CommandFails,
              ToTopLevel
<1>3. CASE ReadBuffered \/ ReadKernel \/ ReadFails
  BY <1>3 DEF ReadBuffered, ReadKernel, ReadFails, AfterRead, ClientFails,
              ToTopLevel, Rest
<1>4. CASE fd_event \/ fd_event_error \/ push_event \/ EventEnds
  BY <1>4 DEF fd_event, fd_event_error, push_event, EventEnds, Rest
<1>5. CASE \/ ConsoleOutput \/ Stopped \/ StoppedAndResumed \/ Exited
           \/ ClientThrows
  BY <1>5 DEF ConsoleOutput, Stopped, StoppedAndResumed, Exited, ClientThrows,
              ClientFails, Rest
<1>6. CASE InvokeNext
  BY <1>6 DEF InvokeNext, ToTopLevel, SignalsGood
<1>7. CASE handle_sigint \/ handle_sigfpe
  <2>1. /\ budget.signals > 0
        /\ budget' = [budget EXCEPT !.signals = @ - 1]
        /\ stranded' = {} /\ quit_flag' \in BOOLEAN
        /\ pc' \in {pc, "check2"}
    BY <1>7 DEF handle_sigint, handle_sigfpe, Signal, Interrupt
  <2>2. budget' \in [input : [Fds -> Nat], signals : 0..MaxSignals]
    BY <2>1, RemoteEventsAssumption
  <2> QED
    BY <2>1, <2>2
<1>8. CASE \E f \in Fds : Arrives(f)
  <2>1. PICK f \in Fds : Arrives(f)
    BY <1>8
  <2>2. /\ budget' = [budget EXCEPT !.input[f] = @ - 1]
        /\ budget.input[f] > 0
        /\ UNCHANGED <<pc, quit_flag, stranded>>
    BY <2>1 DEF Arrives
  <2>3. budget' \in [input : [Fds -> Nat], signals : 0..MaxSignals]
    BY <2>2
  <2> QED
    BY <2>2, <2>3
<1>9. CASE HangsUp \/ UNCHANGED vars
  BY <1>9 DEF HangsUp, vars
<1> QED
  BY <1>1, <1>2, <1>3, <1>4, <1>5, <1>6, <1>7, <1>8, <1>9
  DEF Next, GdbStep, Environment

(* The invariant holds of every behaviour.                                 *)
AllInv == IInv /\ SignalsGood /\ MarksKept /\ QueueGood /\ OddsGood

(* See AllInv.                                                             *)
LEMMA Invariance == Spec => []AllInv
<1>1. Init => AllInv
  <2> SUFFICES ASSUME Init PROVE QueueGood /\ OddsGood
    BY InitGood DEF AllInv
  <2>1. /\ queue = <<>> /\ notifier.ready = [f \in Fds |-> "none"]
        /\ pc = "check" /\ quit_flag = FALSE /\ stranded = {}
        /\ budget = [input |-> [f \in Fds |-> IF f = "stdin" THEN MaxTyped
                                                             ELSE MaxReceived],
                     signals |-> MaxSignals]
    BY DEF Init, LoopInit
  <2>2. QueueGood
    BY <2>1 DEF QueueGood, NoDeafDescriptor
  <2>3. budget \in [input : [Fds -> Nat], signals : 0..MaxSignals]
    BY <2>1, RemoteEventsAssumption
  <2> QED
    BY <2>1, <2>2, <2>3 DEF OddsGood, Places
<1>2. AllInv /\ [Next]_vars => AllInv'
  BY StepKeeps, MarksStep, QueueKeeps, OddsKeep DEF AllInv
<1> QED
  BY <1>1, <1>2, PTL DEF Spec

(* Every variable keeps its type, and the read-ahead buffer its size.      *)
THEOREM EventTypes == Spec => []TypeOK
<1>1. ASSUME AllInv PROVE TypeOK
  <2>1. /\ dev \in Devices /\ notifier \in Notifiers
    BY <1>1, PairFacts DEF NotifierGood, AllInv
  <2>2. timer_ptr \in Seq(Nat)
    <3>1. timer_ptr = <<>> \/ timer_ptr = notifier.timers
      BY <1>1 DEF AllInv, IInv
    <3>2. notifier.timers \in Seq(Nat) /\ <<>> \in Seq(Nat)
      BY <2>1 DEF Notifiers
    <3> QED
      BY <3>1, <3>2
  <2>3. input \in [Fds -> Nat] /\ hung \subseteq Fds
    BY <1>1, RemoteEventsAssumption DEF AllInv, IInv
  <2>4. LoopTypeOK
    BY <1>1, <2>1, <2>2, <2>3
    DEF LoopTypeOK, AllInv, Notifiers, QueueGood, SignalsGood
  <2> QED
    BY <1>1, <2>1, <2>4 DEF TypeOK, AllInv, OddsGood, IInv, Terminals
<1> QED
  BY Invariance, <1>1, PTL

(* No descriptor goes deaf: one whose ready_mask is set is with the loop   *)
(* and has its event in the queue, whoever registers and gives up          *)
(* descriptors while events of theirs are outstanding.                     *)
THEOREM NoneDeaf == Spec => []NoDeafDescriptor
<1>1. AllInv => NoDeafDescriptor
  BY DEF AllInv, QueueGood
<1> QED
  BY Invariance, <1>1, PTL

(* No signal handler that is ready is lost sight of, however many signals  *)
(* arrive and wherever they do: the flag of process_event is set, the      *)
(* handlers are being run, or a throw is to blame.                         *)
THEOREM MarksNotLost == Spec => []MarksKept
<1>1. AllInv => MarksKept
  BY DEF AllInv
<1> QED
  BY Invariance, <1>1, PTL

(* Stdin is with the loop exactly when gdb has the terminal.               *)
THEOREM TerminalShared == Spec => []TerminalAgrees
<1>1. AllInv => TerminalAgrees
  BY DEF AllInv, IInv, StdinGood
<1> QED
  BY Invariance, <1>1, PTL

(* The device and the loop agree on what is scheduled, at any number of    *)
(* characters, connections and resumptions.                                *)
THEOREM ScheduleInStep == Spec => []ScheduleAgrees
<1>1. AllInv => ScheduleAgrees
  BY PairFacts DEF ScheduleAgrees, AllInv, IInv, PairGood, Agrees, Settled,
                   FD_SCHEDULED, NOTHING_SCHEDULED
<1> QED
  BY Invariance, <1>1, PTL

(* What was read ahead reaches the reader, one character after the other.  *)
THEOREM NothingOverwritten == Spec => ReadAheadKept
<1>1. AllInv /\ [Next]_vars =>
          [dev.open /\ dev'.open /\ dev.bufcnt > 0 =>
               dev'.bufcnt \in {dev.bufcnt, dev.bufcnt - 1}]_vars
  BY StepKeeps DEF AllInv, Kept
<1> QED
  BY Invariance, <1>1, PTL DEF Spec, ReadAheadKept
=============================================================================
