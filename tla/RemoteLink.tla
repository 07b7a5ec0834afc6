----------------------------- MODULE RemoteLink -----------------------------
(***************************************************************************)
(* The packet layer of the remote protocol: putpkt, getpkt and what they   *)
(* call in gdb/remote.c against the same functions of gdbserver            *)
(* (gdb/gdbserver/remote-utils.c), over a serial line that loses and       *)
(* garbles characters.                                                     *)
(*                                                                         *)
(* gdb makes one call after the other, as remote_send does: putpkt, whose  *)
(* result it ignores, then getpkt, whose result it ignores too.  A frame   *)
(* is three tokens, its start, its payload, and its end with the checksum, *)
(* which names the payload it was computed from.  A garbled end is an end  *)
(* with a wrong checksum or no end; any other garbled token is junk.       *)
(* A side that waits for an ack tests every character, and so those of a   *)
(* payload whose frame has lost its start: Signs and Plussed say where     *)
(* payloads contain what would do for one.                                 *)
(***************************************************************************)
EXTENDS Naturals, Sequences, SequencesExt, FiniteSets

CONSTANTS N,         \* the calls gdb makes
          Forever,   \* those that wait for the reply without a timeout
          Signs,     \* the '+' and '-' in every payload of gdbserver
          Plussed,   \* the calls whose request contains a '+'
          MaxFaults, \* tokens that are ever lost or garbled
          MaxEarly   \* timeouts that go off while the stub is only slow

ASSUME RemoteLinkAssumption == /\ N \in Nat \ {0}
                               /\ Forever \subseteq 1..N
                               /\ Signs \in [0..N -> Seq({"+", "-"})]
                               /\ Plussed \subseteq 1..N
                               /\ MaxFaults \in Nat /\ MaxEarly \in Nat

Requests == 1..N
Nothing  == 0        \* "timeout" in the buffer; also the checksum of no payload
Garbage  == N + 1    \* a buffer that holds part of a frame, or a wrong one
MAX_TRIES == 3       \* getpkt_sane
MAX_SENDS == 3       \* putpkt_binary gives up when tcount exceeds it

Token(kind, value) == [kind |-> kind, value |-> value]
Tokens  == [kind : {"+", "-", "$", "data", "#", "junk"},
            value : 0..N]
Ack     == Token("+", 0)
Nak     == Token("-", 0)
Frame(payload) == <<Token("$", 0), Token("data", payload),
                    Token("#", payload)>>
(* The checksum of the tokens between the start and the end of a frame.    *)
Intact(body, end) == body = <<Token("data", end.value)>>

VARIABLES gdb,      \* where gdb is, and the locals of putpkt and getpkt
          stub,     \* where gdbserver is, its read buffer and its locals
          up, down, \* the line: from gdb to the stub, and back
          executed, \* history: executions of every request
          results,  \* what the calls returned
          faults,   \* tokens lost or garbled so far
          early,    \* timeouts gone off early so far
          mistaken  \* signs of payloads that gdb met waiting for an ack

vars == <<gdb, stub, up, down, executed, results, faults, early,
          mistaken>>

Bodies == Seq(Tokens)

TypeOK ==
    /\ gdb \in [at : {"idle", "ack", "skip", "reply", "frame"},
                request : 0..N,
                tcount : 0..MAX_SENDS, tries : 0..MAX_TRIES,
                buf : 0..(N + 1), body : Bodies]
    /\ stub \in [at : {"hunt", "frame", "execute", "ack"},
                 buf : Seq(Tokens), body : Bodies]
    /\ up \in Seq(Tokens) /\ down \in Seq(Tokens)
    /\ executed \in [Requests -> Nat]
    /\ results \in [Requests -> 0..(N + 1)]
    /\ faults \in 0..MaxFaults /\ early \in 0..MaxEarly /\ mistaken \in Nat

Init == /\ gdb = [at |-> "idle", request |-> 0, tcount |-> 0, tries |-> 0,
                  buf |-> Nothing, body |-> <<>>]
        /\ stub = [at |-> "hunt", buf |-> <<>>, body |-> <<>>]
        /\ up = <<>> /\ down = <<>>
        /\ executed = [r \in Requests |-> 0]
        /\ results = [r \in Requests |-> Nothing]
        /\ faults = 0 /\ early = 0 /\ mistaken = 0

(***************************************************************************)
(* gdb reads a character or times out.  The timeout is longer than the     *)
(* stub and the line need: it goes off when nothing is on the way and the  *)
(* stub waits, unless it is one of those that are early.                   *)
(***************************************************************************)
Silence == /\ down = <<>>
           /\ up = <<>>
           /\ \/ stub.at = "ack"
              \/ stub.at \in {"hunt", "frame"} /\ stub.buf = <<>>

TimesOut == \/ Silence /\ UNCHANGED early
            \/ ~Silence /\ early < MaxEarly /\ early' = early + 1

Reads(kind) == down # <<>> /\ Head(down).kind = kind
Others      == UNCHANGED <<stub, executed, faults, mistaken>>
Consume     == down' = Tail(down) /\ UNCHANGED early
Keep        == UNCHANGED down

Writes(tokens) == up' = up \o tokens
Silent         == UNCHANGED up
At(place)      == gdb' = [gdb EXCEPT !.at = place]

(* putpkt_binary *)
putpkt ==
    /\ gdb.at = "idle"
    /\ gdb.request < N
    /\ gdb' = [gdb EXCEPT !.at = "ack", !.request = @ + 1, !.tcount = 0]
    /\ Writes(Frame(gdb.request + 1))
    /\ Others /\ Keep /\ UNCHANGED <<results, early>>

(* getpkt_sane starts with "timeout" in the buffer. *)
StartReply(g) == [g EXCEPT !.at = "reply", !.tries = 1, !.buf = Nothing]

Acked ==
    /\ gdb.at = "ack" /\ Reads("+")
    /\ Consume /\ Silent
    /\ gdb' = StartReply(gdb)
    /\ Others /\ UNCHANGED results

(* Mutant: one retransmission more than the counter allows. *)
ResendOnceMore ==
    /\ gdb.at = "ack"
    /\ \/ Reads("-") /\ Consume
       \/ TimesOut /\ Keep
    /\ IF gdb.tcount > MAX_SENDS
       THEN gdb' = StartReply(gdb) /\ Silent
       ELSE /\ gdb' = [gdb EXCEPT !.tcount = @ + 1]
            /\ Writes(Frame(gdb.request))
    /\ Others /\ UNCHANGED results

(* A '-' or a timeout: send it again, three times, then give up; the       *)
(* callers go on to wait for a reply all the same.                         *)
Resend ==
    /\ gdb.at = "ack"
    /\ \/ Reads("-") /\ Consume
       \/ TimesOut /\ Keep
    /\ IF gdb.tcount = MAX_SENDS
       THEN gdb' = StartReply(gdb) /\ Silent
       ELSE /\ gdb' = [gdb EXCEPT !.tcount = @ + 1]
            /\ Writes(Frame(gdb.request))
    /\ Others /\ UNCHANGED results

(* Mutant: a packet instead of an ack is junk like any other character. *)
OldReplyAsJunk ==
    /\ gdb.at = "ack" /\ Reads("$")
    /\ Consume /\ Silent
    /\ Others /\ UNCHANGED <<gdb, results>>

OldReply ==
    /\ gdb.at = "ack" /\ Reads("$")
    /\ Consume /\ Silent
    /\ At("skip")
    /\ Others /\ UNCHANGED results

(* The signs of the payload that gdb reads.                                *)
SignsRead == Signs[Head(down).value]

(* A payload whose start was lost: the line turns into the signs in it,    *)
(* which Acked and Resend then take one by one.                            *)
Unframed ==
    /\ gdb.at = "ack" /\ Reads("data") /\ SignsRead # <<>>
    /\ down' = [i \in DOMAIN SignsRead |-> Token(SignsRead[i], 0)]
                 \o Tail(down)
    /\ mistaken' = mistaken + Len(SignsRead)
    /\ Silent
    /\ UNCHANGED <<gdb, stub, executed, results, faults, early>>

Ignored ==
    /\ \/ gdb.at = "ack" /\ Reads("data") /\ SignsRead = <<>>
       \/ gdb.at = "ack" /\ \E k \in {"#", "junk"} : Reads(k)
       \/ gdb.at = "skip" /\ \E k \in {"+", "-", "$", "data", "junk"} : Reads(k)
       \/ gdb.at = "reply" /\ \E k \in {"+", "-", "data", "#", "junk"} : Reads(k)
    /\ Consume /\ Silent
    /\ Others /\ UNCHANGED <<gdb, results>>

(* Mutant: skip_frame waits for the end of the frame without a timeout. *)
SkippedOnlyAtEnd ==
    /\ gdb.at = "skip"
    /\ Reads("#") /\ Consume
    /\ Writes(<<Ack>>)
    /\ At("ack")
    /\ Others /\ UNCHANGED results

(* skip_frame, and the ack that putpkt_binary sends after it. *)
Skipped ==
    /\ gdb.at = "skip"
    /\ \/ Reads("#") /\ Consume
       \/ TimesOut /\ Keep
    /\ Writes(<<Ack>>)
    /\ At("ack")
    /\ Others /\ UNCHANGED results

ReplyStarts ==
    /\ gdb.at = "reply" /\ Reads("$")
    /\ Consume /\ Silent
    /\ gdb' = [gdb EXCEPT !.at = "frame", !.body = <<>>]
    /\ Others /\ UNCHANGED results

(* read_frame *)
ReplyGoesOn ==
    /\ gdb.at = "frame"
    /\ \E k \in {"+", "-", "data", "junk"} : Reads(k)
    /\ Consume /\ Silent
    /\ gdb' = [gdb EXCEPT !.body = Append(@, Head(down))]
    /\ Others /\ UNCHANGED results

Returned(g) == [g EXCEPT !.at = "idle", !.body = <<>>, !.tcount = 0,
                         !.tries = 0, !.buf = Nothing]

ReplyEnds ==
    /\ gdb.at = "frame"
    /\ Reads("#") /\ Intact(gdb.body, Head(down))
    /\ Consume
    /\ Writes(<<Ack>>)
    /\ results' = [results EXCEPT ![gdb.request] = Head(down).value]
    /\ gdb' = Returned(gdb)
    /\ Others

(* What a frame that read_frame rejects has done to the buffer.            *)
Overwritten == CASE gdb.at = "reply" \/ (gdb.body = <<>> /\ ~Reads("#"))
                      -> gdb.buf
                 [] \E r \in Requests :
                       Reads("#") /\ gdb.body = <<Token("data", r)>>
                      -> gdb.body[1].value
                 [] OTHER -> Garbage

(* After the third failure the '-' is followed by a '+', and what is in    *)
(* the buffer is left to the caller as the reply.                          *)
Retry ==
    /\ \/ /\ gdb.at = "reply" /\ gdb.request \notin Forever
          /\ TimesOut /\ Keep
       \/ /\ gdb.at = "frame"
          /\ TimesOut /\ Keep
       \/ /\ gdb.at = "frame" /\ Reads("$")
          /\ Consume
       \/ /\ gdb.at = "frame" /\ Reads("#") /\ ~Intact(gdb.body, Head(down))
          /\ Consume
    /\ IF gdb.tries < MAX_TRIES
       THEN /\ gdb' = [gdb EXCEPT !.at = "reply", !.tries = @ + 1,
                                  !.buf = Overwritten, !.body = <<>>]
            /\ Writes(<<Nak>>)
            /\ UNCHANGED results
       ELSE /\ gdb' = Returned(gdb)
            /\ Writes(<<Nak, Ack>>)
            /\ results' = [results EXCEPT ![gdb.request] = Overwritten]
    /\ Others

GdbStep == \/ putpkt \/ Acked \/ Resend \/ OldReply \/ Unframed \/ Ignored
           \/ Skipped \/ ReplyStarts \/ ReplyGoesOn \/ ReplyEnds \/ Retry

(***************************************************************************)
(* gdbserver.  readchar of getpkt reads as much as there is into a buffer  *)
(* of its own; the ack of putpkt_binary is read past that buffer, from the *)
(* descriptor, and any character but a '+' sends the reply again: a token  *)
(* stands for the one that does so last.                                   *)
(***************************************************************************)
StubOthers == UNCHANGED <<gdb, results, faults, early, mistaken>>
Sends(tokens) == down' = down \o tokens
Quiet == UNCHANGED down

Fill ==
    /\ stub.at \in {"hunt", "frame"}
    /\ stub.buf = <<>>
    /\ \E n \in 1..Len(up) :
          /\ stub' = [stub EXCEPT !.buf = SubSeq(up, 1, n)]
          /\ up' = SubSeq(up, n + 1, Len(up))
    /\ Quiet /\ StubOthers /\ UNCHANGED executed

NextToken == Head(stub.buf)
Take(place, body) == [stub EXCEPT !.at = place, !.buf = Tail(@),
                                  !.body = body]

Hunt ==
    /\ stub.at = "hunt" /\ stub.buf # <<>>
    /\ stub' = Take(IF NextToken.kind = "$" THEN "frame" ELSE "hunt", <<>>)
    /\ Quiet /\ StubOthers /\ UNCHANGED <<up, executed>>

RequestGoesOn ==
    /\ stub.at = "frame" /\ stub.buf # <<>>
    /\ NextToken.kind # "#"
    /\ stub' = Take("frame", Append(stub.body, NextToken))
    /\ Quiet /\ StubOthers /\ UNCHANGED <<up, executed>>

(* Mutant: a good request is not acknowledged. *)
RequestEndsSilently ==
    /\ stub.at = "frame" /\ stub.buf # <<>>
    /\ NextToken.kind = "#"
    /\ IF Intact(stub.body, NextToken)
       THEN stub' = Take("execute", stub.body) /\ Quiet
       ELSE stub' = Take("hunt", <<>>) /\ Sends(<<Nak>>)
    /\ StubOthers /\ UNCHANGED <<up, executed>>

RequestEnds ==
    /\ stub.at = "frame" /\ stub.buf # <<>>
    /\ NextToken.kind = "#"
    /\ IF Intact(stub.body, NextToken)
       THEN stub' = Take("execute", stub.body) /\ Sends(<<Ack>>)
       ELSE stub' = Take("hunt", <<>>) /\ Sends(<<Nak>>)
    /\ StubOthers /\ UNCHANGED <<up, executed>>

Request == stub.body[1].value

Execute ==
    /\ stub.at = "execute"
    /\ executed' = [executed EXCEPT ![Request] = @ + 1]
    /\ stub' = [stub EXCEPT !.at = "ack"]
    /\ Sends(Frame(Request))
    /\ StubOthers /\ UNCHANGED up


(* The '+' in the payload of the next request is an ack like any other.    *)
HoldsPlus(t) == t.kind = "data" /\ t.value \in Plussed

ReadAck ==
    /\ stub.at = "ack" /\ up # <<>>
    /\ ~HoldsPlus(Head(up))
    /\ up' = Tail(up)
    /\ IF Head(up) = Ack
       THEN stub' = [stub EXCEPT !.at = "hunt", !.body = <<>>] /\ Quiet
       ELSE UNCHANGED stub /\ Sends(Frame(Request))
    /\ StubOthers /\ UNCHANGED executed

RequestAsAck ==
    /\ stub.at = "ack" /\ up # <<>>
    /\ HoldsPlus(Head(up))
    /\ up' = Tail(up)
    /\ stub' = [stub EXCEPT !.at = "hunt", !.body = <<>>]
    /\ Sends(Frame(Request))
    /\ StubOthers /\ UNCHANGED executed

StubStep == \/ Fill \/ Hunt \/ RequestGoesOn \/ RequestEnds
            \/ Execute \/ ReadAck \/ RequestAsAck

(***************************************************************************)
(* The line.                                                               *)
(***************************************************************************)
Garbled(t) == IF t.kind = "#" THEN {Token("#", 0), Token("junk", 0)}
                              ELSE {Token("junk", 0)}
Damaged(s) == {Tail(s)} \union {<<t>> \o Tail(s) : t \in Garbled(Head(s))}

Fault ==
    /\ faults < MaxFaults
    /\ faults' = faults + 1
    /\ \/ up # <<>> /\ up' \in Damaged(up) /\ UNCHANGED down
       \/ down # <<>> /\ down' \in Damaged(down) /\ UNCHANGED up
    /\ UNCHANGED <<gdb, stub, executed, results, early, mistaken>>

Next == GdbStep \/ StubStep \/ Fault
Spec == Init /\ [][Next]_vars

(* Both programs keep running and a timeout that is due goes off; nothing  *)
(* is assumed of the line.                                                 *)
FairSpec == Spec /\ WF_vars(GdbStep) /\ WF_vars(StubStep)

-----------------------------------------------------------------------------
Calls == INSTANCE RemoteCall WITH
             current <- gdb.request, busy <- gdb.at # "idle",
             reliable <- /\ early = 0 /\ mistaken = 0
                         /\ faults < MAX_TRIES

(* A reply is the reply to the request of its call, and a request is       *)
(* executed only during its call, unless a timeout was early or gdb met    *)
(* the signs of a payload.                                                 *)
ImplementsCalls == Calls!Spec

(* A request that has side effects is not done over more often than the    *)
(* line, the clock and the signs of payloads give cause.                   *)
ExecutionsExplained ==
    \A r \in Requests : executed[r] <= 1 + faults + early + mistaken

(* gdb meets the signs of a payload only after two faults: it has to come  *)
(* for a second time, because an ack was lost, and to lose its start.      *)
MistakenAfterTwo == mistaken > 0 => faults + early >= 2

(* What does not hold of the code, though no timeout was early: no call    *)
(* returns the reply to another.  TLC finds one that does, after two       *)
(* faults, when a '+' of an old payload was taken for the ack.             *)
OwnReplies ==
    early = 0 => \A r \in Requests : results[r] \in {Nothing, Garbage, r}


(* Every call returns, except one that waits for ever after a fault.       *)
CallsReturn ==
    \A r \in Requests \ Forever :
        (gdb.request = r) ~> (gdb.request = r /\ gdb.at = "idle")
=============================================================================
