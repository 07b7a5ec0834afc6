-------------------------- MODULE RemoteLinkProofs --------------------------
(***************************************************************************)
(* Proofs about RemoteLink, for any number of calls, faults and timeouts.  *)
(*                                                                         *)
(* TypeOK needs Holding: the stub has a request in its hands from the time *)
(* it took one in until its answer was acknowledged.                       *)
(*                                                                         *)
(* That a request is executed no more often than there is cause for is an  *)
(* accounting.  What can make the stub execute is the end of a frame on    *)
(* its way there (Pipe); what can make gdb put another one there is a '-'  *)
(* on the way back (Naks), or a timeout; a request that was executed has   *)
(* put a '+' on the way back (Acks).  What may add to them is Cause: the   *)
(* faults, the early timeouts, and the signs of payloads that gdb met.     *)
(* The parts of Explained:                                                 *)
(*   Budget        ends, naks and acks together are one while gdb sends,   *)
(*                 and one more for every cause;                           *)
(*   Runs          a request was executed once, and once more for each;    *)
(*   New           a request not yet made is nowhere;                      *)
(*   RunsOfCurrent what gdb still sends counts against its request only;   *)
(*   StuckPaid     if both sides wait for an ack, a fault has paid for the *)
(*                 timeout that ends it: the way into this is a fault;     *)
(*   Heard         a '+' is on its way for every execution that no cause   *)
(*                 is to blame for, so a timeout that is due repeats no    *)
(*                 request without one; Deaf is what else takes a cause,   *)
(*                 gdb skipping a '+' because the frame before it lost     *)
(*                 its end;                                                *)
(*   Framed        on the way back an end follows every start of a frame,  *)
(*                 and every '+' that skipping may meet, before the next   *)
(*                 '+' (or the answer is still to come): skipping meets at *)
(*                 most one '+', and only if a fault took the end it was   *)
(*                 looking for.                                            *)
(*                                                                         *)
(* The refinement of RemoteCall has two more invariants.  Sourced: payloads *)
(* are requests, and those on the way back were executed.  Situated: while *)
(* the promise stands the two programs and the line are in one of a dozen  *)
(* situations, each with what may be on the line, in which no answer to an *)
(* earlier request can be taken for the reply; the tries of getpkt are     *)
(* counted against the faults, so that gdb gives a call up with nothing in *)
(* its buffer as long as there were fewer than MAX_TRIES.  Or they are in  *)
(* one more, Headless: the stub took the '+' inside the request for the ack *)
(* of its last answer, and hunts for a start that comes only when gdb sends *)
(* the request again.  Alone leads there and nowhere else: the stub waits  *)
(* for an ack with at most one frame of gdb on the line.                   *)
(***************************************************************************)
EXTENDS RemoteLink, FiniteSetTheorems, SequenceTheorems, TLAPS

Kind(k) == [kind : {k}, value : 0..N]
Ends == Kind("#")
EndsOf(r) == {Token("#", r)}

(* How many tokens of s are in K.                                          *)
Count(s, K) == Cardinality({i \in DOMAIN s : s[i] \in K})
One(t, K) == IF t \in K THEN 1 ELSE 0

-----------------------------------------------------------------------------
(* Sequences.                                                              *)

(* A sequence of tokens, its length and its domain.                        *)
LEMMA SeqFacts ==
    ASSUME NEW s \in Seq(Tokens)
    PROVE  /\ Len(s) \in Nat /\ DOMAIN s = 1..Len(s)
           /\ \A i \in 1..Len(s) : s[i] \in Tokens
           /\ s = <<>> <=> Len(s) = 0
BY LenProperties, ElementOfSeq, EmptySeq

(* The head and the tail of a sequence that is not empty.                  *)
LEMMA TailFacts ==
    ASSUME NEW s \in Seq(Tokens), s # <<>>
    PROVE  /\ Head(s) = s[1] /\ Head(s) \in Tokens
           /\ Tail(s) \in Seq(Tokens) /\ Len(s) \in Nat \ {0}
           /\ Len(Tail(s)) = Len(s) - 1
           /\ DOMAIN s = 1..Len(s) /\ DOMAIN Tail(s) = 1..(Len(s) - 1)
           /\ \A i \in 1..(Len(s) - 1) : Tail(s)[i] = s[i+1]
BY HeadTailProperties, SeqFacts

(* A concatenation, token by token.                                        *)
LEMMA CatFacts ==
    ASSUME NEW s \in Seq(Tokens), NEW t \in Seq(Tokens)
    PROVE  /\ s \o t \in Seq(Tokens)
           /\ Len(s) \in Nat /\ Len(t) \in Nat
           /\ Len(s \o t) = Len(s) + Len(t)
           /\ DOMAIN s = 1..Len(s) /\ DOMAIN t = 1..Len(t)
           /\ DOMAIN (s \o t) = 1..(Len(s) + Len(t))
           /\ \A i \in 1..Len(s) : (s \o t)[i] = s[i]
           /\ \A i \in 1..Len(t) : (s \o t)[Len(s) + i] = t[i]
           /\ \A i \in 1..(Len(s) + Len(t)) :
                 i \in 1..Len(s) \/ (i - Len(s) \in 1..Len(t)
                                     /\ (s \o t)[i] = t[i - Len(s)])
BY ConcatProperties, SeqFacts

(* A sequence begins with its head.                                        *)
LEMMA HeadFirst ==
    ASSUME NEW s \in Seq(Tokens), s # <<>>
    PROVE  s = <<Head(s)>> \o Tail(s)
<1> DEFINE t == <<Head(s)>> \o Tail(s)
<1>1. Head(s) \in Tokens /\ <<Head(s)>> \in Seq(Tokens) /\ Len(<<Head(s)>>) = 1
      /\ <<Head(s)>>[1] = Head(s)
  BY TailFacts
<1>2. t \in Seq(Tokens) /\ Len(t) = Len(s)
  BY <1>1, TailFacts, CatFacts
<1>3. ASSUME NEW i \in 1..Len(s) PROVE t[i] = s[i]
  <2>1. CASE i = 1
    BY <2>1, <1>1, TailFacts, CatFacts
  <2>2. CASE i # 1
    BY <2>2, <1>1, TailFacts, CatFacts
  <2> QED
    BY <2>1, <2>2
<1> HIDE DEF t
<1>4. t = s
  BY <1>2, <1>3, SeqEqual
<1> QED
  BY <1>4 DEF t

-----------------------------------------------------------------------------
(* Counting.                                                               *)

(* What is counted is a finite set of places.                              *)
LEMMA CountType ==
    ASSUME NEW s \in Seq(Tokens), NEW K
    PROVE  /\ IsFiniteSet({i \in DOMAIN s : s[i] \in K})
           /\ Count(s, K) \in Nat
           /\ Count(s, K) = 0 <=> \A i \in DOMAIN s : s[i] \notin K
<1> DEFINE A == {i \in DOMAIN s : s[i] \in K}
<1>1. IsFiniteSet(1..Len(s))
  BY SeqFacts, FS_Interval
<1>2. A \in SUBSET (1..Len(s))
  BY SeqFacts
<1>3. IsFiniteSet(A)
  BY <1>1, <1>2, FS_Subset
<1>4. Cardinality(A) \in Nat /\ (Cardinality(A) = 0 <=> A = {})
  BY <1>3, FS_CardinalityType, FS_EmptySet
<1> QED
  BY <1>3, <1>4 DEF Count

(* The count of a concatenation is the sum of the counts.                  *)
LEMMA CountCat ==
    ASSUME NEW s \in Seq(Tokens), NEW t \in Seq(Tokens), NEW K
    PROVE  Count(s \o t, K) = Count(s, K) + Count(t, K)
<1> DEFINE A == {i \in DOMAIN s : s[i] \in K}
           B == {i \in DOMAIN t : t[i] \in K}
           C == {i \in DOMAIN (s \o t) : (s \o t)[i] \in K}
           D == {i \in C : i > Len(s)}
           f == [i \in B |-> Len(s) + i]
<1>1. IsFiniteSet(A) /\ IsFiniteSet(B) /\ IsFiniteSet(C)
  BY CountType, CatFacts
<1>2. A = {i \in C : i <= Len(s)}
  BY CatFacts
<1>3. f \in Bijection(B, D)
  <2>1. f \in [B -> D]
    BY CatFacts
  <2>2. \A i, j \in B : f[i] = f[j] => i = j
    BY CatFacts
  <2>3. \A d \in D : \E i \in B : f[i] = d
    <3> SUFFICES ASSUME NEW d \in D PROVE d - Len(s) \in B /\ f[d - Len(s)] = d
      OBVIOUS
    <3>1. d \in 1..(Len(s) + Len(t)) /\ d > Len(s) /\ (s \o t)[d] \in K
      BY CatFacts
    <3>2. d - Len(s) \in 1..Len(t) /\ (s \o t)[d] = t[d - Len(s)]
      BY <3>1, CatFacts
    <3> QED
      BY <3>1, <3>2, CatFacts
  <2> QED
    BY <2>1, <2>2, <2>3 DEF Bijection, Injection, Surjection, IsInjective
<1>4. Cardinality(D) = Cardinality(B) /\ IsFiniteSet(D)
  BY <1>1, <1>3, FS_Bijection DEF ExistsBijection
<1>5. C = A \cup D /\ A \cap D = {}
  BY <1>2, CatFacts
<1>6. Cardinality(A \cup D) = Cardinality(A) + Cardinality(D) - Cardinality(A \cap D)
  BY <1>1, <1>4, FS_Union
<1>7. Cardinality(A \cap D) = 0
  BY <1>5, FS_EmptySet
<1>8. Cardinality(A) \in Nat /\ Cardinality(B) \in Nat
  BY <1>1, FS_CardinalityType
<1>9. Cardinality(C) = Cardinality(A) + Cardinality(B)
  <2>1. Cardinality(C) = Cardinality(A \cup D)
    BY <1>5
  <2> HIDE DEF A, B, C, D
  <2> QED
    BY <2>1, <1>4, <1>6, <1>7, <1>8
<1> QED
  BY <1>9 DEF Count

(* The count of a sequence of up to three tokens.                          *)
LEMMA CountFew ==
    ASSUME NEW K
    PROVE  /\ Count(<<>>, K) = 0
           /\ \A a \in Tokens : Count(<<a>>, K) = One(a, K)
           /\ \A a, b \in Tokens : Count(<<a, b>>, K) = One(a, K) + One(b, K)
           /\ \A a, b, c \in Tokens :
                 Count(<<a, b, c>>, K) = One(a, K) + One(b, K) + One(c, K)
<1>1. Count(<<>>, K) = 0
  <2>1. <<>> \in Seq(Tokens)
    BY EmptySeq
  <2>2. \A i \in DOMAIN <<>> : <<>>[i] \notin K
    OBVIOUS
  <2> QED
    BY <2>1, <2>2, CountType
<1>2. ASSUME NEW a \in Tokens PROVE Count(<<a>>, K) = One(a, K)
  <2>1. CASE a \in K
    <3>1. {i \in DOMAIN <<a>> : <<a>>[i] \in K} = {1}
      BY <2>1
    <3> QED
      BY <2>1, <3>1, FS_Singleton DEF Count, One
  <2>2. CASE a \notin K
    <3>1. {i \in DOMAIN <<a>> : <<a>>[i] \in K} = {}
      BY <2>2
    <3> QED
      BY <2>2, <3>1, FS_EmptySet DEF Count, One
  <2> QED
    BY <2>1, <2>2
<1>3. ASSUME NEW a \in Tokens, NEW b \in Tokens
      PROVE  Count(<<a, b>>, K) = One(a, K) + One(b, K)
  <2>1. <<a>> \in Seq(Tokens) /\ <<b>> \in Seq(Tokens)
    OBVIOUS
  <2>2. Count(<<a>> \o <<b>>, K) = Count(<<a>>, K) + Count(<<b>>, K)
    BY <2>1, CountCat
  <2>3. <<a, b>> = <<a>> \o <<b>>
    <3> DEFINE s == <<a, b>>
               t == <<a>> \o <<b>>
    <3>1. s \in Seq(Tokens) /\ Len(s) = 2
      OBVIOUS
    <3>2. t \in Seq(Tokens) /\ Len(t) = 2
      BY <2>1, CatFacts
    <3>3. t[1] = a /\ t[2] = b
      OBVIOUS
    <3>4. \A i \in 1..2 : s[i] = t[i]
      BY <3>3
    <3> HIDE DEF s, t
    <3>5. s = t
      BY <3>1, <3>2, <3>4, SeqEqual
    <3> QED
      BY <3>5 DEF s, t
  <2> QED
    BY <1>2, <2>2, <2>3
<1>4. ASSUME NEW a \in Tokens, NEW b \in Tokens, NEW c \in Tokens
      PROVE  Count(<<a, b, c>>, K) = One(a, K) + One(b, K) + One(c, K)
  <2>1. <<a, b>> \in Seq(Tokens) /\ <<c>> \in Seq(Tokens)
    OBVIOUS
  <2>2. Count(<<a, b>> \o <<c>>, K) = Count(<<a, b>>, K) + Count(<<c>>, K)
    BY <2>1, CountCat
  <2>3. <<a, b, c>> = <<a, b>> \o <<c>>
    <3> DEFINE s == <<a, b, c>>
               t == <<a, b>> \o <<c>>
    <3>1. s \in Seq(Tokens) /\ Len(s) = 3
      OBVIOUS
    <3>2. t \in Seq(Tokens) /\ Len(t) = 3
      BY <2>1, CatFacts
    <3>3. t[1] = a /\ t[2] = b /\ t[3] = c
      OBVIOUS
    <3>4. \A i \in 1..3 : s[i] = t[i]
      BY <3>3
    <3> HIDE DEF s, t
    <3>5. s = t
      BY <3>1, <3>2, <3>4, SeqEqual
    <3> QED
      BY <3>5 DEF s, t
  <2> QED
    BY <1>2, <1>3, <2>2, <2>3
<1> QED
  BY <1>1, <1>2, <1>3, <1>4

(* Reading a token takes it out of the count.                              *)
LEMMA CountTail ==
    ASSUME NEW s \in Seq(Tokens), s # <<>>, NEW K
    PROVE  Count(s, K) = One(Head(s), K) + Count(Tail(s), K)
<1>1. /\ Head(s) \in Tokens /\ Tail(s) \in Seq(Tokens)
      /\ <<Head(s)>> \in Seq(Tokens)
  BY TailFacts
<1>2. Count(<<Head(s)>> \o Tail(s), K) = Count(<<Head(s)>>, K) + Count(Tail(s), K)
  BY <1>1, CountCat
<1>3. Count(<<Head(s)>>, K) = One(Head(s), K)
  BY <1>1, CountFew
<1>4. s = <<Head(s)>> \o Tail(s)
  BY HeadFirst
<1> QED
  BY <1>2, <1>3, <1>4

-----------------------------------------------------------------------------
(* Types.                                                                  *)

Holding == stub.at \in {"execute", "ack"} =>
               \E r \in 0..N : stub.body = <<Token("data", r)>>
Typed == TypeOK /\ Holding

(* The tokens and frames that are written are tokens.                      *)
LEMMA TokenTypes ==
    /\ Ack \in Tokens /\ Nak \in Tokens
    /\ \A p \in 0..N : /\ Token("$", 0) \in Tokens /\ Token("data", p) \in Tokens
                       /\ Token("#", p) \in Tokens /\ Token("junk", 0) \in Tokens
    /\ <<Ack>> \in Seq(Tokens) /\ <<Nak>> \in Seq(Tokens)
    /\ <<Nak, Ack>> \in Seq(Tokens)
    /\ \A p \in 0..N : /\ Frame(p) \in Seq(Tokens) /\ Len(Frame(p)) = 3
                       /\ Frame(p)[1] = Token("$", 0)
                       /\ Frame(p)[2] = Token("data", p)
                       /\ Frame(p)[3] = Token("#", p)
<1>1. 0 \in 0..N
  BY RemoteLinkAssumption
<1>2. /\ Ack \in Tokens /\ Nak \in Tokens
      /\ \A p \in 0..N : /\ Token("$", 0) \in Tokens
                         /\ Token("data", p) \in Tokens
                         /\ Token("#", p) \in Tokens
                         /\ Token("junk", 0) \in Tokens
  BY <1>1 DEF Ack, Nak, Token, Tokens
<1> QED
  BY <1>1, <1>2 DEF Frame

(* What damage makes of the first token.                                   *)
LEMMA DamagedTyped ==
    ASSUME NEW s \in Seq(Tokens), s # <<>>, NEW t \in Damaged(s)
    PROVE  /\ t \in Seq(Tokens)
           /\ \/ t = Tail(s)
              \/ \E g \in Tokens : /\ t = <<g>> \o Tail(s)
                                   /\ \/ g = Token("junk", 0)
                                      \/ g = Token("#", 0) /\ Head(s).kind = "#"
<1>1. Tail(s) \in Seq(Tokens)
  BY TailFacts
<1>2. CASE t = Tail(s)
  BY <1>1, <1>2
<1>3. CASE t # Tail(s)
  <2>1. PICK g \in Garbled(Head(s)) : t = <<g>> \o Tail(s)
    BY <1>3 DEF Damaged
  <2>2. g \in Tokens /\ (\/ g = Token("junk", 0)
                         \/ g = Token("#", 0) /\ Head(s).kind = "#")
    BY TokenTypes, RemoteLinkAssumption DEF Garbled
  <2>3. <<g>> \in Seq(Tokens)
    BY <2>2
  <2>4. <<g>> \o Tail(s) \in Seq(Tokens)
    BY <2>3, <1>1, CatFacts
  <2> QED
    BY <2>1, <2>2, <2>4
<1> QED
  BY <1>2, <1>3

(* The types, field by field.                                              *)
LEMMA LineTyped ==
    ASSUME Typed
    PROVE  /\ up \in Seq(Tokens) /\ down \in Seq(Tokens)
           /\ stub.buf \in Seq(Tokens) /\ stub.body \in Seq(Tokens)
           /\ gdb.body \in Seq(Tokens)
           /\ gdb.request \in 0..N
           /\ stub.at \in {"hunt", "frame", "execute", "ack"}
           /\ gdb.at \in {"idle", "ack", "skip", "reply", "frame"}
           /\ gdb.tcount \in 0..MAX_SENDS /\ gdb.tries \in 0..MAX_TRIES
           /\ gdb.buf \in 0..(N + 1)
           /\ faults \in Nat /\ early \in Nat /\ mistaken \in Nat
           /\ stub.at \in {"execute", "ack"} =>
                 Request \in 0..N /\ stub.body = <<Token("data", Request)>>
<1>1. /\ up \in Seq(Tokens) /\ down \in Seq(Tokens)
      /\ stub.buf \in Seq(Tokens) /\ stub.body \in Seq(Tokens)
      /\ gdb.body \in Seq(Tokens) /\ gdb.request \in 0..N
      /\ stub.at \in {"hunt", "frame", "execute", "ack"}
      /\ gdb.at \in {"idle", "ack", "skip", "reply", "frame"}
      /\ gdb.tcount \in 0..MAX_SENDS /\ gdb.tries \in 0..MAX_TRIES
      /\ gdb.buf \in 0..(N + 1)
  BY DEF Typed, TypeOK, Bodies
<1>2. faults \in Nat /\ early \in Nat /\ mistaken \in Nat
  BY RemoteLinkAssumption DEF Typed, TypeOK
<1>3. ASSUME stub.at \in {"execute", "ack"}
      PROVE  Request \in 0..N /\ stub.body = <<Token("data", Request)>>
  <2>1. PICK r \in 0..N : stub.body = <<Token("data", r)>>
    BY <1>3 DEF Typed, Holding
  <2>2. Request = r
    BY <2>1 DEF Request, Token
  <2> QED
    BY <2>1, <2>2
<1> QED
  BY <1>1, <1>2, <1>3

(* The first state is well typed.                                          *)
LEMMA InitTyped == Init => Typed
BY RemoteLinkAssumption DEF Init, Typed, TypeOK, Holding, Bodies, Requests, Nothing, MAX_SENDS, MAX_TRIES

GdbType == [at : {"idle", "ack", "skip", "reply", "frame"},
            request : 0..N, tcount : 0..MAX_SENDS, tries : 0..MAX_TRIES,
            buf : 0..(N + 1), body : Bodies]
StubType == [at : {"hunt", "frame", "execute", "ack"},
             buf : Seq(Tokens), body : Bodies]

(* The state is typed when its parts are.                                  *)
LEMMA MadeTyped ==
    ASSUME Typed
    PROVE  /\ gdb \in GdbType /\ stub \in StubType
           /\ faults \in 0..MaxFaults /\ early \in 0..MaxEarly
           /\ mistaken \in Nat
           /\ executed \in [Requests -> Nat]
           /\ results \in [Requests -> 0..(N + 1)]
BY DEF Typed, TypeOK, GdbType, StubType

(* A step keeps the types if it keeps those of its variables.              *)
LEMMA StillTyped ==
    ASSUME gdb' \in GdbType, stub' \in StubType, Holding',
           up' \in Seq(Tokens), down' \in Seq(Tokens),
           executed' \in [Requests -> Nat],
           results' \in [Requests -> 0..(N + 1)],
           faults' \in 0..MaxFaults, early' \in 0..MaxEarly,
           mistaken' \in Nat
    PROVE  Typed'
BY DEF Typed, TypeOK, GdbType, StubType

(* A step of gdb changes nothing of the stub. *)
LEMMA GdbStillTyped ==
    ASSUME Typed, Others, gdb' \in GdbType,
           up' \in Seq(Tokens), down' \in Seq(Tokens), early' \in 0..MaxEarly,
           results' \in [Requests -> 0..(N + 1)]
    PROVE  Typed'
<1>1. Holding' /\ stub' = stub /\ executed' = executed /\ faults' = faults
      /\ mistaken' = mistaken
  BY DEF Others, Typed, Holding
<1> QED
  BY <1>1, MadeTyped, StillTyped

(* The same for a step of the stub.                                        *)
LEMMA StubStillTyped ==
    ASSUME Typed, StubOthers, stub' \in StubType, Holding',
           up' \in Seq(Tokens), down' \in Seq(Tokens),
           executed' \in [Requests -> Nat]
    PROVE  Typed'
<1>1. gdb' = gdb /\ results' = results /\ faults' = faults /\ early' = early
      /\ mistaken' = mistaken
  BY DEF StubOthers
<1> QED
  BY <1>1, MadeTyped, StillTyped

(* What the steps make of the locals of gdb is in its type.                *)
LEMMA GdbFields ==
    ASSUME NEW g \in GdbType
    PROVE  /\ \A p \in {"idle", "ack", "skip", "reply", "frame"} :
                 [g EXCEPT !.at = p] \in GdbType
           /\ StartReply(g) \in GdbType
           /\ Returned(g) \in GdbType
           /\ g.tcount # MAX_SENDS => [g EXCEPT !.tcount = @ + 1] \in GdbType
           /\ [g EXCEPT !.at = "frame", !.body = <<>>] \in GdbType
           /\ \A t \in Tokens : [g EXCEPT !.body = Append(@, t)] \in GdbType
           /\ g.request < N =>
                 [g EXCEPT !.at = "ack", !.request = @ + 1, !.tcount = 0]
                     \in GdbType
           /\ \A b \in 0..(N + 1) : g.tries < MAX_TRIES =>
                 [g EXCEPT !.at = "reply", !.tries = @ + 1,
                           !.buf = b, !.body = <<>>] \in GdbType
<1> DEFINE Q == 0..N
           C == 0..MAX_SENDS
           T == 0..MAX_TRIES
           B == 0..(N + 1)
<1>1. /\ 0 \in C /\ 0 \in T /\ 1 \in T /\ Nothing \in B
      /\ \A c \in C : c # MAX_SENDS => c + 1 \in C
      /\ \A q \in Q : q < N => q + 1 \in Q
      /\ \A t \in T : t < MAX_TRIES => t + 1 \in T
  BY RemoteLinkAssumption DEF MAX_SENDS, MAX_TRIES, Nothing
<1>2. <<>> \in Bodies /\ \A b \in Bodies, t \in Tokens : Append(b, t) \in Bodies
  BY DEF Bodies
<1>3. g \in [at : {"idle", "ack", "skip", "reply", "frame"},
             request : Q, tcount : C, tries : T, buf : B, body : Bodies]
  BY DEF GdbType
<1> HIDE DEF Q, C, T, B
<1>4. \A p \in {"idle", "ack", "skip", "reply", "frame"} :
                 [g EXCEPT !.at = p] \in GdbType
  BY <1>3 DEF GdbType, Q, C, T, B
<1> DEFINE G == [at : {"idle", "ack", "skip", "reply", "frame"},
             request : Q, tcount : C, tries : T, buf : B, body : Bodies]
<1>5. StartReply(g) \in G
  BY <1>1, <1>3 DEF StartReply
<1>6. Returned(g) \in G
  BY <1>1, <1>2, <1>3 DEF Returned
<1>7. g.tcount # MAX_SENDS => [g EXCEPT !.tcount = @ + 1] \in G
  BY <1>1, <1>3
<1>8. [g EXCEPT !.at = "frame", !.body = <<>>] \in G
  BY <1>2, <1>3
<1>9. ASSUME NEW t \in Tokens PROVE [g EXCEPT !.body = Append(@, t)] \in G
  BY <1>2, <1>3
<1>10. g.request < N => [g EXCEPT !.at = "ack", !.request = @ + 1, !.tcount = 0] \in G
  BY <1>1, <1>3
<1>11. ASSUME NEW b \in B, g.tries < MAX_TRIES
       PROVE  [g EXCEPT !.at = "reply", !.tries = @ + 1,
                           !.buf = b, !.body = <<>>] \in G
  BY <1>1, <1>2, <1>3, <1>11
<1>12. G = GdbType
  BY DEF GdbType, Q, C, T, B
<1> HIDE DEF G
<1> QED
  BY <1>4, <1>5, <1>6, <1>7, <1>8, <1>9, <1>10, <1>11, <1>12 DEF B

(* What a step of gdb does to the line keeps its type.                     *)
LEMMA GdbLineTyped ==
    ASSUME Typed
    PROVE  /\ down # <<>> /\ Consume =>
                 /\ down' \in Seq(Tokens) /\ Head(down) \in Tokens
                 /\ Head(down).value \in 0..N /\ early' = early
           /\ Keep => down' \in Seq(Tokens)
           /\ TimesOut => early' \in 0..MaxEarly
           /\ \A t \in Seq(Tokens) : Writes(t) => up' \in Seq(Tokens)
           /\ Silent => up' \in Seq(Tokens)
           /\ \A k : Reads(k) => down # <<>>
<1>1. up \in Seq(Tokens) /\ down \in Seq(Tokens) /\ early \in 0..MaxEarly
  BY LineTyped, MadeTyped
<1>2. ASSUME down # <<>>, Consume
      PROVE  /\ down' \in Seq(Tokens) /\ Head(down) \in Tokens
             /\ Head(down).value \in 0..N /\ early' = early
  BY <1>1, <1>2, TailFacts DEF Consume, Tokens
<1>3. ASSUME NEW t \in Seq(Tokens), Writes(t) PROVE up' \in Seq(Tokens)
  BY <1>1, <1>3, CatFacts DEF Writes
<1>4. TimesOut => early' \in 0..MaxEarly
  BY <1>1, RemoteLinkAssumption DEF TimesOut
<1> QED
  BY <1>1, <1>2, <1>3, <1>4 DEF Keep, Silent, Reads

(* The steps of gdb, one by one: what each reads and what it leaves.       *)
LEMMA PutpktDoes ==
    ASSUME Typed, putpkt
    PROVE  /\ Typed' /\ Others /\ results' = results /\ early' = early
           /\ gdb.at = "idle" /\ gdb.request < N
           /\ gdb'.at = "ack" /\ gdb'.request = gdb.request + 1
           /\ gdb'.tcount = 0 /\ gdb'.tries = gdb.tries
           /\ gdb'.buf = gdb.buf /\ gdb'.body = gdb.body
           /\ down' = down /\ gdb.request + 1 \in Requests
           /\ up' = up \o Frame(gdb.request + 1)
<1>1. gdb.request + 1 \in Requests /\ gdb.request + 1 \in 0..N
  <2>1. PICK q \in 0..N : q = gdb.request
    BY LineTyped
  <2>2. q < N
    BY <2>1 DEF putpkt
  <2>3. q + 1 \in Requests /\ q + 1 \in 0..N
    BY <2>2, RemoteLinkAssumption DEF Requests
  <2> QED
    BY <2>1, <2>3
<1>2. Frame(gdb.request + 1) \in Seq(Tokens)
  BY <1>1, TokenTypes
<1>3. up' \in Seq(Tokens) /\ down' \in Seq(Tokens)
  BY <1>2, GdbLineTyped DEF putpkt
<1>4. gdb' \in GdbType
  BY MadeTyped, GdbFields DEF putpkt
<1>5. early' = early /\ results' = results /\ Others
  BY DEF putpkt
<1>6. Typed'
  BY <1>3, <1>4, <1>5, MadeTyped, GdbStillTyped
<1>7. /\ gdb'.at = "ack" /\ gdb'.request = gdb.request + 1
      /\ gdb'.tcount = 0 /\ gdb'.tries = gdb.tries
      /\ gdb'.buf = gdb.buf /\ gdb'.body = gdb.body
  BY MadeTyped DEF putpkt, GdbType
<1> QED
  BY <1>1, <1>5, <1>6, <1>7 DEF putpkt, Writes, Keep

(* gdb reads the '+' it waits for.                                         *)
LEMMA AckedDoes ==
    ASSUME Typed, Acked
    PROVE  /\ Typed' /\ Others /\ results' = results /\ early' = early
           /\ gdb.at = "ack" /\ down # <<>> /\ Head(down).kind = "+"
           /\ gdb'.at = "reply" /\ gdb'.request = gdb.request
           /\ gdb'.tcount = gdb.tcount /\ gdb'.tries = 1
           /\ gdb'.buf = Nothing /\ gdb'.body = gdb.body
           /\ down' = Tail(down) /\ up' = up
<1>1. up' \in Seq(Tokens) /\ down' \in Seq(Tokens) /\ early' = early
  BY GdbLineTyped DEF Acked
<1>2. gdb' \in GdbType
  BY MadeTyped, GdbFields DEF Acked
<1>3. results' = results /\ Others
  BY DEF Acked
<1>4. Typed'
  BY <1>1, <1>2, <1>3, MadeTyped, GdbStillTyped
<1>5. /\ gdb'.at = "reply" /\ gdb'.request = gdb.request
      /\ gdb'.tcount = gdb.tcount /\ gdb'.tries = 1
      /\ gdb'.buf = Nothing /\ gdb'.body = gdb.body
  BY MadeTyped DEF Acked, StartReply, GdbType
<1> QED
  BY <1>1, <1>3, <1>4, <1>5 DEF Acked, Reads, Consume, Silent

(* A timeout leaves the line alone; it is early or the line is silent.     *)
Waited == /\ down' = down
          /\ \/ Silence /\ early' = early
             \/ ~Silence /\ early < MaxEarly /\ early' = early + 1
Took == down # <<>> /\ down' = Tail(down) /\ early' = early

(* gdb sends its request again, or gives up sending.                       *)
LEMMA ResendDoes ==
    ASSUME Typed, Resend
    PROVE  /\ Typed' /\ Others /\ results' = results
           /\ gdb.at = "ack"
           /\ (Took /\ Head(down).kind = "-") \/ Waited
           /\ gdb'.request = gdb.request /\ gdb'.body = gdb.body
           /\ \/ /\ gdb.tcount = MAX_SENDS /\ gdb'.tcount = gdb.tcount
                 /\ gdb'.at = "reply" /\ gdb'.tries = 1 /\ gdb'.buf = Nothing
                 /\ up' = up
              \/ /\ gdb.tcount < MAX_SENDS /\ gdb'.tcount = gdb.tcount + 1
                 /\ gdb'.at = "ack" /\ gdb'.tries = gdb.tries
                 /\ gdb'.buf = gdb.buf
                 /\ up' = up \o Frame(gdb.request)
<1>1. Frame(gdb.request) \in Seq(Tokens) /\ early \in 0..MaxEarly
  BY LineTyped, MadeTyped, TokenTypes
<1>2. (Took /\ Head(down).kind = "-") \/ Waited
  BY DEF Resend, Took, Waited, Reads, Consume, TimesOut, Keep
<1>3. down' \in Seq(Tokens) /\ early' \in 0..MaxEarly
  BY <1>1, GdbLineTyped DEF Resend
<1>4. Others /\ results' = results /\ gdb.at = "ack"
  BY DEF Resend
<1>5. CASE gdb.tcount = MAX_SENDS
  <2>1. gdb' = StartReply(gdb) /\ Silent
    BY <1>5 DEF Resend
  <2>2. gdb' \in GdbType /\ up' \in Seq(Tokens)
    BY <2>1, MadeTyped, GdbFields, GdbLineTyped
  <2>3. Typed'
    BY <1>3, <1>4, <2>2, MadeTyped, GdbStillTyped
  <2>4. /\ gdb'.at = "reply" /\ gdb'.request = gdb.request
        /\ gdb'.tcount = gdb.tcount /\ gdb'.tries = 1
        /\ gdb'.buf = Nothing /\ gdb'.body = gdb.body
    BY <2>1, MadeTyped DEF StartReply, GdbType
  <2> QED
    BY <1>2, <1>4, <1>5, <2>1, <2>3, <2>4 DEF Silent
<1>6. CASE gdb.tcount # MAX_SENDS
  <2>1. gdb' = [gdb EXCEPT !.tcount = @ + 1] /\ Writes(Frame(gdb.request))
    BY <1>6 DEF Resend
  <2>2. gdb' \in GdbType /\ up' \in Seq(Tokens)
    BY <1>1, <1>6, <2>1, MadeTyped, GdbFields, GdbLineTyped
  <2>3. Typed'
    BY <1>3, <1>4, <2>2, MadeTyped, GdbStillTyped
  <2>4. /\ gdb'.at = gdb.at /\ gdb'.request = gdb.request
        /\ gdb'.tcount = gdb.tcount + 1 /\ gdb'.tries = gdb.tries
        /\ gdb'.buf = gdb.buf /\ gdb'.body = gdb.body
    BY <2>1, MadeTyped DEF GdbType
  <2>5. gdb.tcount < MAX_SENDS
    BY <1>6, LineTyped DEF MAX_SENDS
  <2> QED
    BY <1>2, <1>4, <2>1, <2>3, <2>4, <2>5 DEF Writes
<1> QED
  BY <1>5, <1>6

(* gdb meets a frame where it waits for an ack.                            *)
LEMMA OldReplyDoes ==
    ASSUME Typed, OldReply
    PROVE  /\ Typed' /\ Others /\ results' = results /\ early' = early
           /\ gdb.at = "ack" /\ down # <<>> /\ Head(down).kind = "$"
           /\ gdb'.at = "skip" /\ gdb'.request = gdb.request
           /\ gdb'.tcount = gdb.tcount /\ gdb'.tries = gdb.tries
           /\ gdb'.buf = gdb.buf /\ gdb'.body = gdb.body
           /\ down' = Tail(down) /\ up' = up
<1>1. up' \in Seq(Tokens) /\ down' \in Seq(Tokens) /\ early' = early
  BY GdbLineTyped DEF OldReply
<1>2. gdb' \in GdbType
  BY MadeTyped, GdbFields DEF OldReply, At
<1>3. results' = results /\ Others
  BY DEF OldReply
<1>4. Typed'
  BY <1>1, <1>2, <1>3, MadeTyped, GdbStillTyped
<1>5. /\ gdb'.at = "skip" /\ gdb'.request = gdb.request
      /\ gdb'.tcount = gdb.tcount /\ gdb'.tries = gdb.tries
      /\ gdb'.buf = gdb.buf /\ gdb'.body = gdb.body
  BY MadeTyped DEF OldReply, At, GdbType
<1> QED
  BY <1>1, <1>3, <1>4, <1>5 DEF OldReply, Reads, Consume, Silent

(* gdb reads something of no meaning to it.                                *)
LEMMA IgnoredDoes ==
    ASSUME Typed, Ignored
    PROVE  /\ Typed' /\ Others /\ results' = results /\ early' = early
           /\ down # <<>> /\ gdb' = gdb /\ down' = Tail(down) /\ up' = up
           /\ \/ gdb.at = "ack" /\ Head(down).kind \in {"data", "#", "junk"}
              \/ gdb.at = "skip"
                 /\ Head(down).kind \in {"+", "-", "$", "data", "junk"}
              \/ gdb.at = "reply"
                 /\ Head(down).kind \in {"+", "-", "data", "#", "junk"}
<1>1. down # <<>>
  BY DEF Ignored, Reads
<1>2. up' \in Seq(Tokens) /\ down' \in Seq(Tokens) /\ early' = early
  BY <1>1, GdbLineTyped DEF Ignored
<1>3. results' = results /\ Others /\ gdb' = gdb
  BY DEF Ignored
<1>4. Typed'
  BY <1>2, <1>3, MadeTyped, GdbStillTyped
<1> QED
  BY <1>1, <1>2, <1>3, <1>4 DEF Ignored, Reads, Consume, Silent

(* The signs of a payload, as the tokens that they are on the line.        *)
Signals(v) == [i \in DOMAIN Signs[v] |-> Token(Signs[v][i], 0)]

LEMMA SignalsTyped ==
    ASSUME NEW v \in 0..N
    PROVE  /\ Signals(v) \in Seq(Tokens)
           /\ Len(Signals(v)) = Len(Signs[v]) /\ Len(Signs[v]) \in Nat
           /\ Signs[v] # <<>> => Len(Signs[v]) > 0
           /\ \A i \in DOMAIN Signals(v) : Signals(v)[i] \in {Ack, Nak}
<1>1. PICK q \in Seq({"+", "-"}) : q = Signs[v]
  BY RemoteLinkAssumption
<1>2. /\ Len(q) \in Nat /\ DOMAIN q = 1..Len(q)
      /\ \A i \in 1..Len(q) : q[i] \in {"+", "-"}
      /\ q # <<>> => Len(q) > 0
  BY EmptySeq, LenProperties, ElementOfSeq
<1>3. Signals(v) = [i \in 1..Len(q) |-> Token(q[i], 0)]
  BY <1>1, <1>2 DEF Signals
<1>4. \A i \in 1..Len(q) : Token(q[i], 0) \in {Ack, Nak}
  BY <1>2 DEF Ack, Nak
<1>5. {Ack, Nak} \subseteq Tokens
  BY TokenTypes
<1>6. Signals(v) \in Seq(Tokens) /\ Len(Signals(v)) = Len(q)
  BY <1>2, <1>3, <1>4, <1>5
<1> QED
  BY <1>1, <1>2, <1>3, <1>4, <1>6

(* gdb meets a payload where it waits for an ack.                          *)
LEMMA UnframedDoes ==
    ASSUME Typed, Unframed
    PROVE  /\ Typed' /\ results' = results /\ early' = early
           /\ UNCHANGED <<gdb, stub, up, executed, faults>>
           /\ gdb.at = "ack" /\ down # <<>> /\ Head(down).kind = "data"
           /\ Head(down).value \in 0..N
           /\ Len(Signs[Head(down).value]) > 0
           /\ down' = Signals(Head(down).value) \o Tail(down)
           /\ mistaken' = mistaken + Len(Signs[Head(down).value])
<1>1. /\ results' = results /\ early' = early
      /\ UNCHANGED <<gdb, stub, up, executed, faults>>
      /\ gdb.at = "ack" /\ down # <<>> /\ Head(down).kind = "data"
      /\ down' = Signals(Head(down).value) \o Tail(down)
      /\ mistaken' = mistaken + Len(Signs[Head(down).value])
      /\ Signs[Head(down).value] # <<>>
  BY DEF Unframed, Reads, Silent, SignsRead, Signals
<1>2. Head(down) \in Tokens /\ Tail(down) \in Seq(Tokens)
  BY <1>1, LineTyped, TailFacts
<1>3. PICK v \in 0..N : v = Head(down).value
  BY <1>2 DEF Tokens
<1>4. /\ Signals(v) \in Seq(Tokens) /\ Len(Signs[v]) \in Nat
      /\ Len(Signs[v]) > 0
  BY <1>1, <1>3, SignalsTyped
<1>5. down' \in Seq(Tokens)
  BY <1>1, <1>2, <1>3, <1>4, CatFacts
<1>6. mistaken' \in Nat
  BY <1>1, <1>3, <1>4, MadeTyped
<1>7. Holding'
  BY <1>1 DEF Typed, Holding
<1>8. Typed'
  BY <1>1, <1>5, <1>6, <1>7, MadeTyped, LineTyped, StillTyped
<1> QED
  BY <1>1, <1>3, <1>4, <1>8

(* gdb acknowledges the frame it skipped.                                  *)
LEMMA SkippedDoes ==
    ASSUME Typed, Skipped
    PROVE  /\ Typed' /\ Others /\ results' = results
           /\ gdb.at = "skip"
           /\ (Took /\ Head(down).kind = "#") \/ Waited
           /\ gdb'.at = "ack" /\ gdb'.request = gdb.request
           /\ gdb'.tcount = gdb.tcount /\ gdb'.tries = gdb.tries
           /\ gdb'.buf = gdb.buf /\ gdb'.body = gdb.body
           /\ up' = up \o <<Ack>>
<1>1. (Took /\ Head(down).kind = "#") \/ Waited
  BY DEF Skipped, Took, Waited, Reads, Consume, TimesOut, Keep
<1>2. down' \in Seq(Tokens) /\ early' \in 0..MaxEarly
  BY MadeTyped, GdbLineTyped DEF Skipped
<1>3. up' \in Seq(Tokens)
  BY TokenTypes, GdbLineTyped DEF Skipped
<1>4. gdb' \in GdbType
  BY MadeTyped, GdbFields DEF Skipped, At
<1>5. results' = results /\ Others
  BY DEF Skipped
<1>6. Typed'
  BY <1>2, <1>3, <1>4, <1>5, MadeTyped, GdbStillTyped
<1>7. /\ gdb'.at = "ack" /\ gdb'.request = gdb.request
      /\ gdb'.tcount = gdb.tcount /\ gdb'.tries = gdb.tries
      /\ gdb'.buf = gdb.buf /\ gdb'.body = gdb.body
  BY MadeTyped DEF Skipped, At, GdbType
<1> QED
  BY <1>1, <1>5, <1>6, <1>7 DEF Skipped, Writes

(* The start of a reply.                                                   *)
LEMMA ReplyStartsDoes ==
    ASSUME Typed, ReplyStarts
    PROVE  /\ Typed' /\ Others /\ results' = results /\ early' = early
           /\ gdb.at = "reply" /\ down # <<>> /\ Head(down).kind = "$"
           /\ gdb'.at = "frame" /\ gdb'.request = gdb.request
           /\ gdb'.tcount = gdb.tcount /\ gdb'.tries = gdb.tries
           /\ gdb'.buf = gdb.buf /\ gdb'.body = <<>>
           /\ down' = Tail(down) /\ up' = up
<1>1. up' \in Seq(Tokens) /\ down' \in Seq(Tokens) /\ early' = early
  BY GdbLineTyped DEF ReplyStarts
<1>2. gdb' \in GdbType
  BY MadeTyped, GdbFields DEF ReplyStarts
<1>3. results' = results /\ Others
  BY DEF ReplyStarts
<1>4. Typed'
  BY <1>1, <1>2, <1>3, MadeTyped, GdbStillTyped
<1>5. /\ gdb'.at = "frame" /\ gdb'.request = gdb.request
      /\ gdb'.tcount = gdb.tcount /\ gdb'.tries = gdb.tries
      /\ gdb'.buf = gdb.buf /\ gdb'.body = <<>>
  BY MadeTyped DEF ReplyStarts, GdbType
<1> QED
  BY <1>1, <1>3, <1>4, <1>5 DEF ReplyStarts, Reads, Consume, Silent

(* A token of a reply.                                                     *)
LEMMA ReplyGoesOnDoes ==
    ASSUME Typed, ReplyGoesOn
    PROVE  /\ Typed' /\ Others /\ results' = results /\ early' = early
           /\ gdb.at = "frame" /\ down # <<>>
           /\ Head(down).kind \in {"+", "-", "data", "junk"}
           /\ gdb'.at = "frame" /\ gdb'.request = gdb.request
           /\ gdb'.tcount = gdb.tcount /\ gdb'.tries = gdb.tries
           /\ gdb'.buf = gdb.buf /\ gdb'.body = Append(gdb.body, Head(down))
           /\ down' = Tail(down) /\ up' = up
<1>1. down # <<>> /\ Head(down).kind \in {"+", "-", "data", "junk"}
  BY DEF ReplyGoesOn, Reads
<1>2. up' \in Seq(Tokens) /\ down' \in Seq(Tokens) /\ early' = early
  BY <1>1, GdbLineTyped DEF ReplyGoesOn
<1>3. Head(down) \in Tokens
  BY <1>1, LineTyped, TailFacts
<1>4. gdb' = [gdb EXCEPT !.body = Append(@, Head(down))]
  BY DEF ReplyGoesOn
<1>5. gdb' \in GdbType
  BY <1>3, <1>4, MadeTyped, GdbFields
<1>6. results' = results /\ Others
  BY DEF ReplyGoesOn
<1>7. Typed'
  BY <1>2, <1>5, <1>6, MadeTyped, GdbStillTyped
<1>8. /\ gdb'.at = gdb.at /\ gdb'.request = gdb.request
      /\ gdb'.tcount = gdb.tcount /\ gdb'.tries = gdb.tries
      /\ gdb'.buf = gdb.buf /\ gdb'.body = Append(gdb.body, Head(down))
  BY <1>4, MadeTyped DEF GdbType
<1> QED
  BY <1>1, <1>2, <1>6, <1>7, <1>8 DEF ReplyGoesOn, Consume, Silent

(* A good reply: the call returns.                                         *)
LEMMA ReplyEndsDoes ==
    ASSUME Typed, ReplyEnds
    PROVE  /\ Typed' /\ Others /\ early' = early
           /\ gdb.at = "frame" /\ down # <<>>
           /\ Head(down).kind = "#" /\ Intact(gdb.body, Head(down))
           /\ gdb'.at = "idle" /\ gdb'.request = gdb.request
           /\ gdb'.tcount = 0 /\ gdb'.tries = 0
           /\ gdb'.buf = Nothing /\ gdb'.body = <<>>
           /\ down' = Tail(down) /\ up' = up \o <<Ack>>
           /\ results' = [results EXCEPT ![gdb.request] = Head(down).value]
           /\ Head(down).value \in 0..N
<1>1. down # <<>> /\ Head(down).kind = "#"
  BY DEF ReplyEnds, Reads
<1>2. down' \in Seq(Tokens) /\ early' = early /\ Head(down).value \in 0..N
  BY <1>1, GdbLineTyped DEF ReplyEnds
<1>3. up' \in Seq(Tokens)
  BY TokenTypes, GdbLineTyped DEF ReplyEnds
<1>4. gdb' = Returned(gdb) /\ Others
      /\ results' = [results EXCEPT ![gdb.request] = Head(down).value]
  BY DEF ReplyEnds
<1>5. gdb' \in GdbType
  BY <1>4, MadeTyped, GdbFields
<1>6. Head(down).value \in 0..(N + 1)
  <2>1. PICK v : v = Head(down).value
    OBVIOUS
  <2>2. v \in 0..(N + 1)
    BY <1>2, <2>1, RemoteLinkAssumption
  <2> QED
    BY <2>1, <2>2
<1>7. results' \in [Requests -> 0..(N + 1)]
  BY <1>4, <1>6, MadeTyped
<1>8. Typed'
  BY <1>2, <1>3, <1>4, <1>5, <1>7, MadeTyped, GdbStillTyped
<1>9. /\ gdb'.at = "idle" /\ gdb'.request = gdb.request
      /\ gdb'.tcount = 0 /\ gdb'.tries = 0
      /\ gdb'.buf = Nothing /\ gdb'.body = <<>>
  BY <1>4, MadeTyped DEF Returned, GdbType
<1> QED
  BY <1>1, <1>2, <1>4, <1>8, <1>9 DEF ReplyEnds, Consume, Writes

(* What a bad frame leaves in the buffer fits it.                          *)
LEMMA OverwrittenTyped ==
    ASSUME Typed
    PROVE  /\ Overwritten \in 0..(N + 1)
           /\ gdb.body = <<>> \/ gdb.at = "frame" =>
              \/ /\ gdb.at = "reply" \/ (gdb.body = <<>> /\ ~Reads("#"))
                 /\ Overwritten = gdb.buf
              \/ gdb.at # "reply" /\ Overwritten \in Requests \cup {Garbage}
<1> DEFINE A == gdb.at = "reply" \/ (gdb.body = <<>> /\ ~Reads("#"))
           B(r) == Reads("#") /\ gdb.body = <<Token("data", r)>>
<1>1. gdb.buf \in 0..(N + 1) /\ Garbage \in 0..(N + 1)
      /\ \A r \in Requests : r \in 0..(N + 1)
  BY LineTyped, RemoteLinkAssumption DEF Garbage, Requests
<1>2. \A r \in Requests : B(r) => gdb.body[1].value = r
  BY DEF Token
<1>3. PICK v : v = gdb.body[1].value
  OBVIOUS
<1>4. (\E r \in Requests : B(r)) => v \in Requests
  BY <1>2, <1>3
<1>5. Overwritten = CASE A -> gdb.buf
                      [] \E r \in Requests : B(r) -> v
                      [] OTHER -> Garbage
  BY <1>3 DEF Overwritten
<1>6. A /\ (gdb.body = <<>> \/ gdb.at = "frame") => ~ \E r \in Requests : B(r)
  OBVIOUS
<1>7. A /\ ~(\E r \in Requests : B(r)) => Overwritten = gdb.buf
  BY <1>5
<1>8. ~A => Overwritten \in Requests \cup {Garbage}
  BY <1>4, <1>5
<1>9. A => Overwritten \in {gdb.buf, v}
  BY <1>5
<1> QED
  BY <1>1, <1>4, <1>6, <1>7, <1>8, <1>9

(* A bad frame or a timeout: a '-', or the call returns.                   *)
LEMMA RetryDoes ==
    ASSUME Typed, Retry
    PROVE  /\ Typed' /\ Others
           /\ \/ gdb.at = "reply" /\ gdb.request \notin Forever /\ Waited
              \/ gdb.at = "frame" /\ Waited
              \/ gdb.at = "frame" /\ Took /\ Head(down).kind = "$"
              \/ gdb.at = "frame" /\ Took /\ Head(down).kind = "#"
                 /\ ~Intact(gdb.body, Head(down))
           /\ gdb'.request = gdb.request /\ gdb'.body = <<>>
           /\ \/ /\ gdb.tries < MAX_TRIES /\ gdb'.tries = gdb.tries + 1
                 /\ gdb'.at = "reply" /\ gdb'.tcount = gdb.tcount
                 /\ gdb'.buf = Overwritten
                 /\ up' = up \o <<Nak>> /\ results' = results
              \/ /\ gdb.tries = MAX_TRIES /\ gdb'.tries = 0
                 /\ gdb'.at = "idle" /\ gdb'.tcount = 0 /\ gdb'.buf = Nothing
                 /\ up' = up \o <<Nak, Ack>>
                 /\ results' = [results EXCEPT ![gdb.request] = Overwritten]
<1>1. \/ gdb.at = "reply" /\ gdb.request \notin Forever /\ Waited
      \/ gdb.at = "frame" /\ Waited
      \/ gdb.at = "frame" /\ Took /\ Head(down).kind = "$"
      \/ gdb.at = "frame" /\ Took /\ Head(down).kind = "#"
         /\ ~Intact(gdb.body, Head(down))
  BY DEF Retry, Took, Waited, Reads, Consume, TimesOut, Keep
<1>2. down' \in Seq(Tokens) /\ early' \in 0..MaxEarly
  <2>1. Took => Consume
    BY DEF Took, Consume
  <2>2. Waited => Keep /\ TimesOut
    BY DEF Waited, Keep, TimesOut
  <2>3. Took => down # <<>>
    BY DEF Took
  <2> QED
    BY <1>1, <2>1, <2>2, <2>3, MadeTyped, GdbLineTyped
<1>3. Others
  BY DEF Retry
<1>4. Overwritten \in 0..(N + 1)
  BY OverwrittenTyped
<1>5. CASE gdb.tries < MAX_TRIES
  <2>1. /\ gdb' = [gdb EXCEPT !.at = "reply", !.tries = @ + 1,
                              !.buf = Overwritten, !.body = <<>>]
        /\ Writes(<<Nak>>) /\ results' = results
    BY <1>5 DEF Retry
  <2>2. gdb' \in GdbType
    BY <1>4, <1>5, <2>1, MadeTyped, GdbFields
  <2>3. up' \in Seq(Tokens)
    BY <2>1, TokenTypes, GdbLineTyped
  <2>4. Typed'
    BY <1>2, <1>3, <2>1, <2>2, <2>3, MadeTyped, GdbStillTyped
  <2>5. /\ gdb'.at = "reply" /\ gdb'.request = gdb.request
        /\ gdb'.tcount = gdb.tcount /\ gdb'.tries = gdb.tries + 1
        /\ gdb'.buf = Overwritten /\ gdb'.body = <<>>
    BY <2>1, MadeTyped DEF GdbType
  <2> QED
    BY <1>1, <1>3, <1>5, <2>1, <2>4, <2>5 DEF Writes
<1>6. CASE ~(gdb.tries < MAX_TRIES)
  <2>1. /\ gdb' = Returned(gdb) /\ Writes(<<Nak, Ack>>)
        /\ results' = [results EXCEPT ![gdb.request] = Overwritten]
    BY <1>6 DEF Retry
  <2>2. gdb' \in GdbType
    BY <2>1, MadeTyped, GdbFields
  <2>3. up' \in Seq(Tokens)
    BY <2>1, TokenTypes, GdbLineTyped
  <2>4. results' \in [Requests -> 0..(N + 1)]
    BY <1>4, <2>1, MadeTyped
  <2>5. Typed'
    BY <1>2, <1>3, <2>2, <2>3, <2>4, MadeTyped, GdbStillTyped
  <2>6. /\ gdb'.at = "idle" /\ gdb'.request = gdb.request
        /\ gdb'.tcount = 0 /\ gdb'.tries = 0
        /\ gdb'.buf = Nothing /\ gdb'.body = <<>>
    BY <2>1, MadeTyped DEF Returned, GdbType
  <2>7. gdb.tries = MAX_TRIES
    BY <1>6, LineTyped DEF MAX_TRIES
  <2> QED
    BY <1>1, <1>3, <2>1, <2>5, <2>6, <2>7 DEF Writes
<1> QED
  BY <1>5, <1>6

(* What readchar takes and what it leaves.                                 *)
LEMMA SplitFacts ==
    ASSUME NEW s \in Seq(Tokens), NEW n \in 1..Len(s)
    PROVE  /\ SubSeq(s, 1, n) \in Seq(Tokens)
           /\ SubSeq(s, n + 1, Len(s)) \in Seq(Tokens)
           /\ Len(s) \in Nat
           /\ Len(SubSeq(s, 1, n)) = n /\ Len(SubSeq(s, n + 1, Len(s))) = Len(s) - n
           /\ \A i \in 1..n : SubSeq(s, 1, n)[i] = s[i]
           /\ \A i \in 1..(Len(s) - n) : SubSeq(s, n + 1, Len(s))[i] = s[n + i]
           /\ SubSeq(s, 1, n) \o SubSeq(s, n + 1, Len(s)) = s
<1>1. Len(s) \in Nat /\ \A i \in 1..Len(s) : s[i] \in Tokens
  BY SeqFacts
<1>2. /\ SubSeq(s, 1, n) \in Seq(Tokens) /\ Len(SubSeq(s, 1, n)) = n
      /\ \A i \in 1..n : SubSeq(s, 1, n)[i] = s[i]
  BY <1>1, SubSeqProperties
<1>3. /\ SubSeq(s, n + 1, Len(s)) \in Seq(Tokens)
      /\ Len(SubSeq(s, n + 1, Len(s))) = Len(s) - n
      /\ \A i \in 1..(Len(s) - n) : SubSeq(s, n + 1, Len(s))[i] = s[n + i]
  BY <1>1, SubSeqProperties
<1>4. SubSeq(s, 1, n) \o SubSeq(s, n + 1, Len(s)) = s
  BY <1>1, ConcatAdjacentSubSeq, SubSeqFull
<1> QED
  BY <1>1, <1>2, <1>3, <1>4

(* The read buffer of the stub after it takes a token.                     *)
LEMMA StubLineTyped ==
    ASSUME Typed
    PROVE  /\ stub.buf # <<>> =>
                 /\ Tail(stub.buf) \in Seq(Tokens) /\ NextToken \in Tokens
                 /\ NextToken.value \in 0..N
                 /\ Append(stub.body, NextToken) \in Seq(Tokens)
           /\ \A t \in Seq(Tokens) : Sends(t) => down' \in Seq(Tokens)
           /\ Quiet => down' \in Seq(Tokens)
           /\ stub.at \in {"execute", "ack"} => Frame(Request) \in Seq(Tokens)
<1>1. ASSUME NEW t \in Seq(Tokens), Sends(t) PROVE down' \in Seq(Tokens)
  BY <1>1, LineTyped, CatFacts DEF Sends
<1>2. ASSUME stub.buf # <<>>
      PROVE  /\ Tail(stub.buf) \in Seq(Tokens) /\ NextToken \in Tokens
             /\ NextToken.value \in 0..N
             /\ Append(stub.body, NextToken) \in Seq(Tokens)
  <2>1. Tail(stub.buf) \in Seq(Tokens) /\ NextToken \in Tokens
    BY <1>2, LineTyped, TailFacts DEF NextToken
  <2>2. Append(stub.body, NextToken) \in Seq(Tokens)
    BY <2>1, LineTyped
  <2> QED
    BY <2>1, <2>2 DEF Tokens
<1> QED
  BY <1>1, <1>2, LineTyped, TokenTypes DEF Quiet

(* The fields of the stub after each way its steps assign it.              *)
LEMMA StubFields ==
    ASSUME NEW s \in StubType
    PROVE  /\ \A b \in Seq(Tokens) : [s EXCEPT !.buf = b] \in StubType
           /\ \A p \in {"hunt", "frame", "execute", "ack"}, b \in Bodies :
                 s.buf # <<>> =>
                    [s EXCEPT !.at = p, !.buf = Tail(@), !.body = b] \in StubType
           /\ [s EXCEPT !.at = "ack"] \in StubType
           /\ [s EXCEPT !.at = "hunt", !.body = <<>>] \in StubType
<1>1. ASSUME NEW b \in Seq(Tokens) PROVE [s EXCEPT !.buf = b] \in StubType
  BY DEF StubType
<1>2. ASSUME s.buf # <<>>, NEW p \in {"hunt", "frame", "execute", "ack"},
             NEW b \in Bodies
      PROVE  [s EXCEPT !.at = p, !.buf = Tail(@), !.body = b] \in StubType
  <2>1. s.buf \in Seq(Tokens)
    BY DEF StubType
  <2>2. Tail(s.buf) \in Seq(Tokens)
    BY <1>2, <2>1, TailFacts
  <2> QED
    BY <2>2 DEF StubType
<1>3. [s EXCEPT !.at = "ack"] \in StubType
  BY DEF StubType
<1>4. <<>> \in Bodies
  BY DEF Bodies
<1>5. [s EXCEPT !.at = "hunt", !.body = <<>>] \in StubType
  BY <1>4 DEF StubType
<1> QED
  BY <1>1, <1>2, <1>3, <1>5

(* The steps of the stub, one by one.                                      *)
LEMMA FillDoes ==
    ASSUME Typed, Fill
    PROVE  /\ Typed' /\ StubOthers /\ executed' = executed /\ down' = down
           /\ stub.at \in {"hunt", "frame"} /\ stub.buf = <<>> /\ up # <<>>
           /\ stub'.at = stub.at /\ stub'.body = stub.body
           /\ stub'.buf # <<>> /\ stub'.buf \o up' = up
<1>1. PICK n \in 1..Len(up) : /\ stub' = [stub EXCEPT !.buf = SubSeq(up, 1, n)]
                              /\ up' = SubSeq(up, n + 1, Len(up))
  BY DEF Fill
<1>2. PICK b : b = SubSeq(up, 1, n)
  OBVIOUS
<1>3. b \in Seq(Tokens) /\ up' \in Seq(Tokens) /\ Len(b) = n /\ b \o up' = up
  BY <1>1, <1>2, LineTyped, SplitFacts
<1>4. stub' = [stub EXCEPT !.buf = b]
  BY <1>1, <1>2
<1>5. stub' \in StubType
  BY <1>3, <1>4, MadeTyped, StubFields
<1>6. stub'.at = stub.at /\ stub'.body = stub.body /\ stub'.buf = b
  BY <1>4, MadeTyped DEF StubType
<1>7. StubOthers /\ executed' = executed /\ down' = down
      /\ stub.at \in {"hunt", "frame"} /\ stub.buf = <<>>
  BY DEF Fill, Quiet
<1>8. Typed'
  <2>1. Holding'
    BY <1>6, <1>7 DEF Holding
  <2>2. down' \in Seq(Tokens)
    BY <1>7, LineTyped
  <2> QED
    BY <1>3, <1>5, <1>7, <2>1, <2>2, MadeTyped, StubStillTyped
<1>9. b # <<>> /\ up # <<>>
  BY <1>1, <1>3, LineTyped, SeqFacts
<1> QED
  BY <1>3, <1>6, <1>7, <1>8, <1>9

(* A step that takes a token from the buffer of the stub.                  *)
LEMMA TakeDoes ==
    ASSUME Typed, stub.buf # <<>>,
           NEW p \in {"hunt", "frame", "execute", "ack"}, NEW b \in Bodies
    PROVE  /\ Take(p, b) \in StubType
           /\ Take(p, b).at = p /\ Take(p, b).body = b
           /\ Take(p, b).buf = Tail(stub.buf)
<1>1. Take(p, b) \in StubType
  BY MadeTyped, StubFields DEF Take
<1> QED
  BY <1>1, MadeTyped DEF Take, StubType

(* The stub looks for the start of a frame.                                *)
LEMMA HuntDoes ==
    ASSUME Typed, Hunt
    PROVE  /\ Typed' /\ StubOthers /\ executed' = executed
           /\ down' = down /\ up' = up
           /\ stub.at = "hunt" /\ stub.buf # <<>>
           /\ stub'.at = IF Head(stub.buf).kind = "$" THEN "frame" ELSE "hunt"
           /\ stub'.buf = Tail(stub.buf) /\ stub'.body = <<>>
<1> DEFINE p == IF NextToken.kind = "$" THEN "frame" ELSE "hunt"
<1>1. stub' = Take(p, <<>>) /\ stub.buf # <<>> /\ stub.at = "hunt"
  BY DEF Hunt
<1>2. p \in {"hunt", "frame", "execute", "ack"} /\ <<>> \in Bodies
      /\ p \in {"hunt", "frame"}
  BY DEF Bodies
<1> HIDE DEF p
<1>3. stub' \in StubType /\ stub'.at = p /\ stub'.body = <<>>
      /\ stub'.buf = Tail(stub.buf)
  BY <1>1, <1>2, TakeDoes
<1>4. StubOthers /\ executed' = executed /\ down' = down /\ up' = up
  BY DEF Hunt, Quiet
<1>5. Holding'
  BY <1>2, <1>3 DEF Holding
<1>6. Typed'
  <2>1. up' \in Seq(Tokens) /\ down' \in Seq(Tokens)
    BY <1>4, LineTyped
  <2> QED
    BY <1>3, <1>4, <1>5, <2>1, MadeTyped, StubStillTyped
<1> QED
  BY <1>1, <1>3, <1>4, <1>6 DEF p, NextToken

(* A token of a request.                                                   *)
LEMMA RequestGoesOnDoes ==
    ASSUME Typed, RequestGoesOn
    PROVE  /\ Typed' /\ StubOthers /\ executed' = executed
           /\ down' = down /\ up' = up
           /\ stub.at = "frame" /\ stub.buf # <<>>
           /\ Head(stub.buf).kind # "#" /\ Head(stub.buf) \in Tokens
           /\ stub'.at = "frame" /\ stub'.buf = Tail(stub.buf)
           /\ stub'.body = Append(stub.body, Head(stub.buf))
<1> DEFINE b == Append(stub.body, NextToken)
<1>1. stub' = Take("frame", b) /\ stub.buf # <<>> /\ stub.at = "frame"
      /\ Head(stub.buf).kind # "#"
  BY DEF RequestGoesOn, NextToken
<1>2. b \in Bodies
  BY <1>1, StubLineTyped DEF Bodies
<1> HIDE DEF b
<1>3. stub' \in StubType /\ stub'.at = "frame" /\ stub'.body = b
      /\ stub'.buf = Tail(stub.buf)
  BY <1>1, <1>2, TakeDoes
<1>4. StubOthers /\ executed' = executed /\ down' = down /\ up' = up
  BY DEF RequestGoesOn, Quiet
<1>5. Holding'
  BY <1>3 DEF Holding
<1>6. Typed'
  <2>1. up' \in Seq(Tokens) /\ down' \in Seq(Tokens)
    BY <1>4, LineTyped
  <2> QED
    BY <1>3, <1>4, <1>5, <2>1, MadeTyped, StubStillTyped
<1>7. Head(stub.buf) \in Tokens
  BY <1>1, LineTyped, TailFacts
<1> QED
  BY <1>1, <1>3, <1>4, <1>6, <1>7 DEF b, NextToken

(* The end of a request, good or bad.                                      *)
LEMMA RequestEndsDoes ==
    ASSUME Typed, RequestEnds
    PROVE  /\ Typed' /\ StubOthers /\ executed' = executed /\ up' = up
           /\ stub.at = "frame" /\ stub.buf # <<>>
           /\ Head(stub.buf).kind = "#" /\ stub'.buf = Tail(stub.buf)
           /\ Head(stub.buf).value \in 0..N
           /\ Head(stub.buf) = Token("#", Head(stub.buf).value)
           /\ \/ /\ Intact(stub.body, Head(stub.buf))
                 /\ stub'.at = "execute" /\ stub'.body = stub.body
                 /\ stub.body = <<Token("data", Head(stub.buf).value)>>
                 /\ Request' = Head(stub.buf).value
                 /\ down' = down \o <<Ack>>
              \/ /\ ~Intact(stub.body, Head(stub.buf))
                 /\ stub'.at = "hunt" /\ stub'.body = <<>>
                 /\ down' = down \o <<Nak>>
<1>1. stub.buf # <<>> /\ stub.at = "frame" /\ Head(stub.buf).kind = "#"
  BY DEF RequestEnds, NextToken
<1>2. Head(stub.buf) \in Tokens
  BY <1>1, LineTyped, TailFacts
<1>3. /\ Head(stub.buf).value \in 0..N
      /\ Head(stub.buf) = Token("#", Head(stub.buf).value)
  BY <1>1, <1>2 DEF Tokens, Token
<1>4. StubOthers /\ executed' = executed /\ up' = up
  BY DEF RequestEnds
<1>5. up' \in Seq(Tokens) /\ stub.body \in Bodies /\ <<>> \in Bodies
  BY <1>4, LineTyped DEF Bodies
<1>6. CASE Intact(stub.body, Head(stub.buf))
  <2>1. stub' = Take("execute", stub.body) /\ Sends(<<Ack>>)
    BY <1>6 DEF RequestEnds, NextToken
  <2>2. stub' \in StubType /\ stub'.at = "execute" /\ stub'.body = stub.body
        /\ stub'.buf = Tail(stub.buf)
    BY <1>1, <1>5, <2>1, TakeDoes
  <2>3. down' \in Seq(Tokens)
    BY <2>1, StubLineTyped, TokenTypes
  <2>4. stub.body = <<Token("data", Head(stub.buf).value)>>
    BY <1>6 DEF Intact
  <2>5. Holding'
    BY <1>3, <2>2, <2>4 DEF Holding
  <2>6. Typed'
    BY <1>4, <1>5, <2>2, <2>3, <2>5, MadeTyped, StubStillTyped
  <2>7. Request' = Head(stub.buf).value
    BY <2>2, <2>4 DEF Request, Token
  <2> QED
    BY <1>1, <1>3, <1>4, <1>6, <2>1, <2>2, <2>4, <2>6, <2>7 DEF Sends
<1>7. CASE ~Intact(stub.body, Head(stub.buf))
  <2>1. stub' = Take("hunt", <<>>) /\ Sends(<<Nak>>)
    BY <1>7 DEF RequestEnds, NextToken
  <2>2. stub' \in StubType /\ stub'.at = "hunt" /\ stub'.body = <<>>
        /\ stub'.buf = Tail(stub.buf)
    BY <1>1, <1>5, <2>1, TakeDoes
  <2>3. down' \in Seq(Tokens)
    BY <2>1, StubLineTyped, TokenTypes
  <2>4. Holding'
    BY <2>2 DEF Holding
  <2>5. Typed'
    BY <1>4, <1>5, <2>2, <2>3, <2>4, MadeTyped, StubStillTyped
  <2> QED
    BY <1>1, <1>3, <1>4, <1>7, <2>1, <2>2, <2>5 DEF Sends
<1> QED
  BY <1>6, <1>7

(* The stub executes the request and answers.                              *)
LEMMA ExecuteDoes ==
    ASSUME Typed, Execute
    PROVE  /\ Typed' /\ StubOthers /\ up' = up
           /\ stub.at = "execute" /\ stub'.at = "ack"
           /\ stub'.buf = stub.buf /\ stub'.body = stub.body
           /\ Request' = Request /\ Request \in 0..N
           /\ executed' = [executed EXCEPT ![Request] = @ + 1]
           /\ down' = down \o Frame(Request)
<1>1. stub.at = "execute" /\ StubOthers /\ up' = up
      /\ executed' = [executed EXCEPT ![Request] = @ + 1]
      /\ stub' = [stub EXCEPT !.at = "ack"] /\ Sends(Frame(Request))
  BY DEF Execute
<1>2. stub' \in StubType
  BY <1>1, MadeTyped, StubFields
<1>3. stub'.at = "ack" /\ stub'.buf = stub.buf /\ stub'.body = stub.body
  BY <1>1, MadeTyped DEF StubType
<1>4. down' \in Seq(Tokens) /\ up' \in Seq(Tokens) /\ Request \in 0..N
  BY <1>1, LineTyped, StubLineTyped
<1>5. executed' \in [Requests -> Nat]
  <2>1. PICK q : q = Request
    OBVIOUS
  <2>2. executed' = [executed EXCEPT ![q] = executed[q] + 1]
    BY <1>1, <2>1
  <2>3. executed \in [Requests -> Nat]
    BY MadeTyped
  <2>4. \A r \in Requests : executed'[r] \in Nat
    BY <2>2, <2>3
  <2> QED
    BY <2>2, <2>3, <2>4
<1>6. Holding'
  BY <1>1, <1>3 DEF Typed, Holding
<1>7. Typed'
  BY <1>1, <1>2, <1>4, <1>5, <1>6, MadeTyped, StubStillTyped
<1> QED
  BY <1>1, <1>3, <1>4, <1>7 DEF Request, Sends

(* The stub reads the ack of its answer, or answers again.                 *)
LEMMA ReadAckDoes ==
    ASSUME Typed, ReadAck
    PROVE  /\ Typed' /\ StubOthers /\ executed' = executed
           /\ stub.at = "ack" /\ up # <<>> /\ up' = Tail(up)
           /\ Request \in 0..N
           /\ \/ /\ Head(up) = Ack /\ stub'.at = "hunt" /\ stub'.body = <<>>
                 /\ stub'.buf = stub.buf /\ down' = down
              \/ /\ Head(up) # Ack /\ stub' = stub
                 /\ Request' = Request
                 /\ down' = down \o Frame(Request)
<1>1. stub.at = "ack" /\ up # <<>> /\ up' = Tail(up) /\ StubOthers
      /\ executed' = executed
  BY DEF ReadAck
<1>2. up' \in Seq(Tokens) /\ executed' \in [Requests -> Nat] /\ Request \in 0..N
  BY <1>1, LineTyped, MadeTyped, TailFacts
<1>3. CASE Head(up) = Ack
  <2>1. stub' = [stub EXCEPT !.at = "hunt", !.body = <<>>] /\ down' = down
    BY <1>3 DEF ReadAck, Quiet
  <2>2. stub' \in StubType
    BY <2>1, MadeTyped, StubFields
  <2>3. stub'.at = "hunt" /\ stub'.body = <<>> /\ stub'.buf = stub.buf
    BY <2>1, MadeTyped DEF StubType
  <2>4. Holding' /\ down' \in Seq(Tokens)
    BY <2>1, <2>3, LineTyped DEF Holding
  <2>5. Typed'
    BY <1>1, <1>2, <2>2, <2>4, StubStillTyped
  <2> QED
    BY <1>1, <1>2, <1>3, <2>1, <2>3, <2>5
<1>4. CASE Head(up) # Ack
  <2>1. stub' = stub /\ Sends(Frame(Request))
    BY <1>4 DEF ReadAck
  <2>2. stub' \in StubType /\ down' \in Seq(Tokens)
    BY <1>1, <2>1, MadeTyped, StubLineTyped
  <2>3. Holding'
    BY <2>1 DEF Typed, Holding
  <2>4. Typed'
    BY <1>1, <1>2, <2>2, <2>3, StubStillTyped
  <2> QED
    BY <1>1, <1>2, <1>4, <2>1, <2>4 DEF Sends, Request
<1> QED
  BY <1>3, <1>4

(* The stub answers once more for what comes before the '+' of the next    *)
(* request, and takes that for the ack.                                    *)
LEMMA RequestAsAckDoes ==
    ASSUME Typed, RequestAsAck
    PROVE  /\ Typed' /\ StubOthers /\ executed' = executed
           /\ stub.at = "ack" /\ up # <<>> /\ up' = Tail(up)
           /\ Head(up).kind = "data"
           /\ Request \in 0..N /\ down' = down \o Frame(Request)
           /\ stub'.at = "hunt" /\ stub'.body = <<>> /\ stub'.buf = stub.buf
<1>1. /\ stub.at = "ack" /\ up # <<>> /\ up' = Tail(up) /\ StubOthers
      /\ executed' = executed /\ Head(up).kind = "data"
      /\ stub' = [stub EXCEPT !.at = "hunt", !.body = <<>>]
      /\ down' = down \o Frame(Request)
  BY DEF RequestAsAck, HoldsPlus, Sends
<1>2. /\ up' \in Seq(Tokens) /\ executed' \in [Requests -> Nat]
      /\ Request \in 0..N
  BY <1>1, LineTyped, MadeTyped, TailFacts
<1>3. stub' \in StubType
  BY <1>1, MadeTyped, StubFields
<1>4. stub'.at = "hunt" /\ stub'.body = <<>> /\ stub'.buf = stub.buf
  BY <1>1, MadeTyped DEF StubType
<1>5. Holding'
  BY <1>4 DEF Holding
<1>6. down' \in Seq(Tokens)
  BY <1>1, StubLineTyped DEF Sends
<1>7. Typed'
  BY <1>1, <1>2, <1>3, <1>5, <1>6, StubStillTyped
<1> QED
  BY <1>1, <1>2, <1>4, <1>7

(* A fault takes the first token of one direction away or replaces it.     *)
Damages(s, t) == /\ s # <<>>
                 /\ \/ t = Tail(s)
                    \/ \E g \in Tokens :
                          /\ t = <<g>> \o Tail(s)
                          /\ \/ g = Token("junk", 0)
                             \/ g = Token("#", 0) /\ Head(s).kind = "#"

(* The line loses or garbles a token.                                      *)
LEMMA FaultDoes ==
    ASSUME Typed, Fault
    PROVE  /\ Typed' /\ faults' = faults + 1
           /\ UNCHANGED <<gdb, stub, executed, results, early, mistaken>>
           /\ \/ Damages(up, up') /\ down' = down
              \/ Damages(down, down') /\ up' = up
<1>1. faults' \in 0..MaxFaults /\ faults' = faults + 1
  <2>1. PICK n \in 0..MaxFaults : n = faults
    BY MadeTyped
  <2>2. n < MaxFaults /\ faults' = n + 1
    BY <2>1 DEF Fault
  <2> QED
    BY <2>1, <2>2, RemoteLinkAssumption
<1>2. UNCHANGED <<gdb, stub, executed, results, early, mistaken>>
  BY DEF Fault
<1>3. \/ Damages(up, up') /\ down' = down /\ up' \in Seq(Tokens)
      \/ Damages(down, down') /\ up' = up /\ down' \in Seq(Tokens)
  BY LineTyped, DamagedTyped DEF Fault, Damages
<1>4. Holding'
  BY <1>2 DEF Typed, Holding
<1>5. Typed'
  <2>1. up' \in Seq(Tokens) /\ down' \in Seq(Tokens)
    BY <1>3, LineTyped
  <2> QED
    BY <1>1, <1>2, <1>4, <2>1, MadeTyped, StillTyped
<1> QED
  BY <1>1, <1>2, <1>3, <1>5

(* Every step keeps the types.                                             *)
LEMMA TypedKeeps ==
    ASSUME Typed, [Next]_vars
    PROVE  Typed'
<1>1. CASE GdbStep
  BY <1>1, PutpktDoes, AckedDoes, ResendDoes, OldReplyDoes, UnframedDoes,
     IgnoredDoes, SkippedDoes, ReplyStartsDoes, ReplyGoesOnDoes,
     ReplyEndsDoes, RetryDoes
     DEF GdbStep
<1>2. CASE StubStep
  BY <1>2, FillDoes, HuntDoes, RequestGoesOnDoes, RequestEndsDoes,
     ExecuteDoes, ReadAckDoes, RequestAsAckDoes DEF StubStep
<1>3. CASE Fault
  BY <1>3, FaultDoes
<1>4. CASE UNCHANGED vars
  BY <1>4 DEF vars, Typed, TypeOK, Holding
<1> QED
  BY <1>1, <1>2, <1>3, <1>4 DEF Next

(* Both programs keep their locals in range: no counter of attempts passes *)
(* its limit, a payload fits the buffer, and the stub executes and answers *)
(* only a request it has.                                                  *)
THEOREM LinkTypes == Spec => []TypeOK
<1>1. Typed => TypeOK
  BY DEF Typed
<1> QED
  BY <1>1, InitTyped, TypedKeeps, PTL DEF Spec

-----------------------------------------------------------------------------
(* Executions.  What is counted on the way to the stub and back.           *)

Pipe(K) == Count(stub.buf, K) + Count(up, K)
Naks == Count(down, Kind("-"))
Acks == Count(down, Kind("+"))
Cause == faults + early + mistaken
Sending == gdb.at \in {"ack", "skip"}
Open == IF Sending THEN 1 ELSE 0
Due(r) == IF stub.at = "execute" /\ Request = r THEN 1 ELSE 0
Done(r) == executed[r] + Due(r)
None(s, k) == \A i \in DOMAIN s : s[i].kind # k

(* The end of a frame follows, with no '+' in between.                     *)
EndFollows(s, i) == \E j \in DOMAIN s : /\ j > i /\ s[j].kind = "#"
                                        /\ \A k \in (i + 1)..j : s[k].kind # "+"
LastAck(s, i) == \A k \in DOMAIN s : k > i => s[k].kind # "+"
Started(s, i) == \E h \in DOMAIN s : h < i /\ s[h].kind = "$"
FramedSeq(s, skipping, executing) ==
    \A i \in DOMAIN s :
       /\ s[i].kind = "$" => EndFollows(s, i)
       /\ s[i].kind = "+" /\ (skipping \/ Started(s, i)) =>
             \/ EndFollows(s, i)
             \/ executing /\ LastAck(s, i)
Covered(s) == \A i \in DOMAIN s :
                 s[i].kind = "#" => \E j \in 1..i : s[j].kind = "+"
(* gdb skips a frame past an ack it has not seen.                          *)
Deaf == /\ gdb.at = "skip" /\ Covered(down)
        /\ Acks > 0 \/ stub.at # "execute"
Missed == IF Deaf THEN 1 ELSE 0
(* Both sides wait for an ack.                                             *)
Stuck == gdb.at = "ack" /\ stub.at = "ack" /\ up = <<>> /\ None(down, "$")

Budget == Pipe(Ends) + Naks + Acks <= Cause + Open
Runs == \A r \in Requests : Done(r) + Pipe(EndsOf(r)) <= 1 + Cause
New == \A r \in Requests : r > gdb.request =>
           Done(r) = 0 /\ Pipe(EndsOf(r)) = 0
RunsOfCurrent == Sending => Done(gdb.request) + Pipe(Ends) + Naks <= 1 + Cause
StuckPaid == Stuck => /\ Pipe(Ends) + Naks + Acks <= Cause
                      /\ Done(gdb.request) + Pipe(Ends) + Naks <= Cause
Heard == Sending => Done(gdb.request) + Missed <= Acks + Cause
Framed == FramedSeq(down, gdb.at = "skip", stub.at = "execute")
Running == Sending => gdb.request > 0

Explained == /\ Budget /\ Runs /\ New /\ RunsOfCurrent
             /\ StuckPaid /\ Heard /\ Framed /\ Running

(* A count of fewer kinds of tokens is smaller.                            *)
LEMMA CountMono ==
    ASSUME NEW s \in Seq(Tokens), NEW K, NEW L, K \subseteq L
    PROVE  Count(s, K) <= Count(s, L)
<1> DEFINE A == {i \in DOMAIN s : s[i] \in K}
           B == {i \in DOMAIN s : s[i] \in L}
<1>1. IsFiniteSet(B) /\ A \subseteq B
  BY CountType
<1>2. Cardinality(A) <= Cardinality(B)
  <2> HIDE DEF A, B
  <2> QED
    BY <1>1, FS_Subset
<1> QED
  BY <1>2 DEF Count

(* A token that is read counts for one, or for nothing.                    *)
LEMMA OneOf ==
    ASSUME NEW t \in Tokens
    PROVE  /\ \A k : One(t, Kind(k)) = IF t.kind = k THEN 1 ELSE 0
           /\ One(t, Ends) = IF t.kind = "#" THEN 1 ELSE 0
           /\ \A r : One(t, EndsOf(r)) = IF t = Token("#", r) THEN 1 ELSE 0
           /\ \A K : One(t, K) \in {0, 1}
BY DEF One, Kind, Ends, EndsOf, Tokens

(* What each kind of token counts for.                                     *)
LEMMA OneOfToken ==
    /\ \A r : One(Ack, EndsOf(r)) = 0 /\ One(Nak, EndsOf(r)) = 0
    /\ One(Ack, Ends) = 0 /\ One(Nak, Ends) = 0
    /\ One(Ack, Kind("+")) = 1 /\ One(Nak, Kind("+")) = 0
    /\ One(Ack, Kind("-")) = 0 /\ One(Nak, Kind("-")) = 1
    /\ \A p \in 0..N, k \in {"+", "-", "$", "data", "#"} :
          /\ One(Token("$", 0), Kind(k)) = IF k = "$" THEN 1 ELSE 0
          /\ One(Token("data", p), Kind(k)) = IF k = "data" THEN 1 ELSE 0
          /\ One(Token("#", p), Kind(k)) = IF k = "#" THEN 1 ELSE 0
          /\ \A r : /\ One(Token("$", 0), EndsOf(r)) = 0
                    /\ One(Token("data", p), EndsOf(r)) = 0
                    /\ One(Token("#", p), EndsOf(r)) = IF p = r THEN 1 ELSE 0
<1>1. Ack \in Tokens /\ Nak \in Tokens /\ Ack.kind = "+" /\ Nak.kind = "-"
  BY TokenTypes DEF Ack, Nak, Token
<1>2. \A r : Ack # Token("#", r) /\ Nak # Token("#", r)
  BY <1>1 DEF Token
<1>3. ASSUME NEW p \in 0..N
      PROVE  /\ Token("$", 0) \in Tokens /\ Token("$", 0).kind = "$"
             /\ Token("data", p) \in Tokens /\ Token("data", p).kind = "data"
             /\ Token("#", p) \in Tokens /\ Token("#", p).kind = "#"
             /\ \A r : /\ Token("$", 0) # Token("#", r)
                       /\ Token("data", p) # Token("#", r)
                       /\ Token("#", p) = Token("#", r) <=> p = r
  <2>1. /\ Token("$", 0) \in Tokens /\ Token("data", p) \in Tokens
        /\ Token("#", p) \in Tokens
    BY TokenTypes
  <2> QED
    BY <2>1 DEF Token
<1>4. ASSUME NEW p \in 0..N
      PROVE  /\ \A k : /\ One(Token("$", 0), Kind(k)) = IF k = "$" THEN 1 ELSE 0
                       /\ One(Token("data", p), Kind(k)) =
                             IF k = "data" THEN 1 ELSE 0
                       /\ One(Token("#", p), Kind(k)) =
                             IF k = "#" THEN 1 ELSE 0
             /\ \A r : /\ One(Token("$", 0), EndsOf(r)) = 0
                       /\ One(Token("data", p), EndsOf(r)) = 0
                       /\ One(Token("#", p), EndsOf(r)) =
                             IF p = r THEN 1 ELSE 0
  BY <1>3, OneOf
<1>5. /\ One(Ack, Ends) = 0 /\ One(Nak, Ends) = 0
      /\ One(Ack, Kind("+")) = 1 /\ One(Nak, Kind("+")) = 0
      /\ One(Ack, Kind("-")) = 0 /\ One(Nak, Kind("-")) = 1
  BY <1>1, OneOf
<1>6. \A r : One(Ack, EndsOf(r)) = 0 /\ One(Nak, EndsOf(r)) = 0
  BY <1>1, <1>2, OneOf
<1> QED
  BY <1>4, <1>5, <1>6

(* What a frame, an ack and a '-' add to the counts.                       *)
LEMMA CountTokens ==
    /\ \A p \in 0..N :
          /\ Count(Frame(p), Ends) = 1
          /\ Count(Frame(p), Kind("+")) = 0 /\ Count(Frame(p), Kind("-")) = 0
          /\ \A r : Count(Frame(p), EndsOf(r)) = IF p = r THEN 1 ELSE 0
    /\ Count(<<Ack>>, Ends) = 0 /\ Count(<<Nak>>, Ends) = 0
    /\ Count(<<Nak, Ack>>, Ends) = 0
    /\ Count(<<Ack>>, Kind("+")) = 1 /\ Count(<<Ack>>, Kind("-")) = 0
    /\ Count(<<Nak>>, Kind("+")) = 0 /\ Count(<<Nak>>, Kind("-")) = 1
    /\ \A r : /\ Count(<<Ack>>, EndsOf(r)) = 0 /\ Count(<<Nak>>, EndsOf(r)) = 0
              /\ Count(<<Nak, Ack>>, EndsOf(r)) = 0
<1>1. ASSUME NEW p \in 0..N
      PROVE  /\ Count(Frame(p), Ends) = 1
             /\ Count(Frame(p), Kind("+")) = 0
             /\ Count(Frame(p), Kind("-")) = 0
             /\ \A r : Count(Frame(p), EndsOf(r)) = IF p = r THEN 1 ELSE 0
  <2>1. \A K : Count(Frame(p), K) = One(Token("$", 0), K)
                                    + One(Token("data", p), K)
                                    + One(Token("#", p), K)
    <3>1. /\ Token("$", 0) \in Tokens /\ Token("data", p) \in Tokens
          /\ Token("#", p) \in Tokens
      BY TokenTypes
    <3>2. \A K : Count(<<Token("$", 0), Token("data", p), Token("#", p)>>, K)
                 = One(Token("$", 0), K) + One(Token("data", p), K)
                   + One(Token("#", p), K)
      BY <3>1, CountFew
    <3> QED
      BY <3>2 DEF Frame
  <2>2. Count(Frame(p), Ends) = 1
    BY <2>1, OneOfToken DEF Ends
  <2>3. Count(Frame(p), Kind("+")) = 0 /\ Count(Frame(p), Kind("-")) = 0
    BY <2>1, OneOfToken
  <2>4. ASSUME NEW r PROVE Count(Frame(p), EndsOf(r)) = IF p = r THEN 1 ELSE 0
    <3>1. Count(Frame(p), EndsOf(r)) = One(Token("$", 0), EndsOf(r))
             + One(Token("data", p), EndsOf(r)) + One(Token("#", p), EndsOf(r))
      BY <2>1
    <3>2. /\ One(Token("$", 0), EndsOf(r)) = 0
          /\ One(Token("data", p), EndsOf(r)) = 0
          /\ One(Token("#", p), EndsOf(r)) = IF p = r THEN 1 ELSE 0
      BY OneOfToken
    <3> QED
      BY <3>1, <3>2
  <2> QED
    BY <2>2, <2>3, <2>4
<1>2. \A K : /\ Count(<<Ack>>, K) = One(Ack, K)
             /\ Count(<<Nak>>, K) = One(Nak, K)
             /\ Count(<<Nak, Ack>>, K) = One(Nak, K) + One(Ack, K)
  BY TokenTypes, CountFew
<1>3. \A r : /\ Count(<<Ack>>, EndsOf(r)) = 0 /\ Count(<<Nak>>, EndsOf(r)) = 0
             /\ Count(<<Nak, Ack>>, EndsOf(r)) = 0
  BY <1>2, OneOfToken
<1> QED
  BY <1>1, <1>2, <1>3, OneOfToken

(* The counts are natural numbers.                                         *)
LEMMA CountNats ==
    ASSUME Typed
    PROVE  /\ \A K : Pipe(K) \in Nat /\ Count(down, K) \in Nat
           /\ Naks \in Nat /\ Acks \in Nat /\ Cause \in Nat
           /\ faults \in Nat /\ early \in Nat /\ mistaken \in Nat
           /\ \A r \in Requests : executed[r] \in Nat /\ Done(r) \in Nat
           /\ Open \in {0, 1} /\ Missed \in {0, 1}
           /\ \A r \in 0..N : Pipe(EndsOf(r)) <= Pipe(Ends)
<1>1. \A K : Count(up, K) \in Nat /\ Count(down, K) \in Nat
             /\ Count(stub.buf, K) \in Nat
  BY LineTyped, CountType
<1>2. \A r \in Requests : executed[r] \in Nat
  BY MadeTyped
<1>3. faults \in Nat /\ early \in Nat /\ mistaken \in Nat
  BY LineTyped
<1>4. ASSUME NEW r \in 0..N PROVE Pipe(EndsOf(r)) <= Pipe(Ends)
  <2>1. EndsOf(r) \subseteq Ends
    BY DEF EndsOf, Ends, Kind, Token
  <2>2. /\ Count(up, EndsOf(r)) <= Count(up, Ends)
        /\ Count(stub.buf, EndsOf(r)) <= Count(stub.buf, Ends)
    BY <2>1, LineTyped, CountMono
  <2> QED
    BY <1>1, <2>2 DEF Pipe
<1>5. \A K : Pipe(K) \in Nat /\ Count(down, K) \in Nat
  BY <1>1 DEF Pipe
<1>6. \A r \in Requests : Done(r) \in Nat
  BY <1>2 DEF Done, Due
<1> QED
  BY <1>2, <1>3, <1>4, <1>5, <1>6 DEF Naks, Acks, Cause, Open, Missed

(* How the steps move the counts of the pipe.                              *)
LEMMA PipeSame ==
    ASSUME up' = up, stub'.buf = stub.buf
    PROVE  \A K : Pipe(K)' = Pipe(K)
BY DEF Pipe

(* gdb writes to the pipe.                                                 *)
LEMMA PipeGrows ==
    ASSUME Typed, NEW CONSTANT t \in Seq(Tokens), up' = up \o t, stub' = stub
    PROVE  \A K : Pipe(K)' = Pipe(K) + Count(t, K)
<1> SUFFICES ASSUME NEW CONSTANT K PROVE Pipe(K)' = Pipe(K) + Count(t, K)
  OBVIOUS
<1>1. Count(up \o t, K) = Count(up, K) + Count(t, K)
  BY LineTyped, CountCat
<1>2. /\ Count(up, K) \in Nat /\ Count(t, K) \in Nat
      /\ Count(stub.buf, K) \in Nat
  BY LineTyped, CountType
<1> QED
  BY <1>1, <1>2 DEF Pipe

(* readchar leaves as much in the pipe as there was.                       *)
LEMMA PipeFill ==
    ASSUME Typed, stub.buf = <<>>, stub'.buf \o up' = up, Typed'
    PROVE  \A K : Pipe(K)' = Pipe(K)
<1> SUFFICES ASSUME NEW CONSTANT K PROVE Pipe(K)' = Pipe(K)
  OBVIOUS
<1>1. stub'.buf \in Seq(Tokens) /\ up' \in Seq(Tokens)
  BY DEF Typed, TypeOK
<1>2. Count(stub'.buf \o up', K) = Count(stub'.buf, K) + Count(up', K)
  BY <1>1, CountCat
<1>3. Count(stub.buf, K) = 0
  BY CountFew
<1>4. Count(up, K) \in Nat
  BY LineTyped, CountType
<1> QED
  BY <1>2, <1>3, <1>4 DEF Pipe

(* The stub takes a token from its buffer.                                 *)
LEMMA PipeTakes ==
    ASSUME Typed, stub.buf # <<>>, stub'.buf = Tail(stub.buf), up' = up
    PROVE  \A K : Pipe(K)' = Pipe(K) - One(Head(stub.buf), K)
<1> SUFFICES ASSUME NEW CONSTANT K
             PROVE  Pipe(K)' = Pipe(K) - One(Head(stub.buf), K)
  OBVIOUS
<1>1. Count(stub.buf, K) = One(Head(stub.buf), K) + Count(Tail(stub.buf), K)
  BY LineTyped, CountTail
<1>2. /\ Count(up, K) \in Nat /\ Count(stub.buf, K) \in Nat
      /\ Count(Tail(stub.buf), K) \in Nat /\ One(Head(stub.buf), K) \in Nat
  BY LineTyped, CountType, TailFacts DEF One
<1> QED
  BY <1>1, <1>2 DEF Pipe

(* The stub reads a token past its buffer.                                 *)
LEMMA PipeReads ==
    ASSUME Typed, up # <<>>, stub'.buf = stub.buf, up' = Tail(up)
    PROVE  \A K : Pipe(K)' = Pipe(K) - One(Head(up), K)
<1> SUFFICES ASSUME NEW CONSTANT K
             PROVE  Pipe(K)' = Pipe(K) - One(Head(up), K)
  OBVIOUS
<1>1. Count(up, K) = One(Head(up), K) + Count(Tail(up), K)
  BY LineTyped, CountTail
<1>2. /\ Count(up, K) \in Nat /\ Count(stub.buf, K) \in Nat
      /\ Count(Tail(up), K) \in Nat /\ One(Head(up), K) \in Nat
  BY LineTyped, CountType, TailFacts DEF One
<1> QED
  BY <1>1, <1>2 DEF Pipe

(* A fault adds nothing to what is counted.                                *)
LEMMA DamageCounts ==
    ASSUME NEW s \in Seq(Tokens), NEW t, Damages(s, t)
    PROVE  /\ t \in Seq(Tokens)
           /\ Count(t, Ends) <= Count(s, Ends)
           /\ \A r \in Requests : Count(t, EndsOf(r)) <= Count(s, EndsOf(r))
           /\ Count(t, Kind("-")) <= Count(s, Kind("-"))
           /\ Head(s).kind = "+" =>
                 Count(t, Kind("+")) = Count(s, Kind("+")) - 1
           /\ Head(s).kind # "+" => Count(t, Kind("+")) = Count(s, Kind("+"))
<1> DEFINE h == Head(s)
           u == Tail(s)
<1>1. h \in Tokens /\ u \in Seq(Tokens) /\ s # <<>>
  BY TailFacts DEF Damages
<1>2. \A K : Count(s, K) = One(h, K) + Count(u, K)
  BY <1>1, CountTail
<1>3. \A K : Count(s, K) \in Nat /\ Count(u, K) \in Nat
  BY <1>1, CountType
<1>4. \A K : One(h, K) \in {0, 1}
  BY <1>1, OneOf
<1>5. One(h, Kind("+")) = IF h.kind = "+" THEN 1 ELSE 0
  BY <1>1, OneOf
<1>6. CASE t = u
  <2> HIDE DEF h, u
  <2>1. \A K : Count(t, K) <= Count(s, K)
    BY <1>2, <1>3, <1>4, <1>6
  <2>2. /\ h.kind = "+" => Count(t, Kind("+")) = Count(s, Kind("+")) - 1
        /\ h.kind # "+" => Count(t, Kind("+")) = Count(s, Kind("+"))
    BY <1>2, <1>3, <1>5, <1>6
  <2> QED
    BY <1>1, <1>6, <2>1, <2>2 DEF h
<1>7. CASE t # u
  <2>1. PICK g \in Tokens : /\ t = <<g>> \o u
                            /\ \/ g = Token("junk", 0)
                               \/ g = Token("#", 0) /\ h.kind = "#"
    BY <1>7 DEF Damages
  <2>2. /\ g.kind \in {"junk", "#"} /\ (g.kind = "#" => h.kind = "#")
        /\ \A r \in Requests : g # Token("#", r)
    BY <2>1, RemoteLinkAssumption DEF Token, Requests
  <2>3. <<g>> \in Seq(Tokens)
    OBVIOUS
  <2> HIDE DEF h, u
  <2>4. t \in Seq(Tokens) /\ \A K : Count(t, K) = One(g, K) + Count(u, K)
    <3>1. \A K : Count(<<g>> \o u, K) = Count(<<g>>, K) + Count(u, K)
      BY <1>1, <2>3, CountCat
    <3>2. \A K : Count(<<g>>, K) = One(g, K)
      BY CountFew
    <3>3. <<g>> \o u \in Seq(Tokens)
      BY <1>1, <2>3, CatFacts
    <3> QED
      BY <2>1, <3>1, <3>2, <3>3
  <2>5. One(g, Ends) <= One(h, Ends)
    BY <1>1, <2>2, OneOf
  <2>6. One(g, Kind("-")) = 0 /\ One(g, Kind("+")) = 0
        /\ \A r \in Requests : One(g, EndsOf(r)) = 0
    BY <2>2, OneOf
  <2>7. Count(t, Ends) <= Count(s, Ends)
    BY <1>2, <1>3, <1>4, <2>4, <2>5, OneOf
  <2>8. ASSUME NEW K, One(g, K) = 0 PROVE Count(t, K) <= Count(s, K)
    BY <1>2, <1>3, <1>4, <2>4, <2>8
  <2>9. /\ h.kind = "+" => Count(t, Kind("+")) = Count(s, Kind("+")) - 1
        /\ h.kind # "+" => Count(t, Kind("+")) = Count(s, Kind("+"))
    BY <1>2, <1>3, <1>5, <2>4, <2>6
  <2> QED
    BY <2>4, <2>6, <2>7, <2>8, <2>9 DEF h
<1> QED
  BY <1>6, <1>7

(* Damage to the pipe.                                                     *)
LEMMA PipeDamaged ==
    ASSUME Typed, Typed', Damages(up, up'), stub' = stub
    PROVE  /\ Pipe(Ends)' <= Pipe(Ends)
           /\ \A r \in Requests : Pipe(EndsOf(r))' <= Pipe(EndsOf(r))
<1>1. /\ Count(up', Ends) <= Count(up, Ends)
      /\ \A r \in Requests : Count(up', EndsOf(r)) <= Count(up, EndsOf(r))
  BY LineTyped, DamageCounts
<1>2. \A K : Count(up, K) \in Nat /\ Count(stub.buf, K) \in Nat
  BY LineTyped, CountType
<1>3. \A K : Count(up', K) \in Nat
  <2>1. up' \in Seq(Tokens)
    BY DEF Typed, TypeOK
  <2> QED
    BY <2>1, CountType
<1>4. Pipe(Ends)' = Count(stub.buf, Ends) + Count(up', Ends)
  BY DEF Pipe, Ends, Kind
<1>5. \A r \in Requests :
         Pipe(EndsOf(r))' = Count(stub.buf, EndsOf(r)) + Count(up', EndsOf(r))
  BY DEF Pipe, EndsOf, Requests, Token
<1> QED
  BY <1>1, <1>2, <1>3, <1>4, <1>5 DEF Pipe

(* How the steps move what is on its way back.                             *)
LEMMA DownTakes ==
    ASSUME Typed, down # <<>>, down' = Tail(down)
    PROVE  /\ Head(down).kind = "-" => Naks' = Naks - 1
           /\ Head(down).kind # "-" => Naks' = Naks
           /\ Head(down).kind = "+" => Acks' = Acks - 1
           /\ Head(down).kind # "+" => Acks' = Acks
           /\ Naks' \in Nat /\ Acks' \in Nat
<1>1. Head(down) \in Tokens /\ Tail(down) \in Seq(Tokens)
  BY LineTyped, TailFacts
<1>2. \A K : /\ Count(down, K) = One(Head(down), K) + Count(Tail(down), K)
             /\ Count(Tail(down), K) \in Nat
  BY <1>1, LineTyped, CountTail, CountType
<1>3. \A k : One(Head(down), Kind(k)) = IF Head(down).kind = k THEN 1 ELSE 0
  BY <1>1, OneOf
<1>4. Naks' = Count(Tail(down), Kind("-")) /\ Acks' = Count(Tail(down), Kind("+"))
  BY DEF Naks, Acks, Kind
<1> QED
  BY <1>2, <1>3, <1>4 DEF Naks, Acks

(* The stub writes.                                                        *)
LEMMA DownGrows ==
    ASSUME Typed, NEW t \in Seq(Tokens), down' = down \o t
    PROVE  /\ Naks' = Naks + Count(t, Kind("-"))
           /\ Acks' = Acks + Count(t, Kind("+"))
<1>1. \A K : Count(down \o t, K) = Count(down, K) + Count(t, K)
  BY LineTyped, CountCat
<1>2. Naks' = Count(down \o t, Kind("-")) /\ Acks' = Count(down \o t, Kind("+"))
  BY DEF Naks, Acks, Kind
<1> QED
  BY <1>1, <1>2 DEF Naks, Acks

(* Nothing happens on the way back.                                        *)
LEMMA DownSame ==
    ASSUME down' = down
    PROVE  Naks' = Naks /\ Acks' = Acks
BY DEF Naks, Acks, Kind

(* Where an ack or the start of a frame stands, the end of a frame comes,  *)
(* also when tokens that start no frame take the place of the first.       *)
LEMMA FramedLater ==
    ASSUME NEW s \in Seq(Tokens), NEW w \in Seq(Tokens),
           NEW a, NEW b, NEW x,
           s # <<>>, FramedSeq(s, a, x),
           \A i \in DOMAIN w : w[i].kind # "$" /\ (w[i].kind = "+" => ~b),
           b => a \/ Head(s).kind = "$"
    PROVE  FramedSeq(w \o Tail(s), b, x)
<1>1. PICK u \in Seq(Tokens) : u = Tail(s)
  BY TailFacts
<1>2. PICK t \in Seq(Tokens) : t = w \o u
  BY CatFacts
<1>3. PICK n \in Nat, m \in Nat :
         /\ n = Len(s) /\ m = Len(w) /\ n >= 1
         /\ DOMAIN s = 1..n /\ DOMAIN w = 1..m
         /\ Head(s) = s[1] /\ Len(u) = n - 1
         /\ \A i \in 1..(n - 1) : u[i] = s[i + 1]
  BY <1>1, TailFacts, SeqFacts
<1>4. /\ DOMAIN t = 1..(m + (n - 1))
      /\ \A i \in 1..m : t[i] = w[i]
      /\ \A i \in 1..(n - 1) : t[m + i] = u[i]
  BY <1>2, <1>3, CatFacts
<1>5. \A i \in 2..n : /\ m + (i - 1) \in DOMAIN t
                       /\ t[m + (i - 1)] = s[i]
  <2> SUFFICES ASSUME NEW i \in 2..n
               PROVE  /\ m + (i - 1) \in DOMAIN t
                      /\ t[m + (i - 1)] = s[i]
    OBVIOUS
  <2> DEFINE k == i - 1
  <2>1. k \in 1..(n - 1) /\ k = i - 1 /\ i = k + 1
    OBVIOUS
  <2> HIDE DEF k
  <2>2. u[k] = s[k + 1]
    BY <1>3, <2>1
  <2>3. t[m + k] = u[k]
    BY <1>4, <2>1
  <2>4. m + k \in 1..(m + (n - 1))
    BY <2>1
  <2> QED
    BY <1>4, <2>1, <2>2, <2>3, <2>4
<1>6. ASSUME NEW k \in 1..(m + (n - 1)), k > m
      PROVE  \E i \in 2..n : i = k - m + 1 /\ k = m + (i - 1)
  BY <1>6
<1> SUFFICES ASSUME NEW k \in 1..(m + (n - 1))
             PROVE  /\ t[k].kind = "$" => EndFollows(t, k)
                    /\ t[k].kind = "+" /\ (b \/ Started(t, k)) =>
                          \/ EndFollows(t, k)
                          \/ x /\ LastAck(t, k)
  BY <1>1, <1>2, <1>4 DEF FramedSeq
<1>7. \A h \in 1..m : t[h].kind # "$" /\ (t[h].kind = "+" => ~b)
  BY <1>3, <1>4
<1>8. CASE k <= m
  <2>1. k \in 1..m /\ \A h \in 1..(m + (n - 1)) : h < k => h \in 1..m
    BY <1>8
  <2>2. ~Started(t, k)
    BY <1>4, <1>7, <2>1 DEF Started
  <2> QED
    BY <1>7, <2>1, <2>2
<1>9. CASE k > m
  <2>1. PICK i \in 2..n : i = k - m + 1 /\ k = m + (i - 1)
    BY <1>6, <1>9
  <2>2. t[k] = s[i]
    BY <1>5, <2>1
  <2>3. EndFollows(s, i) => EndFollows(t, k)
    <3> SUFFICES ASSUME EndFollows(s, i) PROVE EndFollows(t, k)
      OBVIOUS
    <3>0. PICK j \in 1..n : /\ j > i /\ s[j].kind = "#"
                            /\ \A c \in (i + 1)..j : s[c].kind # "+"
      BY <1>3 DEF EndFollows
    <3>1. /\ j \in 2..n /\ j > i /\ s[j].kind = "#"
          /\ \A c \in (i + 1)..j : s[c].kind # "+"
      BY <3>0
    <3>2. PICK l \in 1..(m + (n - 1)) :
             l = m + (j - 1) /\ l > k /\ t[l].kind = "#"
      BY <1>4, <1>5, <2>1, <3>1
    <3>3. ASSUME NEW c \in (k + 1)..l PROVE t[c].kind # "+"
      <4>0. c \in 1..(m + (n - 1)) /\ c > m
        BY <1>9, <3>2
      <4>1. PICK d \in 2..n : d = c - m + 1 /\ c = m + (d - 1)
        BY <1>6, <4>0
      <4>2. d \in (i + 1)..j /\ t[c] = s[d]
        BY <1>5, <2>1, <3>2, <4>1
      <4> QED
        BY <3>1, <4>2
    <3> QED
      BY <1>4, <3>2, <3>3 DEF EndFollows
  <2>4. LastAck(s, i) => LastAck(t, k)
    <3> SUFFICES ASSUME LastAck(s, i), NEW c \in 1..(m + (n - 1)), c > k
                 PROVE  t[c].kind # "+"
      BY <1>4 DEF LastAck
    <3>0. c \in 1..(m + (n - 1)) /\ c > m
      BY <1>9
    <3>1. PICK d \in 2..n : d = c - m + 1 /\ c = m + (d - 1)
      BY <1>6, <3>0
    <3>2. d > i
      BY <2>1, <3>1
    <3>3. t[c] = s[d]
      BY <1>5, <3>1
    <3>4. d \in DOMAIN s
      BY <1>3
    <3> QED
      BY <3>2, <3>3, <3>4 DEF LastAck
  <2>5. b \/ Started(t, k) => a \/ Started(s, i)
    <3>1. ASSUME Started(t, k) PROVE Started(s, i)
      <4>1. PICK h \in 1..(m + (n - 1)) : h < k /\ t[h].kind = "$"
        BY <1>4, <3>1 DEF Started
      <4>2. h \in 1..(m + (n - 1)) /\ h > m
        BY <1>7, <4>1
      <4>3. PICK d \in 2..n : d = h - m + 1 /\ h = m + (d - 1)
        BY <1>6, <4>2
      <4>4. d < i
        BY <2>1, <4>1, <4>3
      <4>5. s[d].kind = "$"
        BY <1>5, <4>1, <4>3
      <4>6. d \in DOMAIN s
        BY <1>3
      <4> QED
        BY <4>4, <4>5, <4>6 DEF Started
    <3>2. Head(s).kind = "$" => Started(s, i)
      <4>1. 1 \in DOMAIN s /\ 1 < i
        BY <1>3
      <4> QED
        BY <1>3, <4>1 DEF Started
    <3> QED
      BY <3>1, <3>2
  <2>6. i \in DOMAIN s
    BY <1>3
  <2>7. /\ s[i].kind = "$" => EndFollows(s, i)
        /\ s[i].kind = "+" /\ (a \/ Started(s, i)) =>
              EndFollows(s, i) \/ (x /\ LastAck(s, i))
    BY <2>6 DEF FramedSeq
  <2> QED
    BY <2>2, <2>3, <2>4, <2>5, <2>7
<1> QED
  BY <1>8, <1>9

(* The same when the first token is taken, or replaced.                    *)
LEMMA FramedTail ==
    ASSUME NEW s \in Seq(Tokens), NEW a, NEW b, NEW x,
           s # <<>>, FramedSeq(s, a, x), b => a \/ Head(s).kind = "$"
    PROVE  FramedSeq(Tail(s), b, x)
<1>0. <<>> \in Seq(Tokens)
  OBVIOUS
<1>1. PICK w \in Seq(Tokens) : w = <<>>
  BY <1>0
<1>2. \A i \in DOMAIN w : w[i].kind # "$" /\ (w[i].kind = "+" => ~b)
  BY <1>1
<1>3. FramedSeq(w \o Tail(s), b, x)
  BY <1>2, FramedLater
<1>4. w \o Tail(s) = Tail(s)
  BY <1>1, TailFacts
<1> QED
  BY <1>3, <1>4

LEMMA FramedJunk ==
    ASSUME NEW s \in Seq(Tokens), NEW a, NEW x, NEW g \in Tokens,
           s # <<>>, FramedSeq(s, a, x), g.kind \notin {"$", "+"}
    PROVE  FramedSeq(<<g>> \o Tail(s), a, x)
<1>0. <<g>> \in Seq(Tokens)
  OBVIOUS
<1>1. PICK w \in Seq(Tokens) : w = <<g>>
  BY <1>0
<1>2. \A i \in DOMAIN w : w[i].kind # "$" /\ (w[i].kind = "+" => ~a)
  BY <1>1
<1>3. FramedSeq(w \o Tail(s), a, x)
  BY <1>2, FramedLater
<1> QED
  BY <1>1, <1>3

(* An end that follows still does when tokens are added.                   *)
LEMMA EndStillFollows ==
    ASSUME NEW s \in Seq(Tokens), NEW t \in Seq(Tokens),
           NEW i \in 1..Len(s), EndFollows(s, i)
    PROVE  EndFollows(s \o t, i)
<1>1. PICK j \in 1..Len(s) : /\ j > i /\ s[j].kind = "#"
                             /\ \A k \in (i + 1)..j : s[k].kind # "+"
  BY SeqFacts DEF EndFollows
<1>2. PICK u : u = s \o t
  OBVIOUS
<1>3. /\ DOMAIN u = 1..(Len(s) + Len(t)) /\ Len(s) \in Nat /\ Len(t) \in Nat
      /\ \A k \in 1..Len(s) : u[k] = s[k]
  BY <1>2, CatFacts
<1>4. j \in DOMAIN u /\ u[j].kind = "#"
      /\ \A k \in (i + 1)..j : u[k].kind # "+"
  BY <1>1, <1>3
<1> QED
  BY <1>1, <1>2, <1>4 DEF EndFollows

(* An answer put behind what is on the way back.                           *)
LEMMA FramedFrame ==
    ASSUME NEW s \in Seq(Tokens), NEW p \in 0..N,
           NEW a, NEW x, FramedSeq(s, a, x)
    PROVE  FramedSeq(s \o Frame(p), a, FALSE)
<1>1. PICK t \in Seq(Tokens) : t = Frame(p)
  BY TokenTypes
<1>2. /\ Len(t) = 3 /\ t[1].kind = "$" /\ t[2].kind = "data"
      /\ t[3].kind = "#"
  <2>1. /\ Len(t) = 3 /\ t[1] = Token("$", 0) /\ t[2] = Token("data", p)
        /\ t[3] = Token("#", p)
    BY <1>1, TokenTypes
  <2>2. /\ Token("$", 0).kind = "$" /\ Token("data", p).kind = "data"
        /\ Token("#", p).kind = "#"
    BY DEF Token
  <2> QED
    BY <2>1, <2>2
<1>3. PICK u : u = s \o t
  OBVIOUS
<1>4. PICK n \in Nat : n = Len(s)
  BY SeqFacts
<1>5. /\ DOMAIN u = 1..(n + 3) /\ DOMAIN s = 1..n
      /\ \A k \in 1..n : u[k] = s[k]
      /\ u[n + 1].kind = "$" /\ u[n + 2].kind = "data" /\ u[n + 3].kind = "#"
  <2>1. /\ DOMAIN u = 1..(n + 3) /\ DOMAIN s = 1..n
        /\ \A k \in 1..n : u[k] = s[k]
        /\ \A k \in 1..3 : u[n + k] = t[k]
    <3>1. /\ DOMAIN u = 1..(Len(s) + Len(t)) /\ DOMAIN s = 1..Len(s)
          /\ \A k \in 1..Len(s) : u[k] = s[k]
          /\ \A k \in 1..Len(t) : u[Len(s) + k] = t[k]
      BY <1>3, CatFacts
    <3> QED
      BY <1>2, <1>4, <3>1
  <2>2. u[n + 1] = t[1] /\ u[n + 2] = t[2] /\ u[n + 3] = t[3]
    BY <2>1
  <2> QED
    BY <1>2, <2>1, <2>2
<1> SUFFICES ASSUME NEW i \in 1..(n + 3), u[i].kind \in {"$", "+"},
                    u[i].kind = "$" \/ a \/ Started(u, i)
             PROVE  EndFollows(u, i)
  BY <1>1, <1>3, <1>5 DEF FramedSeq
<1>6. CASE i = n + 1
  <2>1. \A k \in (i + 1)..(n + 3) : u[k].kind # "+"
    <3> SUFFICES ASSUME NEW k \in (i + 1)..(n + 3) PROVE u[k].kind # "+"
      OBVIOUS
    <3>1. k = n + 2 \/ k = n + 3
      BY <1>6
    <3> QED
      BY <1>5, <3>1
  <2> QED
    BY <1>5, <1>6, <2>1 DEF EndFollows
<1>7. CASE i > n + 1
  <2>1. i = n + 2 \/ i = n + 3
    BY <1>7
  <2> QED
    BY <1>5, <2>1
<1>8. CASE i < n + 1
  <2>1. i \in 1..n /\ s[i].kind \in {"$", "+"} /\ s[i] = u[i]
    BY <1>5, <1>8
  <2>2. CASE EndFollows(s, i)
    BY <1>3, <1>4, <2>1, <2>2, EndStillFollows
  <2>3. CASE ~EndFollows(s, i)
    <3>0. Started(u, i) => Started(s, i)
      <4> SUFFICES ASSUME Started(u, i) PROVE Started(s, i)
        OBVIOUS
      <4>1. PICK h \in 1..(n + 3) : h < i /\ u[h].kind = "$"
        BY <1>5 DEF Started
      <4>2. h \in 1..n /\ s[h].kind = "$"
        BY <1>5, <2>1, <4>1
      <4> QED
        BY <1>5, <4>1, <4>2 DEF Started
    <3>1. LastAck(s, i)
      BY <1>5, <2>1, <2>3, <3>0 DEF FramedSeq
    <3>2. ASSUME NEW k \in (i + 1)..(n + 3) PROVE u[k].kind # "+"
      <4>1. (k \in 1..n /\ k > i) \/ k = n + 1 \/ k = n + 2 \/ k = n + 3
        BY <2>1
      <4>2. k \in 1..n /\ k > i => s[k].kind # "+"
        BY <1>5, <3>1 DEF LastAck
      <4> QED
        BY <1>5, <4>1, <4>2
    <3> QED
      BY <1>5, <2>1, <3>2 DEF EndFollows
  <2> QED
    BY <2>2, <2>3
<1> QED
  BY <1>6, <1>7, <1>8

(* A '+' put behind what is on the way back.                               *)
LEMMA FramedAck ==
    ASSUME NEW s \in Seq(Tokens), NEW b, FramedSeq(s, b, FALSE)
    PROVE  /\ FramedSeq(s \o <<Ack>>, b, TRUE)
           /\ FramedSeq(s \o <<Nak>>, b, FALSE)
<1> SUFFICES ASSUME NEW a \in {Ack, Nak}, NEW x \in BOOLEAN, x = (a = Ack)
             PROVE  FramedSeq(s \o <<a>>, b, x)
  <2>1. Ack # Nak
    BY DEF Ack, Nak, Token
  <2> QED
    BY <2>1
<1>1. PICK t \in Seq(Tokens) : t = <<a>> /\ Len(t) = 1 /\ t[1] = a
  BY TokenTypes
<1>2. PICK u : u = s \o t
  OBVIOUS
<1>3. PICK n \in Nat : n = Len(s)
  BY SeqFacts
<1>4. /\ DOMAIN u = 1..(n + 1) /\ DOMAIN s = 1..n
      /\ \A k \in 1..n : u[k] = s[k]
      /\ u[n + 1] = a
  <2>1. /\ DOMAIN u = 1..(n + 1) /\ DOMAIN s = 1..n
        /\ \A k \in 1..n : u[k] = s[k]
        /\ \A k \in 1..1 : u[n + k] = t[k]
    BY <1>1, <1>2, <1>3, CatFacts
  <2> QED
    BY <1>1, <2>1
<1>5. a.kind \in {"+", "-"} /\ (a.kind = "+" => x)
  <2>1. Ack.kind = "+" /\ Nak.kind = "-"
    BY DEF Ack, Nak, Token
  <2>2. a = Ack \/ a = Nak
    OBVIOUS
  <2> QED
    BY <2>1, <2>2
<1> SUFFICES ASSUME NEW i \in 1..(n + 1)
             PROVE  /\ u[i].kind = "$" => EndFollows(u, i)
                    /\ u[i].kind = "+" /\ (b \/ Started(u, i)) =>
                          \/ EndFollows(u, i)
                          \/ x /\ LastAck(u, i)
  BY <1>1, <1>2, <1>4 DEF FramedSeq
<1>6. CASE i = n + 1
  BY <1>4, <1>5, <1>6 DEF LastAck
<1>7. CASE i # n + 1
  <2>1. i \in 1..n
    BY <1>7
  <2>2. Started(u, i) => Started(s, i)
    <3> SUFFICES ASSUME Started(u, i) PROVE Started(s, i)
      OBVIOUS
    <3>1. PICK h \in 1..(n + 1) : h < i /\ u[h].kind = "$"
      BY <1>4 DEF Started
    <3>2. h \in 1..n /\ s[h].kind = "$"
      BY <1>4, <2>1, <3>1
    <3> QED
      BY <1>4, <3>1, <3>2 DEF Started
  <2>3. EndFollows(s, i) => EndFollows(u, i)
    BY <1>2, <1>3, <2>1, EndStillFollows
  <2>4. /\ u[i].kind = "$" => EndFollows(s, i)
        /\ u[i].kind = "+" /\ (b \/ Started(s, i)) => EndFollows(s, i)
    BY <1>4, <2>1 DEF FramedSeq
  <2> QED
    BY <2>2, <2>3, <2>4
<1> QED
  BY <1>6, <1>7

(* Whether an end is covered by an ack before it, when a token is taken.   *)
LEMMA CoveredTail ==
    ASSUME NEW s \in Seq(Tokens), s # <<>>
    PROVE  /\ Head(s).kind \in {"$", "+"} /\ EndFollows(s, 1)
                 => ~Covered(Tail(s))
           /\ Head(s).kind = "+" => Covered(s)
           /\ Head(s).kind # "#" /\ Covered(Tail(s)) => Covered(s)
<1>1. PICK n \in Nat : n = Len(s) /\ n > 0
  BY TailFacts
<1>2. PICK u \in Seq(Tokens) : u = Tail(s)
  BY TailFacts
<1>3. /\ DOMAIN s = 1..n /\ DOMAIN u = 1..(n - 1) /\ s[1] = Head(s)
      /\ \A i \in 1..(n - 1) : u[i] = s[i + 1]
  BY <1>1, <1>2, TailFacts
<1>4. ASSUME EndFollows(s, 1) PROVE ~Covered(u)
  <2>1. PICK j \in 1..n : /\ j > 1 /\ s[j].kind = "#"
                          /\ \A k \in 2..j : s[k].kind # "+"
    BY <1>3, <1>4 DEF EndFollows
  <2>2. j - 1 \in DOMAIN u /\ u[j - 1].kind = "#"
    BY <1>3, <2>1
  <2>3. \A k \in 1..(j - 1) : u[k].kind # "+"
    BY <1>3, <2>1
  <2> QED
    BY <2>2, <2>3 DEF Covered
<1>5. ASSUME Head(s).kind = "+" PROVE Covered(s)
  BY <1>3, <1>5 DEF Covered
<1>6. ASSUME Head(s).kind # "#", Covered(u) PROVE Covered(s)
  <2> SUFFICES ASSUME NEW i \in 1..n, s[i].kind = "#"
               PROVE  \E j \in 1..i : s[j].kind = "+"
    BY <1>3 DEF Covered
  <2>1. i - 1 \in DOMAIN u /\ u[i - 1] = s[i]
    BY <1>3, <1>6
  <2>2. PICK j \in 1..(i - 1) : u[j].kind = "+"
    BY <1>6, <2>1 DEF Covered
  <2> QED
    BY <1>3, <2>1, <2>2
<1> QED
  BY <1>2, <1>4, <1>5, <1>6

(* What is put behind a covered end.                                       *)
LEMMA CoveredCat ==
    ASSUME NEW s \in Seq(Tokens), NEW t \in Seq(Tokens), Covered(s \o t)
    PROVE  /\ Covered(s)
           /\ \A i \in DOMAIN t :
                 t[i].kind = "#" /\ (\A j \in DOMAIN t : t[j].kind # "+")
                    => \E j \in DOMAIN s : s[j].kind = "+"
<1>1. PICK u : u = s \o t
  OBVIOUS
<1>2. /\ DOMAIN u = 1..(Len(s) + Len(t)) /\ Len(s) \in Nat /\ Len(t) \in Nat
      /\ DOMAIN s = 1..Len(s) /\ DOMAIN t = 1..Len(t)
      /\ \A k \in 1..Len(s) : u[k] = s[k]
      /\ \A k \in 1..Len(t) : u[Len(s) + k] = t[k]
      /\ \A i \in 1..(Len(s) + Len(t)) :
            i \in 1..Len(s) \/ (i - Len(s) \in 1..Len(t)
                                /\ u[i] = t[i - Len(s)])
  BY <1>1, CatFacts
<1>3. Covered(u)
  BY <1>1
<1>4. Covered(s)
  <2> SUFFICES ASSUME NEW i \in 1..Len(s), s[i].kind = "#"
               PROVE  \E j \in 1..i : s[j].kind = "+"
    BY <1>2 DEF Covered
  <2>1. i \in DOMAIN u /\ u[i].kind = "#"
    BY <1>2
  <2>2. PICK j \in 1..i : u[j].kind = "+"
    BY <1>3, <2>1 DEF Covered
  <2>3. j \in 1..Len(s) /\ u[j] = s[j]
    BY <1>2
  <2> QED
    BY <2>2, <2>3
<1>5. ASSUME NEW i \in DOMAIN t, t[i].kind = "#",
             \A j \in DOMAIN t : t[j].kind # "+"
      PROVE  \E j \in DOMAIN s : s[j].kind = "+"
  <2>1. Len(s) + i \in DOMAIN u /\ u[Len(s) + i].kind = "#"
    BY <1>2, <1>5
  <2>2. PICK j \in 1..(Len(s) + i) : u[j].kind = "+"
    BY <1>3, <2>1 DEF Covered
  <2>3. j \in 1..Len(s)
    <3>1. i \in 1..Len(t)
      BY <1>2
    <3>2. j \in 1..(Len(s) + Len(t))
      BY <1>2, <3>1
    <3>3. ASSUME j - Len(s) \in 1..Len(t), u[j] = t[j - Len(s)] PROVE FALSE
      BY <1>2, <1>5, <2>2, <3>3
    <3> QED
      BY <1>2, <3>2, <3>3
  <2> QED
    BY <1>2, <2>2, <2>3
<1> QED
  BY <1>4, <1>5

(* At first nothing is anywhere.                                           *)
LEMMA InitExplained == Init => Explained
<1> SUFFICES ASSUME Init PROVE Explained
  OBVIOUS
<1>1. /\ gdb.at = "idle" /\ gdb.request = 0 /\ stub.at = "hunt"
      /\ stub.buf = <<>> /\ up = <<>> /\ down = <<>>
      /\ faults = 0 /\ early = 0 /\ mistaken = 0
      /\ \A r \in Requests : executed[r] = 0
  BY DEF Init
<1>2. /\ \A K : Pipe(K) = 0
      /\ Naks = 0 /\ Acks = 0 /\ Cause = 0 /\ ~Sending /\ ~Stuck
      /\ \A r \in Requests : Done(r) = 0
  BY <1>1, CountFew DEF Pipe, Naks, Acks, Cause, Sending, Stuck, Done, Due
<1>3. Framed
  BY <1>1 DEF Framed, FramedSeq
<1>4. Open = 0
  BY <1>2 DEF Open
<1> QED
  BY <1>2, <1>3, <1>4
     DEF Explained, Budget, Runs, New, RunsOfCurrent, StuckPaid, Heard, Running

(* A step of gdb leaves the executions alone.                              *)
LEMMA GdbLeaves ==
    ASSUME Others
    PROVE  /\ stub' = stub /\ faults' = faults /\ executed' = executed
           /\ mistaken' = mistaken
           /\ \A r : Done(r)' = Done(r)
BY DEF Others, Done, Due, Request

(* What the framing is when gdb reads a token, and when it reads nothing.  *)
LEMMA FramedTakes ==
    ASSUME Typed, Explained, down # <<>>, down' = Tail(down), stub' = stub,
           gdb'.at = "skip" => gdb.at = "skip" \/ Head(down).kind = "$"
    PROVE  Framed'
<1>1. FramedSeq(down, gdb.at = "skip", stub.at = "execute")
  BY DEF Explained, Framed
<1>2. FramedSeq(Tail(down), gdb'.at = "skip", stub.at = "execute")
  BY <1>1, LineTyped, FramedTail
<1> QED
  BY <1>2 DEF Framed

LEMMA FramedStays ==
    ASSUME Explained, down' = down, gdb'.at = "skip" => gdb.at = "skip",
           (stub'.at = "execute") <=> (stub.at = "execute")
    PROVE  Framed'
BY DEF Explained, Framed, FramedSeq

(* A step after which gdb is not sending.                                  *)
LEMMA NotSending ==
    ASSUME Typed, Explained, gdb'.at \notin {"ack", "skip"},
           gdb'.request = gdb.request, Cause' \in Nat, Cause' >= Cause,
           Pipe(Ends)' + Naks' + Acks' <= Cause', Framed',
           \A r \in Requests : /\ Pipe(EndsOf(r))' <= Pipe(EndsOf(r))
                               /\ Pipe(EndsOf(r))' \in Nat
                               /\ Done(r)' = Done(r)
    PROVE  Explained'
<1>1. ~Sending' /\ ~Stuck'
  BY DEF Sending, Stuck
<1>2. Open' = 0
  BY <1>1 DEF Open
<1>3. Budget'
  BY <1>2 DEF Budget
<1>4. Runs'
  <2> SUFFICES ASSUME NEW r \in Requests
               PROVE  Done(r)' + Pipe(EndsOf(r))' <= 1 + Cause'
    BY DEF Runs
  <2>1. Done(r) + Pipe(EndsOf(r)) <= 1 + Cause
    BY DEF Explained, Runs
  <2>2. Done(r) \in Nat /\ Pipe(EndsOf(r)) \in Nat /\ Cause \in Nat
    BY CountNats
  <2> QED
    BY <2>1, <2>2
<1>5. New'
  <2> SUFFICES ASSUME NEW r \in Requests, r > gdb.request
               PROVE  Done(r)' = 0 /\ Pipe(EndsOf(r))' = 0
    BY DEF New
  <2>1. Done(r) = 0 /\ Pipe(EndsOf(r)) = 0
    BY DEF Explained, New
  <2>2. Pipe(EndsOf(r))' <= Pipe(EndsOf(r)) /\ Pipe(EndsOf(r))' \in Nat
        /\ Done(r)' = Done(r)
    OBVIOUS
  <2> QED
    BY <2>1, <2>2
<1> QED
  BY <1>1, <1>3, <1>4, <1>5
     DEF Explained, RunsOfCurrent, StuckPaid, Heard, Running

(* A new request is the one end the budget has for it.                     *)
LEMMA PutpktExplained ==
    ASSUME Typed, Explained, putpkt
    PROVE  Explained'
<1>1. PICK q \in 0..N : q = gdb.request
  BY LineTyped
<1>2. /\ gdb.at = "idle" /\ gdb'.at = "ack" /\ gdb'.request = q + 1
      /\ down' = down /\ q + 1 \in Requests /\ up' = up \o Frame(q + 1)
      /\ early' = early /\ Others
  BY <1>1, PutpktDoes
<1>3. stub' = stub /\ faults' = faults /\ mistaken' = mistaken
      /\ \A r : Done(r)' = Done(r)
  BY <1>2, GdbLeaves
<1>4. q + 1 \in 0..N /\ q \in Nat
  BY <1>2, RemoteLinkAssumption DEF Requests
<1>5. \A K : Pipe(K)' = Pipe(K) + Count(Frame(q + 1), K)
  BY <1>2, <1>3, <1>4, TokenTypes, PipeGrows
<1>6. /\ Pipe(Ends)' = Pipe(Ends) + 1
      /\ \A r : Pipe(EndsOf(r))' =
                   Pipe(EndsOf(r)) + (IF r = q + 1 THEN 1 ELSE 0)
  BY <1>4, <1>5, CountTokens
<1>7. Naks' = Naks /\ Acks' = Acks /\ Cause' = Cause
  BY <1>2, <1>3, DownSame DEF Cause
<1>8. /\ Naks \in Nat /\ Acks \in Nat /\ Cause \in Nat
      /\ Pipe(Ends) \in Nat /\ \A r \in Requests : Pipe(EndsOf(r)) \in Nat
      /\ \A r \in Requests : Done(r) \in Nat
  BY CountNats
<1>9. /\ Open = 0 /\ Open' = 1 /\ Sending' /\ Missed' = 0
  BY <1>2 DEF Open, Sending, Missed, Deaf
<1>10. Done(q + 1) = 0 /\ Pipe(EndsOf(q + 1)) = 0
  BY <1>1, <1>2, <1>4 DEF Explained, New
<1>11. Pipe(Ends) + Naks + Acks <= Cause
  BY <1>8, <1>9 DEF Explained, Budget
<1>12. Budget'
  BY <1>6, <1>7, <1>8, <1>9, <1>11 DEF Budget
<1>13. Runs'
  <2> SUFFICES ASSUME NEW r \in Requests
               PROVE  Done(r)' + Pipe(EndsOf(r))' <= 1 + Cause'
    BY DEF Runs
  <2>1. Done(r) + Pipe(EndsOf(r)) <= 1 + Cause
    BY DEF Explained, Runs
  <2>2. /\ Done(r)' = Done(r) /\ Done(r) \in Nat /\ Pipe(EndsOf(r)) \in Nat
        /\ Pipe(EndsOf(r))' = Pipe(EndsOf(r)) + (IF r = q + 1 THEN 1 ELSE 0)
    BY <1>3, <1>6, <1>8
  <2> QED
    BY <2>1, <2>2, <1>7, <1>8, <1>10
<1>14. New'
  <2> SUFFICES ASSUME NEW r \in Requests, r > q + 1
               PROVE  Done(r)' = 0 /\ Pipe(EndsOf(r))' = 0
    BY <1>2 DEF New
  <2>1. r > q /\ r # q + 1
    BY <1>4 DEF Requests
  <2>2. Done(r) = 0 /\ Pipe(EndsOf(r)) = 0
    BY <1>1, <2>1 DEF Explained, New
  <2> QED
    BY <1>3, <1>6, <2>1, <2>2
<1>15. RunsOfCurrent'
  <2>1. Done(q + 1)' + Pipe(Ends)' + Naks' <= 1 + Cause'
    BY <1>3, <1>6, <1>7, <1>8, <1>10, <1>11
  <2> QED
    BY <1>2, <2>1 DEF RunsOfCurrent
<1>16. StuckPaid'
  <2>1. up' # <<>>
    BY <1>2, <1>4, TokenTypes, LineTyped, CatFacts, SeqFacts
  <2> QED
    BY <2>1 DEF StuckPaid, Stuck
<1>17. Heard'
  <2>1. Done(q + 1)' + Missed' <= Acks' + Cause'
    BY <1>3, <1>7, <1>8, <1>9, <1>10
  <2> QED
    BY <1>2, <2>1 DEF Heard
<1>18. Framed'
  BY <1>2, <1>3, FramedStays
<1>19. Running'
  BY <1>2, <1>4 DEF Running
<1> QED
  BY <1>12, <1>13, <1>14, <1>15, <1>16, <1>17, <1>18, <1>19 DEF Explained

(* A '+' is read and gdb stops sending.                                    *)
LEMMA AckedExplained ==
    ASSUME Typed, Explained, Acked
    PROVE  Explained'
<1>1. /\ gdb.at = "ack" /\ down # <<>> /\ Head(down).kind = "+"
      /\ gdb'.at = "reply" /\ gdb'.request = gdb.request
      /\ down' = Tail(down) /\ up' = up /\ early' = early /\ Others
  BY AckedDoes
<1>2. stub' = stub /\ faults' = faults /\ mistaken' = mistaken
      /\ \A r : Done(r)' = Done(r)
  BY <1>1, GdbLeaves
<1>3. \A K : Pipe(K)' = Pipe(K)
  BY <1>1, <1>2, PipeSame
<1>4. Naks' = Naks /\ Acks' = Acks - 1 /\ Cause' = Cause
  <2>1. /\ Naks' = Naks /\ Acks' = Acks - 1
        /\ Naks' \in Nat /\ Acks' \in Nat
    BY <1>1, DownTakes
  <2>2. Cause' = Cause
    BY <1>1, <1>2 DEF Cause
  <2> QED
    BY <2>1, <2>2
<1>5. Pipe(Ends) + Naks + Acks <= Cause + 1
  BY <1>1 DEF Explained, Budget, Open, Sending
<1>6. Pipe(Ends)' + Naks' + Acks' <= Cause'
  <2>1. Acks' \in Nat
    BY <1>1, DownTakes
  <2> QED
    BY <1>3, <1>4, <1>5, <2>1, CountNats
<1>7. Framed'
  BY <1>1, <1>2, FramedTakes
<1>8. Cause' \in Nat /\ Cause' >= Cause
  BY <1>4, CountNats
<1>9. \A r \in Requests : /\ Pipe(EndsOf(r))' <= Pipe(EndsOf(r))
                          /\ Pipe(EndsOf(r))' \in Nat
                          /\ Done(r)' = Done(r)
  BY <1>2, <1>3, CountNats
<1> QED
  BY <1>1, <1>6, <1>7, <1>8, <1>9, NotSending

(* A step that adds nothing to what is counted.                            *)
LEMMA Fewer ==
    ASSUME Typed, Explained, Sending' <=> Sending,
           gdb'.request = gdb.request, Cause' \in Nat, Cause' >= Cause,
           Pipe(Ends)' \in Nat, Pipe(Ends)' <= Pipe(Ends),
           Naks' \in Nat, Naks' <= Naks, Acks' \in Nat, Acks' <= Acks,
           \A r \in Requests : /\ Pipe(EndsOf(r))' <= Pipe(EndsOf(r))
                               /\ Pipe(EndsOf(r))' \in Nat
                               /\ Done(r)' = Done(r),
           StuckPaid', Heard', Framed'
    PROVE  Explained'
<1>1. PICK q \in 0..N : q = gdb.request
  BY LineTyped
<1>2. Open' = Open /\ Open \in {0, 1}
  BY DEF Open
<1>3. /\ Naks \in Nat /\ Acks \in Nat /\ Cause \in Nat
      /\ Pipe(Ends) \in Nat /\ \A r \in Requests : Pipe(EndsOf(r)) \in Nat
      /\ \A r \in Requests : Done(r) \in Nat
  BY CountNats
<1>4. Budget'
  <2>1. Pipe(Ends) + Naks + Acks <= Cause + Open
    BY DEF Explained, Budget
  <2> QED
    BY <1>2, <1>3, <2>1 DEF Budget
<1>5. Runs'
  <2> SUFFICES ASSUME NEW r \in Requests
               PROVE  Done(r)' + Pipe(EndsOf(r))' <= 1 + Cause'
    BY DEF Runs
  <2>1. Done(r) + Pipe(EndsOf(r)) <= 1 + Cause
    BY DEF Explained, Runs
  <2>2. Done(r) \in Nat /\ Pipe(EndsOf(r)) \in Nat
    BY <1>3
  <2> QED
    BY <1>3, <2>1, <2>2
<1>6. New'
  <2> SUFFICES ASSUME NEW r \in Requests, r > gdb.request
               PROVE  Done(r)' = 0 /\ Pipe(EndsOf(r))' = 0
    BY DEF New
  <2>1. Done(r) = 0 /\ Pipe(EndsOf(r)) = 0
    BY DEF Explained, New
  <2>2. Pipe(EndsOf(r))' <= Pipe(EndsOf(r)) /\ Pipe(EndsOf(r))' \in Nat
        /\ Done(r)' = Done(r)
    OBVIOUS
  <2> QED
    BY <2>1, <2>2
<1>7. Running'
  BY DEF Explained, Running
<1>8. RunsOfCurrent'
  <2> SUFFICES ASSUME Sending, q > 0
               PROVE  Done(q)' + Pipe(Ends)' + Naks' <= 1 + Cause'
    BY <1>1 DEF Explained, Running, RunsOfCurrent
  <2>1. Done(q) + Pipe(Ends) + Naks <= 1 + Cause
    BY <1>1 DEF Explained, RunsOfCurrent
  <2>2. q \in Requests
    BY <1>1, RemoteLinkAssumption DEF Requests
  <2>3. Done(q)' = Done(q) /\ Done(q) \in Nat
    BY <1>3, <2>2
  <2> QED
    BY <1>3, <2>1, <2>3
<1> QED
  BY <1>4, <1>5, <1>6, <1>7, <1>8 DEF Explained

(* A retransmission is paid for by the '-', or by a cause.                 *)
LEMMA ResendExplained ==
    ASSUME Typed, Explained, Resend
    PROVE  Explained'
<1>1. PICK q \in 0..N : q = gdb.request
  BY LineTyped
<1>2. /\ gdb.at = "ack" /\ Others /\ gdb'.request = q
      /\ gdb'.at \in {"ack", "reply"}
      /\ (Took /\ Head(down).kind = "-") \/ Waited
  BY <1>1, ResendDoes
<1>3. stub' = stub /\ faults' = faults /\ mistaken' = mistaken
      /\ \A r : Done(r)' = Done(r)
  BY <1>2, GdbLeaves
<1>4. q \in Requests /\ Sending
  BY <1>1, <1>2, RemoteLinkAssumption
     DEF Explained, Running, Sending, Requests
<1>5. /\ Naks \in Nat /\ Acks \in Nat /\ Cause \in Nat
      /\ Pipe(Ends) \in Nat /\ \A r \in Requests : Pipe(EndsOf(r)) \in Nat
      /\ \A r \in Requests : Done(r) \in Nat
      /\ Pipe(EndsOf(q)) <= Pipe(Ends)
  BY <1>1, CountNats
<1>6. /\ Pipe(Ends) + Naks + Acks <= Cause + 1
      /\ Done(q) + Pipe(Ends) + Naks <= 1 + Cause
      /\ Done(q) <= Acks + Cause
  <2>1. Open = 1 /\ Missed = 0
    BY <1>2, <1>4 DEF Open, Missed, Deaf
  <2>2. Pipe(Ends) + Naks + Acks <= Cause + Open
    BY DEF Explained, Budget
  <2>3. Done(q) + Pipe(Ends) + Naks <= 1 + Cause
    BY <1>1, <1>4 DEF Explained, RunsOfCurrent
  <2>4. Done(q) + Missed <= Acks + Cause
    BY <1>1, <1>4 DEF Explained, Heard
  <2> QED
    BY <1>4, <1>5, <2>1, <2>2, <2>3, <2>4
(* Either a '-' is used up, or the wait was early, or a fault has paid.    *)
<1>7. /\ Cause' \in Nat /\ Cause' >= Cause
      /\ Naks' \in Nat /\ Acks' = Acks
      /\ Pipe(Ends) + Naks' + Acks <= Cause'
      /\ Done(q) + Pipe(Ends) + Naks' <= Cause'
  <2>1. CASE Took /\ Head(down).kind = "-"
    <3>1. Naks' = Naks - 1 /\ Acks' = Acks /\ Naks' \in Nat /\ Acks' \in Nat
      BY <2>1, DownTakes DEF Took
    <3>2. Cause' = Cause
      BY <1>3, <2>1 DEF Took, Cause
    <3> QED
      BY <1>4, <1>5, <1>6, <3>1, <3>2
  <2>2. CASE Waited /\ early' = early + 1
    <3>1. Naks' = Naks /\ Acks' = Acks
      BY <2>2, DownSame DEF Waited
    <3>2. Cause' = Cause + 1
      BY <1>3, <2>2, CountNats DEF Cause
    <3> QED
      BY <1>4, <1>5, <1>6, <3>1, <3>2
  <2>3. CASE Waited /\ Silence /\ early' = early
    <3>1. Naks' = Naks /\ Acks' = Acks
      BY <2>3, DownSame DEF Waited
    <3>2. Cause' = Cause
      BY <1>3, <2>3 DEF Cause
    <3>3. down = <<>> /\ up = <<>> /\ Naks = 0 /\ Acks = 0
      BY <2>3, CountFew DEF Silence, Naks, Acks
    <3>4. CASE stub.at = "ack"
      <4>1. Stuck
        BY <1>2, <3>3, <3>4 DEF Stuck, None
      <4>2. /\ Pipe(Ends) + Naks + Acks <= Cause
            /\ Done(q) + Pipe(Ends) + Naks <= Cause
        BY <1>1, <4>1 DEF Explained, StuckPaid
      <4> QED
        BY <1>5, <3>1, <3>2, <4>2
    <3>5. CASE stub.at # "ack"
      <4>1. stub.buf = <<>>
        BY <2>3, <3>5 DEF Silence
      <4>2. Pipe(Ends) = 0
        BY <3>3, <4>1, CountFew DEF Pipe
      <4> QED
        BY <1>4, <1>5, <1>6, <3>1, <3>2, <3>3, <4>2
    <3> QED
      BY <3>4, <3>5
  <2> QED
    BY <1>2, <2>1, <2>2, <2>3 DEF Waited
<1>8. Framed'
  <2>1. CASE Took /\ Head(down).kind = "-"
    BY <1>2, <1>3, <2>1, FramedTakes DEF Took
  <2>2. CASE Waited
    BY <1>2, <1>3, <2>2, FramedStays DEF Waited
  <2> QED
    BY <1>2, <2>1, <2>2
<1>9. CASE gdb'.at = "reply" /\ up' = up
  <2>1. \A K : Pipe(K)' = Pipe(K)
    BY <1>3, <1>9, PipeSame
  <2>2. Pipe(Ends)' + Naks' + Acks' <= Cause'
    BY <1>5, <1>7, <2>1
  <2>3. \A r \in Requests : /\ Pipe(EndsOf(r))' <= Pipe(EndsOf(r))
                            /\ Pipe(EndsOf(r))' \in Nat
                            /\ Done(r)' = Done(r)
    BY <1>3, <1>5, <2>1
  <2> QED
    BY <1>1, <1>2, <1>7, <1>8, <1>9, <2>2, <2>3, NotSending
<1>10. CASE gdb'.at = "ack" /\ up' = up \o Frame(q)
  <2>1. \A K : Pipe(K)' = Pipe(K) + Count(Frame(q), K)
    BY <1>3, <1>10, TokenTypes, PipeGrows
  <2>2. /\ Pipe(Ends)' = Pipe(Ends) + 1
        /\ \A r : Pipe(EndsOf(r))' =
                     Pipe(EndsOf(r)) + (IF r = q THEN 1 ELSE 0)
    BY <2>1, CountTokens
  <2>3. Open' = 1 /\ Missed' = 0 /\ Sending'
    BY <1>10 DEF Open, Sending, Missed, Deaf
  <2>4. Budget'
    BY <1>5, <1>7, <2>2, <2>3 DEF Budget
  <2>5. Runs'
    <3> SUFFICES ASSUME NEW r \in Requests
                 PROVE  Done(r)' + Pipe(EndsOf(r))' <= 1 + Cause'
      BY DEF Runs
    <3>1. Done(r) + Pipe(EndsOf(r)) <= 1 + Cause
      BY DEF Explained, Runs
    <3>2. Done(r)' = Done(r) /\ Done(r) \in Nat /\ Pipe(EndsOf(r)) \in Nat
      BY <1>3, <1>5
    <3>3. CASE r = q
      <4>1. Pipe(EndsOf(q))' = Pipe(EndsOf(q)) + 1
        BY <2>2
      <4> QED
        BY <1>5, <1>7, <3>2, <3>3, <4>1
    <3>4. CASE r # q
      <4>1. Pipe(EndsOf(r))' = Pipe(EndsOf(r)) + 0
        BY <2>2, <3>4
      <4> QED
        BY <1>5, <1>7, <3>1, <3>2, <4>1
    <3> QED
      BY <3>3, <3>4
  <2>6. New'
    <3> SUFFICES ASSUME NEW r \in Requests, r > q
                 PROVE  Done(r)' = 0 /\ Pipe(EndsOf(r))' = 0
      BY <1>2 DEF New
    <3>1. Done(r) = 0 /\ Pipe(EndsOf(r)) = 0 /\ r # q
      BY <1>1 DEF Explained, New, Requests
    <3> QED
      BY <1>3, <2>2, <3>1
  <2>7. RunsOfCurrent'
    <3>1. Done(q)' + Pipe(Ends)' + Naks' <= 1 + Cause'
      BY <1>3, <1>4, <1>5, <1>7, <2>2
    <3> QED
      BY <1>2, <3>1 DEF RunsOfCurrent
  <2>8. StuckPaid'
    <3>1. up' # <<>>
      BY <1>10, TokenTypes, LineTyped, CatFacts, SeqFacts
    <3> QED
      BY <3>1 DEF StuckPaid, Stuck
  <2>9. Heard'
    <3>1. Done(q)' + Missed' <= Acks' + Cause'
      BY <1>3, <1>4, <1>5, <1>6, <1>7, <2>3
    <3> QED
      BY <1>2, <3>1 DEF Heard
  <2>10. Running'
    BY <1>2, <1>4, RemoteLinkAssumption DEF Running, Requests
  <2> QED
    BY <1>8, <2>4, <2>5, <2>6, <2>7, <2>8, <2>9, <2>10 DEF Explained
<1> QED
  BY <1>1, <1>9, <1>10, ResendDoes

(* What the steps that read a token and write nothing have in common.      *)
LEMMA ReadLeaves ==
    ASSUME Typed, Explained, Others, down # <<>>, down' = Tail(down),
           early' = early, up' = up,
           gdb'.at = "skip" => gdb.at = "skip" \/ Head(down).kind = "$"
    PROVE  /\ Pipe(Ends)' = Pipe(Ends)
           /\ \A r \in Requests : Pipe(EndsOf(r))' = Pipe(EndsOf(r))
                                  /\ Done(r)' = Done(r)
           /\ Cause' = Cause
           /\ Head(down).kind = "-" => Naks' = Naks - 1
           /\ Head(down).kind # "-" => Naks' = Naks
           /\ Head(down).kind = "+" => Acks' = Acks - 1
           /\ Head(down).kind # "+" => Acks' = Acks
           /\ Naks' \in Nat /\ Acks' \in Nat
           /\ Naks' <= Naks /\ Acks' <= Acks
           /\ Framed'
<1>1. stub' = stub /\ faults' = faults /\ mistaken' = mistaken
      /\ \A r : Done(r)' = Done(r)
  BY GdbLeaves
<1>2. \A K : Pipe(K)' = Pipe(K)
  BY <1>1, PipeSame
<1>3. /\ Head(down).kind = "-" => Naks' = Naks - 1
      /\ Head(down).kind # "-" => Naks' = Naks
      /\ Head(down).kind = "+" => Acks' = Acks - 1
      /\ Head(down).kind # "+" => Acks' = Acks
      /\ Naks' \in Nat /\ Acks' \in Nat
  BY DownTakes
<1>4. Naks' <= Naks /\ Acks' <= Acks
  BY <1>3, CountNats
<1>5. Framed'
  BY <1>1, FramedTakes
<1>6. Cause' = Cause
  BY <1>1 DEF Cause
<1> QED
  BY <1>1, <1>2, <1>3, <1>4, <1>5, <1>6

(* gdb begins to skip a frame: what it skips has an end.                   *)
LEMMA OldReplyExplained ==
    ASSUME Typed, Explained, OldReply
    PROVE  Explained'
<1>1. PICK q \in 0..N : q = gdb.request
  BY LineTyped
<1>2. /\ gdb.at = "ack" /\ gdb'.at = "skip" /\ gdb'.request = q
      /\ Others /\ down # <<>> /\ Head(down).kind = "$"
      /\ down' = Tail(down) /\ up' = up /\ early' = early
  BY <1>1, OldReplyDoes
<1>3. /\ Pipe(Ends)' = Pipe(Ends)
      /\ \A r \in Requests : Pipe(EndsOf(r))' = Pipe(EndsOf(r))
                             /\ Done(r)' = Done(r)
      /\ Cause' = Cause /\ Acks' = Acks
      /\ Naks' \in Nat /\ Acks' \in Nat /\ Naks' <= Naks /\ Acks' <= Acks
      /\ Framed'
  <2>1. Head(down).kind # "+"
    BY <1>2
  <2> QED
    BY <1>2, <2>1, ReadLeaves
<1>4. q \in Requests /\ Sending /\ Sending'
  BY <1>1, <1>2, RemoteLinkAssumption
     DEF Explained, Running, Sending, Requests
<1>5. EndFollows(down, 1)
  BY <1>2, LineTyped, TailFacts DEF Explained, Framed, FramedSeq
<1>6. ~Covered(down')
  BY <1>2, <1>5, LineTyped, CoveredTail
<1>7. Missed = 0 /\ Missed' = 0
  BY <1>2, <1>6 DEF Missed, Deaf
<1>8. Heard'
  <2>1. Done(q) + Missed <= Acks + Cause
    BY <1>1, <1>4 DEF Explained, Heard
  <2>2. Done(q)' + Missed' <= Acks' + Cause'
    BY <1>3, <1>4, <1>7, <2>1
  <2> QED
    BY <1>2, <2>2 DEF Heard
<1>9. StuckPaid'
  BY <1>2 DEF StuckPaid, Stuck
<1> QED
  BY <1>1, <1>2, <1>3, <1>4, <1>8, <1>9, CountNats, Fewer

(* A '+' that is skipped is covered by a cause.                            *)
LEMMA IgnoredExplained ==
    ASSUME Typed, Explained, Ignored
    PROVE  Explained'
<1>1. PICK q \in 0..N : q = gdb.request
  BY LineTyped
<1>2. /\ gdb' = gdb /\ Others /\ down # <<>>
      /\ down' = Tail(down) /\ up' = up /\ early' = early
      /\ \/ gdb.at = "ack" /\ Head(down).kind \in {"data", "#", "junk"}
         \/ gdb.at = "skip"
            /\ Head(down).kind \in {"+", "-", "$", "data", "junk"}
         \/ gdb.at = "reply"
            /\ Head(down).kind \in {"+", "-", "data", "#", "junk"}
  BY IgnoredDoes
<1>3. /\ Pipe(Ends)' = Pipe(Ends)
      /\ \A r \in Requests : Pipe(EndsOf(r))' = Pipe(EndsOf(r))
                             /\ Done(r)' = Done(r)
      /\ Cause' = Cause
      /\ Head(down).kind = "-" => Naks' = Naks - 1
      /\ Head(down).kind # "-" => Naks' = Naks
      /\ Head(down).kind = "+" => Acks' = Acks - 1
      /\ Head(down).kind # "+" => Acks' = Acks
      /\ Naks' \in Nat /\ Acks' \in Nat /\ Naks' <= Naks /\ Acks' <= Acks
      /\ Framed' /\ stub' = stub
  BY <1>2, ReadLeaves, GdbLeaves
<1>4. Sending => q \in Requests
  BY <1>1, RemoteLinkAssumption DEF Explained, Running, Requests
<1>5. Sending' <=> Sending
  BY <1>2 DEF Sending
<1>6. Sending => Done(q) + Missed <= Acks + Cause
  BY <1>1 DEF Explained, Heard
<1>7. /\ Naks \in Nat /\ Acks \in Nat /\ Cause \in Nat
      /\ Pipe(Ends) \in Nat /\ \A r \in Requests : Pipe(EndsOf(r)) \in Nat
      /\ \A r \in Requests : Done(r) \in Nat
  BY CountNats
<1>8. Missed \in {0, 1} /\ Missed' \in {0, 1}
  BY DEF Missed
(* An ack that is skipped makes an end that was covered stand alone.       *)
<1>9. Heard'
  <2> SUFFICES ASSUME Sending PROVE Done(q)' + Missed' <= Acks' + Cause'
    BY <1>1, <1>2, <1>5 DEF Heard
  <2>1. Done(q)' = Done(q) /\ Done(q) \in Nat
    BY <1>3, <1>4, <1>7
  <2>2. CASE gdb.at = "ack"
    <3>1. Missed' = 0 /\ Missed = 0
      BY <1>2, <2>2 DEF Missed, Deaf
    <3>2. Acks' = Acks
      BY <1>2, <1>3, <2>2
    <3> QED
      BY <1>3, <1>6, <1>7, <2>1, <3>1, <3>2
  <2>3. CASE gdb.at = "skip" /\ Head(down).kind = "+"
    <3>1. Acks' = Acks - 1
      BY <1>3, <2>3
    <3>2. Covered(down)
      BY <1>2, <2>3, LineTyped, CoveredTail
    <3>3. Missed = 1
      <4>1. Acks' \in Nat /\ Acks \in Nat
        BY <1>3, <1>7
      <4>2. Acks > 0
        BY <3>1, <4>1
      <4> QED
        BY <2>3, <3>2, <4>2 DEF Missed, Deaf
    <3>4. Missed' = 0
      <4>1. CASE EndFollows(down, 1)
        <5>1. ~Covered(down')
          BY <1>2, <2>3, <4>1, LineTyped, CoveredTail
        <5> QED
          BY <5>1 DEF Missed, Deaf
      <4>2. CASE ~EndFollows(down, 1)
        <5>1. stub.at = "execute" /\ LastAck(down, 1)
          BY <1>2, <2>3, <4>2, LineTyped, TailFacts
             DEF Explained, Framed, FramedSeq
        <5>2. \A i \in DOMAIN Tail(down) : Tail(down)[i].kind # "+"
          <6>1. /\ Len(down) \in Nat \ {0} /\ DOMAIN down = 1..Len(down)
                /\ DOMAIN Tail(down) = 1..(Len(down) - 1)
                /\ \A i \in 1..(Len(down) - 1) : Tail(down)[i] = down[i+1]
            BY <1>2, LineTyped, TailFacts
          <6>2. ASSUME NEW i \in 1..(Len(down) - 1)
                PROVE  i + 1 \in DOMAIN down /\ i + 1 > 1
            BY <6>1
          <6> QED
            BY <5>1, <6>1, <6>2 DEF LastAck
        <5>3. Acks' = 0
          <6>1. \A i \in DOMAIN Tail(down) : Tail(down)[i] \notin Kind("+")
            BY <5>2 DEF Kind
          <6>2. Count(Tail(down), Kind("+")) = 0
            BY <1>2, <6>1, LineTyped, TailFacts, CountType
          <6> QED
            BY <1>2, <6>2 DEF Acks, Kind
        <5> QED
          BY <1>3, <5>1, <5>3 DEF Missed, Deaf
      <4> QED
        BY <4>1, <4>2
    <3> QED
      BY <1>3, <1>6, <1>7, <2>1, <3>1, <3>3, <3>4
  <2>4. CASE gdb.at = "skip" /\ Head(down).kind # "+"
    <3>1. Acks' = Acks /\ Head(down).kind # "#"
      BY <1>2, <1>3, <2>4
    <3>2. Covered(down') => Covered(down)
      BY <1>2, <3>1, LineTyped, CoveredTail
    <3>3. Deaf' => Deaf
      BY <1>2, <1>3, <3>1, <3>2 DEF Deaf
    <3>4. Missed' <= Missed
      <4>1. (Missed' = 1 => Deaf') /\ (Deaf => Missed = 1)
        BY DEF Missed
      <4> QED
        BY <1>8, <3>3, <4>1
    <3> QED
      BY <1>3, <1>6, <1>7, <1>8, <2>1, <3>1, <3>4
  <2> QED
    BY <1>2, <2>2, <2>3, <2>4 DEF Sending
<1>10. StuckPaid'
  <2> SUFFICES ASSUME Stuck'
               PROVE  /\ Pipe(Ends)' + Naks' + Acks' <= Cause'
                      /\ Done(q)' + Pipe(Ends)' + Naks' <= Cause'
    BY <1>1, <1>2 DEF StuckPaid
  <2>1. gdb.at = "ack" /\ stub.at = "ack" /\ up = <<>> /\ None(down', "$")
    BY <1>2, <1>3 DEF Stuck
  <2>2. None(down, "$")
    <3>1. \A i \in 2..Len(down) : down[i].kind # "$"
      <4> SUFFICES ASSUME NEW i \in 2..Len(down) PROVE down[i].kind # "$"
        OBVIOUS
      <4>0. i - 1 \in 1..(Len(down) - 1)
        BY LineTyped, SeqFacts
      <4>1. /\ i - 1 \in 1..(Len(down) - 1)
            /\ \A j \in 1..(Len(down) - 1) :
                  Tail(down)[j] = down[j + 1] /\ Tail(down)[j].kind # "$"
        BY <1>2, <2>1, <4>0, LineTyped, TailFacts DEF None
      <4>2. Tail(down)[i - 1] = down[(i - 1) + 1]
            /\ Tail(down)[i - 1].kind # "$"
        BY <4>1
      <4> QED
        BY <4>2
    <3>2. down[1].kind # "$" /\ DOMAIN down = 1..Len(down)
      BY <1>2, <2>1, LineTyped, TailFacts
    <3>3. Len(down) \in Nat
      BY LineTyped, SeqFacts
    <3> QED
      BY <3>1, <3>2, <3>3 DEF None
  <2>3. Stuck
    BY <2>1, <2>2 DEF Stuck
  <2>4. /\ Pipe(Ends) + Naks + Acks <= Cause
        /\ Done(q) + Pipe(Ends) + Naks <= Cause
    BY <1>1, <2>3 DEF Explained, StuckPaid
  <2>5. q \in Requests
    BY <1>4, <2>1 DEF Sending
  <2> QED
    BY <1>3, <1>7, <2>4, <2>5
<1> QED
  BY <1>2, <1>3, <1>5, <1>7, <1>9, <1>10, Fewer

(* The signs of a payload are as many acks and naks, at most.              *)
LEMMA SignalCounts ==
    ASSUME NEW v \in 0..N
    PROVE  /\ Count(Signals(v), Kind("-")) \in Nat
           /\ Count(Signals(v), Kind("+")) \in Nat
           /\ Count(Signals(v), Kind("-")) + Count(Signals(v), Kind("+"))
                 <= Len(Signs[v])
<1>1. PICK s \in Seq(Tokens) : s = Signals(v) /\ Len(s) = Len(Signs[v])
  BY SignalsTyped
<1> DEFINE A == {i \in DOMAIN s : s[i] \in Kind("-")}
           B == {i \in DOMAIN s : s[i] \in Kind("+")}
<1>2. /\ IsFiniteSet(A) /\ IsFiniteSet(B)
      /\ Cardinality(A) \in Nat /\ Cardinality(B) \in Nat
  <2>1. IsFiniteSet(A) /\ IsFiniteSet(B)
    BY CountType
  <2> QED
    BY <2>1, FS_CardinalityType
<1>3. A \cap B = {} /\ A \cup B \subseteq 1..Len(s)
  BY SeqFacts DEF Kind
<1>4. /\ IsFiniteSet(1..Len(s)) /\ Cardinality(1..Len(s)) = Len(s)
  <2>1. Len(s) \in Nat
    BY SeqFacts
  <2>2. PICK n \in Nat : n = Len(s)
    BY <2>1
  <2>3. /\ IsFiniteSet(1..n)
        /\ Cardinality(1..n) = IF 1 > n THEN 0 ELSE n - 1 + 1
    BY FS_Interval
  <2>4. Cardinality(1..n) = n
    BY <2>3
  <2> QED
    BY <2>2, <2>3, <2>4
<1>5. Cardinality(A) + Cardinality(B) <= Len(s)
  <2> HIDE DEF A, B
  <2>1. Cardinality(A \cup B) <= Len(s)
    BY <1>3, <1>4, FS_Subset
  <2>2. Cardinality(A \cup B) =
           Cardinality(A) + Cardinality(B) - Cardinality({})
    BY <1>2, <1>3, FS_Union
  <2>3. Cardinality({}) = 0
    BY FS_EmptySet
  <2> QED
    BY <1>2, <2>1, <2>2, <2>3
<1> QED
  BY <1>1, <1>2, <1>5 DEF Count

(* The signs of a payload that gdb meets are causes of their own.          *)
LEMMA UnframedExplained ==
    ASSUME Typed, Explained, Unframed
    PROVE  Explained'
<1>1. PICK q \in 0..N : q = gdb.request
  BY LineTyped
<1>2. PICK v \in 0..N : v = Head(down).value
  BY UnframedDoes
<1>3. PICK m \in Nat : m = Len(Signs[v])
  BY SignalsTyped
<1>4. /\ gdb' = gdb /\ stub' = stub /\ up' = up /\ executed' = executed
      /\ faults' = faults /\ early' = early /\ mistaken' = mistaken + m
      /\ gdb.at = "ack" /\ down # <<>> /\ Head(down).kind = "data"
      /\ down' = Signals(v) \o Tail(down)
  BY <1>2, <1>3, UnframedDoes
<1>5. PICK u \in Seq(Tokens) : u = Tail(down)
  BY <1>4, LineTyped, TailFacts
<1>6. PICK w \in Seq(Tokens) :
         w = Signals(v) /\ \A i \in DOMAIN w : w[i] \in {Ack, Nak}
  BY SignalsTyped
<1>7. /\ Naks \in Nat /\ Acks \in Nat /\ Cause \in Nat
      /\ Pipe(Ends) \in Nat
      /\ \A r \in Requests : Pipe(EndsOf(r)) \in Nat /\ Done(r) \in Nat
      /\ faults \in Nat /\ early \in Nat /\ mistaken \in Nat
  BY CountNats
<1>8. Cause' = Cause + m
  BY <1>4, <1>7 DEF Cause
<1>9. PICK x \in Nat, y \in Nat :
         Naks' = Naks + x /\ Acks' = Acks + y /\ x + y <= m
  <2>1. PICK x \in Nat, y \in Nat : /\ x = Count(w, Kind("-"))
                                    /\ y = Count(w, Kind("+"))
                                    /\ x + y <= m
    BY <1>3, <1>6, SignalCounts
  <2>2. /\ Count(w \o u, Kind("-")) = x + Count(u, Kind("-"))
        /\ Count(w \o u, Kind("+")) = y + Count(u, Kind("+"))
    BY <2>1, CountCat
  <2>3. Head(down) \in Tokens
    BY <1>4, LineTyped, TailFacts
  <2>4. One(Head(down), Kind("-")) = 0 /\ One(Head(down), Kind("+")) = 0
    BY <1>4, <2>3, OneOf
  <2>5. /\ Naks = 0 + Count(u, Kind("-")) /\ Acks = 0 + Count(u, Kind("+"))
    BY <1>4, <1>5, <2>4, LineTyped, CountTail DEF Naks, Acks
  <2>6. /\ Naks' = Count(w \o u, Kind("-"))
        /\ Acks' = Count(w \o u, Kind("+"))
    BY <1>4, <1>5, <1>6 DEF Naks, Acks, Kind
  <2>7. Count(u, Kind("-")) \in Nat /\ Count(u, Kind("+")) \in Nat
    BY CountType
  <2>8. Naks' = Naks + x /\ Acks' = Acks + y
    BY <2>2, <2>5, <2>6, <2>7
  <2> QED
    BY <2>1, <2>8
<1>10. /\ \A K : Pipe(K)' = Pipe(K)
       /\ \A r : Done(r)' = Done(r)
  BY <1>4, PipeSame DEF Done, Due, Request
<1>11. /\ Open' = Open /\ Open = 1 /\ Sending /\ Sending'
       /\ Missed = 0 /\ Missed' = 0
  BY <1>4 DEF Open, Sending, Missed, Deaf
<1>12. q \in Requests
  BY <1>1, <1>11, RemoteLinkAssumption DEF Explained, Running, Requests
<1>13. Budget'
  <2>1. Pipe(Ends) + Naks + Acks <= Cause + 1
    BY <1>11 DEF Explained, Budget
  <2>2. Pipe(Ends) + (Naks + x) + (Acks + y) <= (Cause + m) + 1
    BY <1>7, <1>9, <2>1
  <2> QED
    BY <1>8, <1>9, <1>10, <1>11, <2>2 DEF Budget
<1>14. Runs'
  <2> SUFFICES ASSUME NEW r \in Requests
               PROVE  Done(r)' + Pipe(EndsOf(r))' <= 1 + Cause'
    BY DEF Runs
  <2>1. Done(r) + Pipe(EndsOf(r)) <= 1 + Cause
    BY DEF Explained, Runs
  <2> QED
    BY <1>7, <1>8, <1>10, <2>1
<1>15. New'
  <2> SUFFICES ASSUME NEW r \in Requests, r > q
               PROVE  Done(r)' = 0 /\ Pipe(EndsOf(r))' = 0
    BY <1>1, <1>4 DEF New
  <2>1. Done(r) = 0 /\ Pipe(EndsOf(r)) = 0
    BY <1>1 DEF Explained, New
  <2> QED
    BY <1>10, <2>1
<1>16. RunsOfCurrent'
  <2>1. Done(q) + Pipe(Ends) + Naks <= 1 + Cause
    BY <1>1, <1>11 DEF Explained, RunsOfCurrent
  <2>2. Done(q) + Pipe(Ends) + (Naks + x) <= 1 + (Cause + m)
    BY <1>7, <1>9, <1>12, <2>1
  <2>3. Done(q)' + Pipe(Ends)' + Naks' <= 1 + Cause'
    BY <1>8, <1>9, <1>10, <2>2
  <2> QED
    BY <1>1, <1>4, <2>3 DEF RunsOfCurrent
<1>17. StuckPaid'
  <2> SUFFICES ASSUME Stuck'
               PROVE  /\ Pipe(Ends)' + Naks' + Acks' <= Cause'
                      /\ Done(q)' + Pipe(Ends)' + Naks' <= Cause'
    BY <1>1, <1>4 DEF StuckPaid
  <2>1. stub.at = "ack" /\ up = <<>> /\ None(down', "$")
    BY <1>4 DEF Stuck
  <2>2. None(down, "$")
    <3>1. /\ Len(w) \in Nat /\ Len(down) \in Nat
          /\ DOMAIN down = 1..Len(down)
          /\ Len(u) = Len(down) - 1
          /\ \A i \in 1..(Len(down) - 1) : u[i] = down[i + 1]
          /\ Head(down) = down[1]
      BY <1>4, <1>5, LineTyped, TailFacts, SeqFacts
    <3>2. PICK t : t = w \o u
      OBVIOUS
    <3>3. /\ DOMAIN t = 1..(Len(w) + Len(u))
          /\ \A i \in 1..Len(u) : t[Len(w) + i] = u[i]
      BY <3>2, CatFacts
    <3>4. \A i \in DOMAIN t : t[i].kind # "$"
      <4>1. down' = t
        BY <1>4, <1>5, <1>6, <3>2
      <4>2. None(t, "$")
        BY <2>1, <4>1
      <4> QED
        BY <4>2 DEF None
    <3>5. ASSUME NEW i \in 1..(Len(down) - 1) PROVE u[i].kind # "$"
      <4>1. t[Len(w) + i] = u[i]
        BY <3>1, <3>3
      <4>2. Len(w) + i \in DOMAIN t
        BY <3>1, <3>3
      <4> QED
        BY <3>4, <4>1, <4>2
    <3>6. ASSUME NEW i \in 1..Len(down) PROVE down[i].kind # "$"
      <4>1. CASE i = 1
        BY <1>4, <3>1, <4>1
      <4>2. CASE i # 1
        <5>1. PICK k \in 1..(Len(down) - 1) : i = k + 1
          BY <3>1, <4>2
        <5> QED
          BY <3>1, <3>5, <5>1
      <4> QED
        BY <4>1, <4>2
    <3> QED
      BY <3>1, <3>6 DEF None
  <2>3. Stuck
    BY <1>4, <2>1, <2>2 DEF Stuck
  <2>4. /\ Pipe(Ends) + Naks + Acks <= Cause
        /\ Done(q) + Pipe(Ends) + Naks <= Cause
    BY <1>1, <2>3 DEF Explained, StuckPaid
  <2>5. x <= m /\ Done(q) \in Nat
    BY <1>7, <1>9, <1>12
  <2>6. Pipe(Ends) + (Naks + x) + (Acks + y) <= Cause + m
    BY <1>7, <1>9, <2>4
  <2>7. Done(q) + Pipe(Ends) + (Naks + x) <= Cause + m
    BY <1>7, <2>4, <2>5
  <2> QED
    BY <1>8, <1>9, <1>10, <2>6, <2>7
<1>18. Heard'
  <2>1. Done(q) + 0 <= Acks + Cause
    BY <1>1, <1>11 DEF Explained, Heard
  <2>2. Done(q) + 0 <= (Acks + y) + (Cause + m)
    BY <1>7, <1>9, <1>12, <2>1
  <2> QED
    BY <1>1, <1>4, <1>8, <1>9, <1>10, <1>11, <2>2 DEF Heard
<1>19. Framed'
  <2>1. FramedSeq(down, FALSE, stub.at = "execute")
    BY <1>4 DEF Explained, Framed, FramedSeq
  <2>2. \A i \in DOMAIN w : w[i].kind # "$"
    BY <1>6 DEF Ack, Nak, Token
  <2>3. FramedSeq(w \o Tail(down), FALSE, stub.at = "execute")
    BY <1>4, <2>1, <2>2, LineTyped, FramedLater
  <2> QED
    BY <1>4, <1>6, <2>3 DEF Framed, FramedSeq
<1>20. Running'
  BY <1>4 DEF Explained, Running, Sending
<1> QED
  BY <1>13, <1>14, <1>15, <1>16, <1>17, <1>18, <1>19, <1>20 DEF Explained

(* The ack of a skipped frame is no end of a request.                      *)
LEMMA SkippedExplained ==
    ASSUME Typed, Explained, Skipped
    PROVE  Explained'
<1>1. PICK q \in 0..N : q = gdb.request
  BY LineTyped
<1>2. /\ gdb.at = "skip" /\ gdb'.at = "ack" /\ gdb'.request = q /\ Others
      /\ (Took /\ Head(down).kind = "#") \/ Waited
      /\ up' = up \o <<Ack>>
  BY <1>1, SkippedDoes
<1>3. stub' = stub /\ faults' = faults /\ mistaken' = mistaken
      /\ \A r : Done(r)' = Done(r)
  BY <1>2, GdbLeaves
<1>4. /\ Naks \in Nat /\ Acks \in Nat /\ Cause \in Nat
      /\ Pipe(Ends) \in Nat /\ \A r \in Requests : Pipe(EndsOf(r)) \in Nat
      /\ \A r \in Requests : Done(r) \in Nat
      /\ faults \in Nat /\ early \in Nat /\ mistaken \in Nat
  BY CountNats
<1>5. q \in Requests /\ Sending /\ Sending'
  BY <1>1, <1>2, RemoteLinkAssumption
     DEF Explained, Running, Sending, Requests
<1>6. \A K : Pipe(K)' = Pipe(K) + Count(<<Ack>>, K)
  BY <1>2, <1>3, TokenTypes, PipeGrows
<1>7. /\ Pipe(Ends)' = Pipe(Ends)
      /\ \A r \in Requests : Pipe(EndsOf(r))' = Pipe(EndsOf(r))
  BY <1>4, <1>6, CountTokens
<1>8. Naks' = Naks /\ Acks' = Acks
  <2>1. CASE Took /\ Head(down).kind = "#"
    BY <2>1, DownTakes DEF Took
  <2>2. CASE Waited
    BY <2>2, DownSame DEF Waited
  <2> QED
    BY <1>2, <2>1, <2>2
<1>9. Cause' \in Nat /\ Cause' >= Cause
  <2>1. early' = early \/ early' = early + 1
    BY <1>2 DEF Took, Waited
  <2>2. Cause = faults + early + mistaken
        /\ Cause' = faults + early' + mistaken
    BY <1>3 DEF Cause
  <2>3. faults \in Nat /\ early \in Nat /\ mistaken \in Nat
    BY <1>4
  <2>4. CASE early' = early
    BY <2>2, <2>3, <2>4
  <2>5. CASE early' = early + 1
    BY <2>2, <2>3, <2>5
  <2> QED
    BY <2>1, <2>4, <2>5
<1>10. Framed'
  <2>1. CASE Took /\ Head(down).kind = "#"
    BY <1>2, <1>3, <2>1, FramedTakes DEF Took
  <2>2. CASE Waited
    BY <1>2, <1>3, <2>2, FramedStays DEF Waited
  <2> QED
    BY <1>2, <2>1, <2>2
<1>11. Heard'
  <2>1. Done(q) + Missed <= Acks + Cause /\ Missed \in {0, 1}
    BY <1>1, <1>5 DEF Explained, Heard, Missed
  <2>2. Missed' = 0
    BY <1>2 DEF Missed, Deaf
  <2>3. Done(q)' + Missed' <= Acks' + Cause'
    BY <1>3, <1>4, <1>5, <1>8, <1>9, <2>1, <2>2
  <2> QED
    BY <1>2, <2>3 DEF Heard
<1>12. StuckPaid'
  <2>1. up' # <<>>
    <3>1. <<Ack>> \in Seq(Tokens) /\ Len(<<Ack>>) = 1
      BY TokenTypes
    <3> QED
      BY <1>2, <3>1, LineTyped, CatFacts, SeqFacts
  <2> QED
    BY <2>1 DEF StuckPaid, Stuck
<1>13. \A r \in Requests : /\ Pipe(EndsOf(r))' <= Pipe(EndsOf(r))
                           /\ Pipe(EndsOf(r))' \in Nat
                           /\ Done(r)' = Done(r)
  BY <1>3, <1>4, <1>7
<1> QED
  BY <1>1, <1>2, <1>4, <1>5, <1>7, <1>8, <1>9, <1>10, <1>11, <1>12, <1>13,
     Fewer

(* gdb reads its reply, and its acks go to the stub.                       *)
LEMMA ReadingExplained ==
    ASSUME Typed, Explained, ReplyStarts \/ ReplyGoesOn
    PROVE  Explained'
<1>1. /\ gdb.at \in {"reply", "frame"} /\ gdb'.at = "frame"
      /\ gdb'.request = gdb.request
      /\ Others /\ down # <<>> /\ down' = Tail(down) /\ up' = up
      /\ early' = early
  BY ReplyStartsDoes, ReplyGoesOnDoes
<1>2. /\ Pipe(Ends)' = Pipe(Ends)
      /\ \A r \in Requests : Pipe(EndsOf(r))' = Pipe(EndsOf(r))
                             /\ Done(r)' = Done(r)
      /\ Cause' = Cause
      /\ Naks' \in Nat /\ Acks' \in Nat /\ Naks' <= Naks /\ Acks' <= Acks
      /\ Framed'
  BY <1>1, ReadLeaves
<1>3. /\ Naks \in Nat /\ Acks \in Nat /\ Cause \in Nat
      /\ Pipe(Ends) \in Nat /\ \A r \in Requests : Pipe(EndsOf(r)) \in Nat
  BY CountNats
<1>4. Pipe(Ends) + Naks + Acks <= Cause
  <2>1. Open = 0
    BY <1>1 DEF Open, Sending
  <2> QED
    BY <1>3, <2>1 DEF Explained, Budget
<1>5. Pipe(Ends)' + Naks' + Acks' <= Cause'
  BY <1>2, <1>3, <1>4
<1> QED
  BY <1>1, <1>2, <1>3, <1>5, NotSending

(* The reply comes, or gdb asks for it again.                              *)
LEMMA AnsweredExplained ==
    ASSUME Typed, Explained, ReplyEnds \/ Retry
    PROVE  Explained'
<1>1. /\ gdb.at \in {"reply", "frame"} /\ gdb'.at \in {"idle", "reply"}
      /\ gdb'.request = gdb.request /\ Others
      /\ Took \/ Waited
      /\ \E t \in {<<Ack>>, <<Nak>>, <<Nak, Ack>>} : up' = up \o t
  BY ReplyEndsDoes, RetryDoes DEF Took
<1>2. stub' = stub /\ faults' = faults /\ mistaken' = mistaken
      /\ \A r : Done(r)' = Done(r)
  BY <1>1, GdbLeaves
<1>3. /\ Naks \in Nat /\ Acks \in Nat /\ Cause \in Nat
      /\ Pipe(Ends) \in Nat /\ \A r \in Requests : Pipe(EndsOf(r)) \in Nat
      /\ faults \in Nat /\ early \in Nat /\ mistaken \in Nat
  BY CountNats
<1>4. Pipe(Ends) + Naks + Acks <= Cause
  <2>1. Open = 0
    BY <1>1 DEF Open, Sending
  <2> QED
    BY <1>3, <2>1 DEF Explained, Budget
<1>5. /\ Pipe(Ends)' = Pipe(Ends)
      /\ \A r \in Requests : Pipe(EndsOf(r))' = Pipe(EndsOf(r))
  <2>1. PICK t \in {<<Ack>>, <<Nak>>, <<Nak, Ack>>} : up' = up \o t
    BY <1>1
  <2>2. t \in Seq(Tokens) /\ Count(t, Ends) = 0
        /\ \A r : Count(t, EndsOf(r)) = 0
    BY TokenTypes, CountTokens
  <2>3. \A K : Pipe(K)' = Pipe(K) + Count(t, K)
    BY <1>2, <2>1, <2>2, PipeGrows
  <2> QED
    BY <1>3, <2>2, <2>3
<1>6. Naks' \in Nat /\ Acks' \in Nat /\ Naks' <= Naks /\ Acks' <= Acks
      /\ Framed'
  <2>1. CASE Took
    <3>1. Naks' \in Nat /\ Acks' \in Nat /\ Naks' <= Naks /\ Acks' <= Acks
      <4>1. /\ Naks' \in Nat /\ Acks' \in Nat
            /\ Naks' = Naks \/ Naks' = Naks - 1
            /\ Acks' = Acks \/ Acks' = Acks - 1
        BY <2>1, DownTakes DEF Took
      <4> QED
        BY <1>3, <4>1
    <3>2. Framed'
      BY <1>1, <1>2, <2>1, FramedTakes DEF Took
    <3> QED
      BY <3>1, <3>2
  <2>2. CASE Waited
    <3>1. Naks' = Naks /\ Acks' = Acks
      BY <2>2, DownSame DEF Waited
    <3>2. Framed'
      BY <1>1, <1>2, <2>2, FramedStays DEF Waited
    <3> QED
      BY <1>3, <3>1, <3>2
  <2> QED
    BY <1>1, <2>1, <2>2
<1>7. Cause' \in Nat /\ Cause' >= Cause
  <2>1. early' = early \/ early' = early + 1
    BY <1>1 DEF Took, Waited
  <2>2. Cause = faults + early + mistaken
        /\ Cause' = faults + early' + mistaken
    BY <1>2 DEF Cause
  <2>3. CASE early' = early
    BY <1>3, <2>2, <2>3
  <2>4. CASE early' = early + 1
    BY <1>3, <2>2, <2>4
  <2> QED
    BY <2>1, <2>3, <2>4
<1>8. Pipe(Ends)' + Naks' + Acks' <= Cause'
  BY <1>3, <1>4, <1>5, <1>6, <1>7
<1>9. \A r \in Requests : /\ Pipe(EndsOf(r))' <= Pipe(EndsOf(r))
                          /\ Pipe(EndsOf(r))' \in Nat
                          /\ Done(r)' = Done(r)
  BY <1>2, <1>3, <1>5
<1> QED
  BY <1>1, <1>6, <1>7, <1>8, <1>9, NotSending

(* The steps of the stub.                                                  *)
LEMMA StubLeaves ==
    ASSUME Typed, StubOthers
    PROVE  /\ gdb' = gdb /\ Cause' = Cause /\ (Sending' <=> Sending)
           /\ Cause \in Nat
BY CountNats DEF StubOthers, Cause, Sending

(* The stub reads without answering.                                       *)
LEMMA ReceivingExplained ==
    ASSUME Typed, Explained, Fill \/ Hunt \/ RequestGoesOn
    PROVE  Explained'
<1>1. PICK q \in 0..N : q = gdb.request
  BY LineTyped
<1>2. /\ Typed' /\ StubOthers /\ executed' = executed /\ down' = down
      /\ stub.at \in {"hunt", "frame"} /\ stub'.at \in {"hunt", "frame"}
      /\ \/ stub.buf = <<>> /\ stub'.buf \o up' = up
         \/ stub.buf # <<>> /\ stub'.buf = Tail(stub.buf) /\ up' = up
  BY FillDoes, HuntDoes, RequestGoesOnDoes
<1>3. /\ gdb' = gdb /\ Cause' = Cause /\ (Sending' <=> Sending)
      /\ Cause \in Nat
  BY <1>2, StubLeaves
<1>4. /\ Naks \in Nat /\ Acks \in Nat
      /\ \A K : Pipe(K) \in Nat
      /\ \A r \in Requests : Done(r) \in Nat
  BY CountNats
<1>5. \A r : Done(r)' = Done(r)
  BY <1>2 DEF Done, Due
<1>6. \A K : Pipe(K)' \in Nat /\ Pipe(K)' <= Pipe(K)
  <2>1. CASE stub.buf = <<>> /\ stub'.buf \o up' = up
    BY <1>2, <1>4, <2>1, PipeFill
  <2>2. CASE stub.buf # <<>> /\ stub'.buf = Tail(stub.buf) /\ up' = up
    <3> SUFFICES ASSUME NEW CONSTANT K
                 PROVE  Pipe(K)' \in Nat /\ Pipe(K)' <= Pipe(K)
      OBVIOUS
    <3>1. Pipe(K)' = Pipe(K) - One(Head(stub.buf), K)
      BY <2>2, PipeTakes
    <3>2. One(Head(stub.buf), K) \in {0, 1}
      BY DEF One
    <3>3. Pipe(K)' \in Nat
      <4>1. /\ Count(Tail(stub.buf), K) \in Nat /\ Count(up, K) \in Nat
        BY <2>2, LineTyped, TailFacts, CountType
      <4> QED
        BY <2>2, <4>1 DEF Pipe
    <3> QED
      BY <1>4, <3>1, <3>2, <3>3
  <2> QED
    BY <1>2, <2>1, <2>2
<1>7. Naks' = Naks /\ Acks' = Acks
  BY <1>2, DownSame
<1>8. StuckPaid'
  BY <1>2 DEF StuckPaid, Stuck
<1>9. Heard'
  <2>1. Deaf' <=> Deaf
    BY <1>2, <1>3, <1>7 DEF Deaf
  <2>2. Missed' = Missed
    BY <2>1 DEF Missed
  <2>3. Done(gdb.request)' = Done(gdb.request)
    BY <1>2, <1>3 DEF Done, Due
  <2> QED
    BY <1>3, <1>7, <2>2, <2>3 DEF Explained, Heard
<1>10. Framed'
  BY <1>2, <1>3, FramedStays
<1> QED
  BY <1>3, <1>4, <1>5, <1>6, <1>7, <1>8, <1>9, <1>10, Fewer

(* An end turns into a '+' and an execution, or into a '-'.                *)
LEMMA RequestEndsExplained ==
    ASSUME Typed, Explained, RequestEnds
    PROVE  Explained'
<1>1. PICK q \in 0..N : q = gdb.request
  BY LineTyped
<1>2. PICK v \in 0..N : v = Head(stub.buf).value
  BY RequestEndsDoes
<1>3. /\ Typed' /\ StubOthers /\ executed' = executed /\ up' = up
      /\ stub.at = "frame" /\ stub.buf # <<>>
      /\ stub'.buf = Tail(stub.buf) /\ Head(stub.buf) = Token("#", v)
      /\ \/ /\ stub'.at = "execute" /\ Request' = v
            /\ down' = down \o <<Ack>>
         \/ /\ stub'.at = "hunt" /\ down' = down \o <<Nak>>
  BY <1>2, RequestEndsDoes
<1>4. /\ gdb' = gdb /\ Cause' = Cause /\ (Sending' <=> Sending)
      /\ Cause \in Nat
  BY <1>3, StubLeaves
<1>5. /\ Naks \in Nat /\ Acks \in Nat
      /\ \A K : Pipe(K) \in Nat
      /\ \A r \in Requests : Done(r) \in Nat
  BY CountNats
<1>6. \A r : Due(r) = 0
  BY <1>3 DEF Due
<1>7. /\ Pipe(Ends)' = Pipe(Ends) - 1
      /\ Pipe(EndsOf(v))' = Pipe(EndsOf(v)) - 1
      /\ \A r : r # v => Pipe(EndsOf(r))' = Pipe(EndsOf(r))
  <2>1. \A K : Pipe(K)' = Pipe(K) - One(Head(stub.buf), K)
    BY <1>3, PipeTakes
  <2>2. /\ One(Head(stub.buf), Ends) = 1
        /\ One(Head(stub.buf), EndsOf(v)) = 1
        /\ \A r : r # v => One(Head(stub.buf), EndsOf(r)) = 0
    BY <1>3, OneOfToken DEF Ends
  <2> QED
    BY <1>5, <2>1, <2>2
<1>8. \A K : Pipe(K)' \in Nat
  <2> SUFFICES ASSUME NEW CONSTANT K PROVE Pipe(K)' \in Nat
    OBVIOUS
  <2>1. Count(Tail(stub.buf), K) \in Nat /\ Count(up, K) \in Nat
    BY <1>3, LineTyped, TailFacts, CountType
  <2> QED
    BY <1>3, <2>1 DEF Pipe
<1>9. Open' = Open /\ Open \in {0, 1}
  BY <1>4 DEF Open
<1>10. Sending => q \in Requests
  BY <1>1, RemoteLinkAssumption DEF Explained, Running, Requests
<1>11. Running'
  BY <1>4 DEF Explained, Running
<1>12. StuckPaid'
  BY <1>3 DEF StuckPaid, Stuck
<1>13. FramedSeq(down, gdb.at = "skip", FALSE)
  BY <1>3 DEF Explained, Framed, FramedSeq
<1>14. Missed \in {0, 1} /\ Missed' \in {0, 1}
  BY DEF Missed
<1>15. Missed' <= Missed
  <2>1. Covered(down') => Covered(down)
    <3>1. /\ down \in Seq(Tokens)
          /\ <<Ack>> \in Seq(Tokens) /\ <<Nak>> \in Seq(Tokens)
      BY LineTyped, TokenTypes
    <3>2. Covered(down \o <<Ack>>) => Covered(down)
      BY <3>1, CoveredCat
    <3>3. Covered(down \o <<Nak>>) => Covered(down)
      BY <3>1, CoveredCat
    <3> QED
      BY <1>3, <3>2, <3>3
  <2>2. Deaf' => Deaf
    BY <1>3, <1>4, <2>1 DEF Deaf
  <2>3. (Missed' = 1 => Deaf') /\ (Deaf => Missed = 1)
    BY DEF Missed
  <2> QED
    BY <1>14, <2>2, <2>3
<1>16. v \in Requests => v <= q
  <2> SUFFICES ASSUME v \in Requests, v > q PROVE FALSE
    BY RemoteLinkAssumption
  <2>1. Pipe(EndsOf(v)) = 0
    BY <1>1 DEF Explained, New
  <2>2. Pipe(EndsOf(v))' \in Nat
    BY <1>8
  <2> QED
    BY <1>7, <2>1, <2>2
<1>17. /\ Pipe(Ends) + Naks + Acks <= Cause + Open
       /\ \A r \in Requests : Done(r) + Pipe(EndsOf(r)) <= 1 + Cause
       /\ \A r \in Requests : r > q => Done(r) = 0 /\ Pipe(EndsOf(r)) = 0
       /\ Sending => Done(q) + Pipe(Ends) + Naks <= 1 + Cause
       /\ Sending => Done(q) + Missed <= Acks + Cause
  BY <1>1 DEF Explained, Budget, Runs, New, RunsOfCurrent, Heard
<1>18. CASE stub'.at = "execute" /\ Request' = v /\ down' = down \o <<Ack>>
  <2>1. Naks' = Naks /\ Acks' = Acks + 1
    <3>1. /\ Naks' = Naks + Count(<<Ack>>, Kind("-"))
          /\ Acks' = Acks + Count(<<Ack>>, Kind("+"))
      BY <1>18, TokenTypes, DownGrows
    <3> QED
      BY <1>5, <3>1, CountTokens
  <2>2. /\ \A r \in Requests : r = v => Done(r)' = Done(r) + 1
        /\ \A r \in Requests : r # v => Done(r)' = Done(r)
    <3>1. \A r : Due(r)' = IF r = v THEN 1 ELSE 0
      BY <1>18 DEF Due
    <3>2. \A r \in Requests : executed[r] \in Nat
      BY CountNats
    <3>3. \A r \in Requests : Done(r) = executed[r]
      BY <1>6, <3>2 DEF Done
    <3>4. ASSUME NEW r \in Requests
          PROVE  /\ r = v => Done(r)' = executed[r] + 1
                 /\ r # v => Done(r)' = executed[r]
      <4>1. CASE r = v
        <5>1. Due(r)' = 1
          BY <3>1, <4>1
        <5> QED
          BY <1>3, <4>1, <5>1 DEF Done
      <4>2. CASE r # v
        <5>1. Due(r)' = 0
          BY <3>1, <4>2
        <5> QED
          BY <1>3, <3>2, <4>2, <5>1 DEF Done
      <4> QED
        BY <4>1, <4>2
    <3> QED
      BY <3>3, <3>4
  <2>3. Budget'
    BY <1>4, <1>5, <1>7, <1>9, <1>17, <2>1 DEF Budget
  <2>4. Runs'
    <3> SUFFICES ASSUME NEW r \in Requests
                 PROVE  Done(r)' + Pipe(EndsOf(r))' <= 1 + Cause'
      BY DEF Runs
    <3>1. Done(r) + Pipe(EndsOf(r)) <= 1 + Cause
      BY <1>17
    <3>2. Done(r) \in Nat /\ Pipe(EndsOf(r)) \in Nat
      BY <1>5
    <3>3. CASE r = v
      <4>1. Done(r)' = Done(r) + 1 /\ Pipe(EndsOf(r))' = Pipe(EndsOf(r)) - 1
        BY <1>7, <2>2, <3>3
      <4> QED
        BY <1>4, <3>1, <3>2, <4>1
    <3>4. CASE r # v
      <4>1. Done(r)' = Done(r) /\ Pipe(EndsOf(r))' = Pipe(EndsOf(r))
        BY <1>7, <2>2, <3>4
      <4> QED
        BY <1>4, <3>1, <4>1
    <3> QED
      BY <3>3, <3>4
  <2>5. New'
    <3> SUFFICES ASSUME NEW r \in Requests, r > q
                 PROVE  Done(r)' = 0 /\ Pipe(EndsOf(r))' = 0
      BY <1>1, <1>4 DEF New
    <3>1. r # v
      BY <1>16 DEF Requests
    <3> QED
      BY <1>7, <1>17, <2>2, <3>1
  <2>6. RunsOfCurrent'
    <3> SUFFICES ASSUME Sending
                 PROVE  Done(q)' + Pipe(Ends)' + Naks' <= 1 + Cause'
      BY <1>1, <1>4 DEF RunsOfCurrent
    <3>1. Done(q)' = Done(q) \/ Done(q)' = Done(q) + 1
      BY <1>10, <2>2
    <3>2. Done(q) \in Nat
      BY <1>5, <1>10
    <3>3. CASE Done(q)' = Done(q)
      BY <1>4, <1>5, <1>7, <1>17, <2>1, <3>2, <3>3
    <3>4. CASE Done(q)' = Done(q) + 1
      BY <1>4, <1>5, <1>7, <1>17, <2>1, <3>2, <3>4
    <3> QED
      BY <3>1, <3>3, <3>4
  <2>7. Heard'
    <3> SUFFICES ASSUME Sending
                 PROVE  Done(q)' + Missed' <= Acks' + Cause'
      BY <1>1, <1>4 DEF Heard
    <3>1. Done(q)' = Done(q) \/ Done(q)' = Done(q) + 1
      BY <1>10, <2>2
    <3>2. Done(q) \in Nat
      BY <1>5, <1>10
    <3>3. CASE Done(q)' = Done(q)
      BY <1>4, <1>5, <1>14, <1>15, <1>17, <2>1, <3>2, <3>3
    <3>4. CASE Done(q)' = Done(q) + 1
      BY <1>4, <1>5, <1>14, <1>15, <1>17, <2>1, <3>2, <3>4
    <3> QED
      BY <3>1, <3>3, <3>4
  <2>8. Framed'
    <3>1. FramedSeq(down', gdb.at = "skip", TRUE)
      BY <1>13, <1>18, LineTyped, FramedAck
    <3> QED
      BY <1>4, <1>18, <3>1 DEF Framed, FramedSeq
  <2> QED
    BY <1>11, <1>12, <2>3, <2>4, <2>5, <2>6, <2>7, <2>8 DEF Explained
<1>19. CASE stub'.at = "hunt" /\ down' = down \o <<Nak>>
  <2>1. Naks' = Naks + 1 /\ Acks' = Acks
    <3>1. /\ Naks' = Naks + Count(<<Nak>>, Kind("-"))
          /\ Acks' = Acks + Count(<<Nak>>, Kind("+"))
      BY <1>19, TokenTypes, DownGrows
    <3> QED
      BY <1>5, <3>1, CountTokens
  <2>2. \A r : Done(r)' = Done(r)
    BY <1>3, <1>19 DEF Done, Due
  <2>3. Budget'
    BY <1>4, <1>5, <1>7, <1>9, <1>17, <2>1 DEF Budget
  <2>4. \A r \in Requests : Pipe(EndsOf(r))' <= Pipe(EndsOf(r))
    <3> SUFFICES ASSUME NEW r \in Requests
                 PROVE  Pipe(EndsOf(r))' <= Pipe(EndsOf(r))
      OBVIOUS
    <3>1. Pipe(EndsOf(r)) \in Nat
      BY <1>5
    <3>2. CASE r = v
      BY <1>7, <3>1, <3>2
    <3>3. CASE r # v
      BY <1>7, <3>1, <3>3
    <3> QED
      BY <3>2, <3>3
  <2>5. Runs'
    <3> SUFFICES ASSUME NEW r \in Requests
                 PROVE  Done(r)' + Pipe(EndsOf(r))' <= 1 + Cause'
      BY DEF Runs
    <3>1. /\ Done(r) + Pipe(EndsOf(r)) <= 1 + Cause
          /\ Done(r) \in Nat /\ Pipe(EndsOf(r)) \in Nat
          /\ Pipe(EndsOf(r))' \in Nat
      BY <1>5, <1>8, <1>17
    <3>2. Pipe(EndsOf(r))' <= Pipe(EndsOf(r)) /\ Done(r)' = Done(r)
      BY <2>2, <2>4
    <3> QED
      BY <1>4, <3>1, <3>2
  <2>6. New'
    <3> SUFFICES ASSUME NEW r \in Requests, r > q
                 PROVE  Done(r)' = 0 /\ Pipe(EndsOf(r))' = 0
      BY <1>1, <1>4 DEF New
    <3>1. r # v
      BY <1>16 DEF Requests
    <3> QED
      BY <1>7, <1>17, <2>2, <3>1
  <2>7. RunsOfCurrent'
    <3> SUFFICES ASSUME Sending
                 PROVE  Done(q)' + Pipe(Ends)' + Naks' <= 1 + Cause'
      BY <1>1, <1>4 DEF RunsOfCurrent
    <3>1. Done(q)' = Done(q) /\ Done(q) \in Nat
      BY <1>5, <1>10, <2>2
    <3> QED
      BY <1>4, <1>5, <1>7, <1>17, <2>1, <3>1
  <2>8. Heard'
    <3> SUFFICES ASSUME Sending
                 PROVE  Done(q)' + Missed' <= Acks' + Cause'
      BY <1>1, <1>4 DEF Heard
    <3>1. Done(q)' = Done(q) /\ Done(q) \in Nat
      BY <1>5, <1>10, <2>2
    <3> QED
      BY <1>4, <1>5, <1>14, <1>15, <1>17, <2>1, <3>1
  <2>9. Framed'
    <3>1. FramedSeq(down', gdb.at = "skip", FALSE)
      BY <1>13, <1>19, LineTyped, FramedAck
    <3> QED
      BY <1>4, <1>19, <3>1 DEF Framed, FramedSeq
  <2> QED
    BY <1>11, <1>12, <2>3, <2>5, <2>6, <2>7, <2>8, <2>9 DEF Explained
<1> QED
  BY <1>3, <1>18, <1>19

(* A frame on its way back is no ack and covers no end.                    *)
LEMMA FrameBack ==
    ASSUME Typed, Explained, NEW p \in 0..N, down' = down \o Frame(p),
           gdb' = gdb, stub'.at # "execute"
    PROVE  /\ Naks' = Naks /\ Acks' = Acks
           /\ ~Stuck' /\ Framed' /\ Missed' <= Missed
           /\ Missed \in {0, 1} /\ Missed' \in {0, 1}
<1>1. PICK t \in Seq(Tokens) : t = Frame(p)
  BY TokenTypes
<1>2. /\ Len(t) = 3 /\ t[1].kind = "$" /\ t[2].kind = "data"
      /\ t[3].kind = "#" /\ DOMAIN t = 1..3
  <2>1. /\ Len(t) = 3 /\ t[1] = Token("$", 0) /\ t[2] = Token("data", p)
        /\ t[3] = Token("#", p)
    BY <1>1, TokenTypes
  <2>2. /\ Token("$", 0).kind = "$" /\ Token("data", p).kind = "data"
        /\ Token("#", p).kind = "#"
    BY DEF Token
  <2>3. DOMAIN t = 1..Len(t)
    BY SeqFacts
  <2> QED
    BY <2>1, <2>2, <2>3
<1>3. Naks' = Naks /\ Acks' = Acks
  <2>1. Count(t, Kind("-")) = 0 /\ Count(t, Kind("+")) = 0
    BY <1>1, CountTokens
  <2>2. /\ Naks' = Naks + Count(t, Kind("-"))
        /\ Acks' = Acks + Count(t, Kind("+"))
    BY <1>1, DownGrows
  <2>3. Naks \in Nat /\ Acks \in Nat
    BY CountNats
  <2> QED
    BY <2>1, <2>2, <2>3
<1>4. ~Stuck'
  <2>1. PICK u : u = down \o t
    OBVIOUS
  <2>2. /\ Len(down) \in Nat /\ DOMAIN u = 1..(Len(down) + Len(t))
        /\ \A k \in 1..Len(t) : u[Len(down) + k] = t[k]
    BY <2>1, LineTyped, CatFacts
  <2>3. Len(down) + 1 \in DOMAIN u /\ u[Len(down) + 1].kind = "$"
    BY <1>2, <2>2
  <2> QED
    BY <1>1, <2>1, <2>3 DEF Stuck, None
<1>5. Framed'
  <2>1. FramedSeq(down', gdb.at = "skip", FALSE)
    BY LineTyped, FramedFrame DEF Explained, Framed
  <2> QED
    BY <2>1 DEF Framed, FramedSeq
<1>6. ASSUME Deaf' PROVE Deaf
  <2>1. Covered(down \o t) /\ gdb.at = "skip"
    BY <1>1, <1>6 DEF Deaf
  <2>2. Covered(down) /\ \E j \in DOMAIN down : down[j].kind = "+"
    <3>1. 3 \in DOMAIN t /\ \A j \in DOMAIN t : t[j].kind # "+"
      <4>1. \A j \in 1..3 : j = 1 \/ j = 2 \/ j = 3
        OBVIOUS
      <4> QED
        BY <1>2, <4>1
    <3> QED
      BY <1>2, <2>1, <3>1, LineTyped, CoveredCat
  <2>3. Acks > 0
    <3>1. PICK j \in DOMAIN down : down[j].kind = "+"
      BY <2>2
    <3>2. down[j] \in Kind("+")
      <4>1. down[j] \in Tokens
        BY LineTyped, SeqFacts
      <4> QED
        BY <3>1, <4>1 DEF Kind, Tokens
    <3>3. Count(down, Kind("+")) # 0 /\ Count(down, Kind("+")) \in Nat
      BY <3>2, LineTyped, CountType
    <3> QED
      BY <3>3 DEF Acks
  <2> QED
    BY <2>1, <2>2, <2>3 DEF Deaf
<1>7. Missed \in {0, 1} /\ Missed' \in {0, 1}
  BY DEF Missed
<1>8. Missed' <= Missed
  <2>1. (Missed' = 1 => Deaf') /\ (Deaf => Missed = 1)
    BY DEF Missed
  <2> QED
    BY <1>6, <1>7, <2>1
<1> QED
  BY <1>3, <1>4, <1>5, <1>7, <1>8

(* What was due is done; the answer is behind its ack.                     *)
LEMMA ExecuteExplained ==
    ASSUME Typed, Explained, Execute
    PROVE  Explained'
<1>1. PICK q \in 0..N : q = gdb.request
  BY LineTyped
<1>2. PICK v \in 0..N : v = Request
  BY ExecuteDoes
<1>3. /\ StubOthers /\ up' = up
      /\ stub.at = "execute" /\ stub'.at = "ack" /\ stub'.buf = stub.buf
      /\ executed' = [executed EXCEPT ![v] = @ + 1]
      /\ down' = down \o Frame(v)
  BY <1>2, ExecuteDoes
<1>4. /\ gdb' = gdb /\ Cause' = Cause /\ (Sending' <=> Sending)
      /\ Cause \in Nat
  BY <1>3, StubLeaves
<1>5. /\ Naks \in Nat /\ Acks \in Nat
      /\ \A K : Pipe(K) \in Nat
      /\ \A r \in Requests : Done(r) \in Nat /\ executed[r] \in Nat
  BY CountNats
<1>6. \A r \in Requests : Done(r)' = Done(r)
  <2> SUFFICES ASSUME NEW r \in Requests PROVE Done(r)' = Done(r)
    OBVIOUS
  <2>1. Due(r)' = 0 /\ executed \in [Requests -> Nat]
    BY <1>3, MadeTyped DEF Due
  <2>2. CASE r = v
    <3>1. Due(r) = 1
      BY <1>2, <1>3, <2>2 DEF Due
    <3>2. executed'[r] = executed[r] + 1
      BY <1>3, <2>1, <2>2
    <3> QED
      BY <1>5, <2>1, <3>1, <3>2 DEF Done
  <2>3. CASE r # v
    <3>1. Due(r) = 0
      BY <1>2, <2>3 DEF Due
    <3>2. executed'[r] = executed[r]
      BY <1>3, <2>1, <2>3
    <3> QED
      BY <1>5, <2>1, <3>1, <3>2 DEF Done
  <2> QED
    BY <2>2, <2>3
<1>7. /\ Naks' = Naks /\ Acks' = Acks
      /\ ~Stuck' /\ Framed' /\ Missed' <= Missed
      /\ Missed \in {0, 1} /\ Missed' \in {0, 1}
  BY <1>3, <1>4, FrameBack
<1>8. \A K : Pipe(K)' = Pipe(K)
  BY <1>3, PipeSame
<1>9. StuckPaid'
  BY <1>7 DEF StuckPaid
<1>10. Heard'
  <2> SUFFICES ASSUME Sending PROVE Done(q)' + Missed' <= Acks' + Cause'
    BY <1>1, <1>4 DEF Heard
  <2>1. Done(q) + Missed <= Acks + Cause
    BY <1>1 DEF Explained, Heard
  <2>2. q \in Requests
    BY <1>1, RemoteLinkAssumption DEF Explained, Running, Requests
  <2> QED
    BY <1>4, <1>5, <1>6, <1>7, <2>1, <2>2
<1>11. \A r \in Requests : /\ Pipe(EndsOf(r))' <= Pipe(EndsOf(r))
                           /\ Pipe(EndsOf(r))' \in Nat
                           /\ Done(r)' = Done(r)
  BY <1>5, <1>6, <1>8
<1> QED
  BY <1>4, <1>5, <1>7, <1>8, <1>9, <1>10, <1>11, Fewer

(* The stub answers again, which executes nothing.                         *)
LEMMA AckReadExplained ==
    ASSUME Typed, Explained, ReadAck \/ RequestAsAck
    PROVE  Explained'
<1>1. PICK q \in 0..N : q = gdb.request
  BY LineTyped
<1>2. PICK v \in 0..N : v = Request
  BY ReadAckDoes, RequestAsAckDoes
<1>3. /\ StubOthers /\ executed' = executed
      /\ stub.at = "ack" /\ up # <<>> /\ up' = Tail(up)
      /\ stub'.buf = stub.buf
      /\ \/ stub'.at = "hunt" /\ down' = down
         \/ stub'.at \in {"hunt", "ack"} /\ down' = down \o Frame(v)
  BY <1>2, ReadAckDoes, RequestAsAckDoes
<1>4. /\ gdb' = gdb /\ Cause' = Cause /\ (Sending' <=> Sending)
      /\ Cause \in Nat
  BY <1>3, StubLeaves
<1>5. /\ Naks \in Nat /\ Acks \in Nat
      /\ \A K : Pipe(K) \in Nat
      /\ \A r \in Requests : Done(r) \in Nat
  BY CountNats
<1>6. \A r : Done(r)' = Done(r)
  <2>1. stub'.at # "execute" /\ stub.at # "execute"
    BY <1>3
  <2> QED
    BY <1>3, <2>1 DEF Done, Due
<1>7. /\ Naks' = Naks /\ Acks' = Acks
      /\ ~Stuck' /\ Framed' /\ Missed' <= Missed
      /\ Missed \in {0, 1} /\ Missed' \in {0, 1}
  <2>1. CASE stub'.at \in {"hunt", "ack"} /\ down' = down \o Frame(v)
    BY <1>4, <2>1, FrameBack
  <2>2. CASE stub'.at = "hunt" /\ down' = down
    <3>1. Naks' = Naks /\ Acks' = Acks
      BY <2>2, DownSame
    <3>2. ~Stuck'
      BY <2>2 DEF Stuck
    <3>3. Framed'
      BY <1>3, <1>4, <2>2, FramedStays
    <3>4. Deaf' <=> Deaf
      BY <1>3, <1>4, <2>2, <3>1 DEF Deaf
    <3>5. Missed' = Missed /\ Missed \in {0, 1}
      BY <3>4 DEF Missed
    <3> QED
      BY <3>1, <3>2, <3>3, <3>5
  <2> QED
    BY <1>3, <2>1, <2>2
<1>8. \A K : Pipe(K)' \in Nat /\ Pipe(K)' <= Pipe(K)
  <2> SUFFICES ASSUME NEW CONSTANT K
               PROVE  Pipe(K)' \in Nat /\ Pipe(K)' <= Pipe(K)
    OBVIOUS
  <2>1. Pipe(K)' = Pipe(K) - One(Head(up), K)
    BY <1>3, PipeReads
  <2>2. One(Head(up), K) \in {0, 1}
    BY DEF One
  <2>3. Pipe(K)' \in Nat
    <3>1. /\ Count(Tail(up), K) \in Nat /\ Count(stub.buf, K) \in Nat
      BY <1>3, LineTyped, TailFacts, CountType
    <3> QED
      BY <1>3, <3>1 DEF Pipe
  <2> QED
    BY <1>5, <2>1, <2>2, <2>3
<1>9. StuckPaid'
  BY <1>7 DEF StuckPaid
<1>10. Heard'
  <2> SUFFICES ASSUME Sending PROVE Done(q)' + Missed' <= Acks' + Cause'
    BY <1>1, <1>4 DEF Heard
  <2>1. Done(q) + Missed <= Acks + Cause
    BY <1>1 DEF Explained, Heard
  <2>2. q \in Requests
    BY <1>1, RemoteLinkAssumption DEF Explained, Running, Requests
  <2> QED
    BY <1>4, <1>5, <1>6, <1>7, <2>1, <2>2
<1>11. \A r \in Requests : /\ Pipe(EndsOf(r))' <= Pipe(EndsOf(r))
                           /\ Pipe(EndsOf(r))' \in Nat
                           /\ Done(r)' = Done(r)
  BY <1>5, <1>6, <1>8
<1> QED
  BY <1>4, <1>5, <1>7, <1>8, <1>9, <1>10, <1>11, Fewer

(* A fault is a cause of its own; it may take an ack away from gdb.        *)
LEMMA FaultExplained ==
    ASSUME Typed, Explained, Fault
    PROVE  Explained'
<1>1. PICK q \in 0..N : q = gdb.request
  BY LineTyped
<1>2. /\ Typed' /\ faults' = faults + 1
      /\ UNCHANGED <<gdb, stub, executed, results, early, mistaken>>
      /\ \/ Damages(up, up') /\ down' = down
         \/ Damages(down, down') /\ up' = up
  BY FaultDoes
<1>3. /\ Naks \in Nat /\ Acks \in Nat /\ Cause \in Nat
      /\ \A K : Pipe(K) \in Nat
      /\ \A r \in Requests : Done(r) \in Nat
      /\ faults \in Nat /\ early \in Nat /\ mistaken \in Nat
  BY CountNats
<1>4. Cause' = Cause + 1 /\ (Sending' <=> Sending) /\ gdb' = gdb /\ stub' = stub
  BY <1>2, <1>3 DEF Cause, Sending
<1>5. \A r : Done(r)' = Done(r)
  BY <1>2 DEF Done, Due, Request
<1>6. /\ Pipe(Ends)' \in Nat /\ \A r \in Requests : Pipe(EndsOf(r))' \in Nat
  <2>1. up' \in Seq(Tokens)
    BY <1>2 DEF Typed, TypeOK
  <2>2. \A K : Count(up', K) \in Nat /\ Count(stub.buf, K) \in Nat
    BY <2>1, LineTyped, CountType
  <2>3. \A K : Pipe(K)' = Count(stub.buf, K) + Count(up', K)
    BY <1>4 DEF Pipe
  <2> QED
    BY <2>2, <2>3
<1>7. /\ Pipe(Ends)' <= Pipe(Ends)
      /\ \A r \in Requests : Pipe(EndsOf(r))' <= Pipe(EndsOf(r))
  <2>1. CASE Damages(up, up')
    BY <1>2, <1>4, <2>1, PipeDamaged
  <2>2. CASE up' = up
    <3>1. \A K : Pipe(K)' = Pipe(K)
      BY <1>4, <2>2, PipeSame
    <3> QED
      BY <1>3, <3>1
  <2> QED
    BY <1>2, <2>1, <2>2
<1>8. Missed \in {0, 1} /\ Missed' \in {0, 1}
  BY DEF Missed
<1>9. /\ Naks' \in Nat /\ Naks' <= Naks /\ Acks' \in Nat
      /\ \/ Acks' = Acks
         \/ Acks' = Acks - 1 /\ (gdb.at = "skip" => Missed = 1)
  <2>1. CASE down' = down
    BY <1>3, <2>1, DownSame
  <2>2. CASE Damages(down, down')
    <3>1. /\ down' \in Seq(Tokens)
          /\ Count(down', Kind("-")) <= Count(down, Kind("-"))
          /\ Head(down).kind = "+" =>
                Count(down', Kind("+")) = Count(down, Kind("+")) - 1
          /\ Head(down).kind # "+" =>
                Count(down', Kind("+")) = Count(down, Kind("+"))
      BY <2>2, LineTyped, DamageCounts
    <3>2. Naks' = Count(down', Kind("-")) /\ Acks' = Count(down', Kind("+"))
      BY DEF Naks, Acks, Kind
    <3>3. Count(down', Kind("-")) \in Nat /\ Count(down', Kind("+")) \in Nat
      BY <3>1, CountType
    <3>4. Naks' \in Nat /\ Naks' <= Naks /\ Acks' \in Nat
      BY <3>1, <3>2, <3>3 DEF Naks
    <3>5. CASE Head(down).kind = "+"
      <4>1. Acks' = Acks - 1
        BY <3>1, <3>2, <3>5 DEF Acks
      <4>2. Acks > 0
        BY <1>3, <3>4, <4>1
      <4>3. Covered(down)
        BY <2>2, <3>5, LineTyped, CoveredTail DEF Damages
      <4>4. gdb.at = "skip" => Missed = 1
        BY <4>2, <4>3 DEF Missed, Deaf
      <4> QED
        BY <3>4, <4>1, <4>4
    <3>6. CASE Head(down).kind # "+"
      <4>1. Acks' = Acks
        BY <3>1, <3>2, <3>6 DEF Acks
      <4> QED
        BY <3>4, <4>1
    <3> QED
      BY <3>5, <3>6
  <2> QED
    BY <1>2, <2>1, <2>2
<1>10. Acks' <= Acks
  BY <1>3, <1>9
<1>11. Framed'
  <2>1. CASE down' = down
    BY <1>4, <2>1, FramedStays
  <2>2. CASE Damages(down, down')
    <3>1. \/ down' = Tail(down)
          \/ \E g \in Tokens : /\ down' = <<g>> \o Tail(down)
                               /\ g.kind \notin {"$", "+"}
      <4>1. CASE down' = Tail(down)
        BY <4>1
      <4>2. CASE down' # Tail(down)
        <5>1. PICK g \in Tokens : /\ down' = <<g>> \o Tail(down)
                                  /\ g = Token("junk", 0) \/ g = Token("#", 0)
          BY <2>2, <4>2 DEF Damages
        <5>2. g.kind \notin {"$", "+"}
          BY <5>1 DEF Token
        <5> QED
          BY <5>1, <5>2
      <4> QED
        BY <4>1, <4>2
    <3>2. down' \in Seq(Tokens) /\ down # <<>>
      BY <1>2, <2>2 DEF Typed, TypeOK, Damages
    <3>3. CASE down' = Tail(down)
      BY <1>4, <3>2, <3>3, FramedTakes
    <3>4. CASE down' # Tail(down)
      <4>1. PICK g \in Tokens : /\ down' = <<g>> \o Tail(down)
                                /\ g.kind \notin {"$", "+"}
        BY <3>1, <3>4
      <4>2. FramedSeq(down, gdb.at = "skip", stub.at = "execute")
        BY DEF Explained, Framed
      <4>3. FramedSeq(<<g>> \o Tail(down), gdb.at = "skip",
                      stub.at = "execute")
        BY <3>2, <4>1, <4>2, LineTyped, FramedJunk
      <4> QED
        BY <1>4, <4>1, <4>3 DEF Framed
    <3> QED
      BY <3>3, <3>4
  <2> QED
    BY <1>2, <2>1, <2>2
<1>12. Sending => q \in Requests
  BY <1>1, RemoteLinkAssumption DEF Explained, Running, Requests
<1>13. Heard'
  <2> SUFFICES ASSUME Sending PROVE Done(q)' + Missed' <= Acks' + Cause'
    BY <1>1, <1>4 DEF Heard
  <2>1. Done(q) + Missed <= Acks + Cause
    BY <1>1 DEF Explained, Heard
  <2>2. Done(q)' = Done(q) /\ Done(q) \in Nat
    BY <1>3, <1>5, <1>12
  <2>3. CASE Acks' = Acks
    BY <1>3, <1>4, <1>8, <2>1, <2>2, <2>3
  <2>4. CASE Acks' = Acks - 1 /\ gdb.at = "skip"
    <3>1. Missed = 1
      BY <1>9, <2>4, <1>3
    <3> QED
      BY <1>3, <1>4, <1>8, <2>1, <2>2, <2>4, <3>1
  <2>5. CASE Acks' = Acks - 1 /\ gdb.at = "ack"
    <3>1. Missed' = 0
      BY <1>4, <2>5 DEF Missed, Deaf
    <3> QED
      BY <1>3, <1>4, <1>8, <2>1, <2>2, <2>5, <3>1
  <2> QED
    BY <1>9, <2>3, <2>4, <2>5 DEF Sending
<1>14. StuckPaid'
  <2> SUFFICES ASSUME Stuck'
               PROVE  /\ Pipe(Ends)' + Naks' + Acks' <= Cause'
                      /\ Done(q)' + Pipe(Ends)' + Naks' <= Cause'
    BY <1>1, <1>4 DEF StuckPaid
  <2>1. Sending /\ Open = 1
    BY <1>4 DEF Stuck, Sending, Open
  <2>2. Pipe(Ends) + Naks + Acks <= Cause + 1
    BY <2>1 DEF Explained, Budget
  <2>3. Done(q) + Pipe(Ends) + Naks <= 1 + Cause
    BY <1>1, <2>1 DEF Explained, RunsOfCurrent
  <2>4. Done(q)' = Done(q) /\ Done(q) \in Nat
    BY <1>3, <1>5, <1>12, <2>1
  <2> QED
    BY <1>3, <1>4, <1>6, <1>7, <1>9, <1>10, <2>2, <2>3, <2>4
<1>15. Cause' \in Nat /\ Cause' >= Cause
  BY <1>3, <1>4
<1>16. \A r \in Requests : /\ Pipe(EndsOf(r))' <= Pipe(EndsOf(r))
                           /\ Pipe(EndsOf(r))' \in Nat
                           /\ Done(r)' = Done(r)
  BY <1>5, <1>6, <1>7
<1> QED
  BY <1>4, <1>6, <1>7, <1>9, <1>10, <1>11, <1>13, <1>14, <1>15, <1>16, Fewer

(* Every step keeps the accounting.                                        *)
LEMMA ExplainedKeeps ==
    ASSUME Typed, Explained, [Next]_vars
    PROVE  Explained'
<1>1. CASE GdbStep
  BY <1>1, PutpktExplained, AckedExplained, ResendExplained,
     OldReplyExplained, UnframedExplained, IgnoredExplained,
     SkippedExplained, ReadingExplained, AnsweredExplained DEF GdbStep
<1>2. CASE StubStep
  BY <1>2, ReceivingExplained, RequestEndsExplained, ExecuteExplained,
     AckReadExplained DEF StubStep
<1>3. CASE Fault
  BY <1>3, FaultExplained
<1>4. CASE UNCHANGED vars
  BY <1>4 DEF vars, Explained, Budget, Runs, New, RunsOfCurrent, StuckPaid,
     Heard, Framed, Running, Pipe, Naks, Acks, Cause, Open, Sending, Done, Due,
     Request, Missed, Deaf, Stuck, None, Ends, EndsOf, Kind, Requests, Token
<1> QED
  BY <1>1, <1>2, <1>3, <1>4 DEF Next

(* No request is executed more often than once and once for every token    *)
(* the line lost or garbled, every timeout that went off early and every   *)
(* '+' or '-' of a payload that gdb read in place of an ack.               *)
THEOREM LinkExplains == Spec => []ExecutionsExplained
<1>1. Typed /\ Explained => ExecutionsExplained
  <2> SUFFICES ASSUME Typed, Explained, NEW r \in Requests
               PROVE  executed[r] <= 1 + faults + early + mistaken
    BY DEF ExecutionsExplained
  <2>1. Done(r) + Pipe(EndsOf(r)) <= 1 + Cause
    BY DEF Explained, Runs
  <2>2. Pipe(EndsOf(r)) \in Nat /\ executed[r] \in Nat
        /\ faults \in Nat /\ early \in Nat /\ mistaken \in Nat
    BY CountNats
  <2>3. Due(r) \in {0, 1}
    BY DEF Due
  <2> QED
    BY <2>1, <2>2, <2>3 DEF Done, Cause
<1>2. Init => Typed /\ Explained
  BY InitTyped, InitExplained
<1>3. Typed /\ Explained /\ [Next]_vars => (Typed /\ Explained)'
  BY TypedKeeps, ExplainedKeeps
<1> QED
  BY <1>1, <1>2, <1>3, PTL DEF Spec

-----------------------------------------------------------------------------
(***************************************************************************)
(* The refinement of RemoteCall.  While gdb's clock is right, the line     *)
(* failed less than MAX_TRIES times and gdb met no sign of a payload, the  *)
(* two programs and the line are in one of the situations below.           *)
(***************************************************************************)

Within(s, K) == \A i \in DOMAIN s : s[i] \in K
(* No token of L comes after one of K.                                     *)
Never(s, K, L) == \A i, j \in DOMAIN s : i < j /\ s[i] \in K => s[j] \notin L

NotKind(kinds) == {t \in Tokens : t.kind \notin kinds}
(* A checksum is that of q's frame, or wrong.                              *)
EndsFor(q) == {t \in Tokens : t.kind = "#" => t.value \in {0, q}}
Of(q) == {t \in Tokens : t.kind \in {"data", "#"} => t.value \in {0, q}}

(* Payloads are requests; on the way back, requests that were executed.    *)
Payloads == {t \in Tokens : t.kind = "data" => t.value # 0}
Answers == {t \in Tokens : t.kind = "data" =>
                              t.value # 0 /\ executed[t.value] > 0}
Sourced == /\ Within(stub.buf, Payloads) /\ Within(stub.body, Payloads)
           /\ Within(up, Payloads)
           /\ Within(down, Answers) /\ Within(gdb.body, Answers)
           /\ stub.at = "ack" => executed[Request] > 0
           /\ gdb.at # "frame" => gdb.body = <<>>
           /\ gdb.at # "idle" => gdb.request # 0

Reliable == early = 0 /\ mistaken = 0 /\ faults < MAX_TRIES
Reading  == stub.at \in {"hunt", "frame"}
NoEnd(s) == Within(s, NotKind({"#"}))
NoAck(s) == Within(s, NotKind({"+", "-"}))
EndLast(s) == Never(s, Ends, Tokens)

(* Between two calls: at most remains of frames, and the stub may wait     *)
(* for an ack that was lost.                                               *)
Rest == /\ NoEnd(stub.buf) /\ NoEnd(up) /\ NoAck(down)
        /\ \/ Reading /\ down = <<>>
           \/ stub.at = "ack" /\ down = <<>> /\ Len(up) <= 1
           \/ stub.at = "ack" /\ up = <<>>

(* The request is on its way, or lost, or refused.                         *)
Asking == /\ Reading /\ gdb.at = "ack" /\ down = <<>>
          /\ EndLast(stub.buf) /\ EndLast(up)
          /\ NoEnd(stub.buf) \/ up = <<>>
          /\ Within(stub.buf, EndsFor(gdb.request))
          /\ Within(up, EndsFor(gdb.request))
Lost == Reading /\ NoEnd(stub.buf) /\ NoEnd(up) /\ NoAck(down)
Refused == /\ stub.at = "hunt" /\ gdb.at = "ack" /\ down = <<Nak>>
           /\ up = <<>> /\ stub.buf = <<>>

(* The stub took it in and the '+' is on its way, or lost.                 *)
Accepted == /\ gdb.at = "ack" /\ up = <<>> /\ Request = gdb.request
            /\ NoEnd(stub.buf)
            /\ \/ stub.at = "execute" /\ down = <<Ack>>
               \/ stub.at = "ack" /\ down = <<Ack>> \o Frame(Request)
Mute == /\ gdb.at = "ack" /\ up = <<>> /\ Request = gdb.request
        /\ NoEnd(stub.buf)
        /\ stub.at = "execute" /\ down \in {<<>>, <<Token("junk", 0)>>}

(* The stub waits for an ack of the last answer or the one before, while   *)
(* gdb waits for an ack of its request.                                    *)
Skipping ==
    /\ stub.at = "ack" /\ NoEnd(stub.buf) /\ NoAck(down)
    /\ Within(up, EndsFor(gdb.request))
    /\ \/ gdb.at = "ack" /\ down = <<>> /\ EndLast(up)
          /\ Never(up, Tokens, Kind("+"))
       \/ Never(up, Kind("+"), Ends)
    /\ Stuck => faults > 0
    /\ Request # gdb.request => /\ gdb.tcount <= faults
                                /\ Stuck => gdb.tcount < faults

(* gdb reads the reply: it comes, comes again, or was lost; or there never *)
(* was one.                                                                *)
Arriving ==
    /\ up = <<>> /\ gdb.tries <= 1 + faults
    /\ \/ stub.at = "execute" /\ gdb.at = "reply" /\ down = <<>>
       \/ stub.at = "ack" /\ gdb.at = "reply" /\ down = Frame(gdb.request)
       \/ stub.at = "ack" /\ gdb.at = "frame" /\ gdb.body = <<>>
          /\ down = <<Token("data", gdb.request), Token("#", gdb.request)>>
       \/ stub.at = "ack" /\ gdb.at = "frame"
          /\ gdb.body = <<Token("data", gdb.request)>>
          /\ down = <<Token("#", gdb.request)>>
Again == /\ stub.at = "ack" /\ gdb.at = "reply" /\ down = <<>>
         /\ gdb.tries <= 1 + faults
         /\ \E t \in NotKind({"+", "#"}) : up = <<t>>
Broken == /\ stub.at = "ack" /\ up = <<>> /\ gdb.tries <= faults
          /\ Within(down, NotKind({"$"})) /\ EndLast(down)
          /\ Within(down, Of(gdb.request)) /\ Within(gdb.body, Of(gdb.request))
Answering == /\ Arriving \/ Again \/ Broken
             /\ Request = gdb.request /\ NoEnd(stub.buf)
Vain == /\ Reading /\ NoEnd(stub.buf) /\ NoEnd(up) /\ down = <<>>
        /\ gdb.at = "reply" /\ gdb.buf = Nothing

Situation ==
    /\ gdb.at = "idle" => Rest
    /\ Sending => Asking \/ Lost \/ Refused \/ Accepted \/ Mute \/ Skipping
    /\ gdb.at \in {"reply", "frame"} => Answering \/ Vain

(* The stub took the '+' in the request for the ack of its last answer: an *)
(* end that is still on its way has no start.                              *)
NoStart(s) == Within(s, NotKind({"$"}))
Headless == /\ Sending /\ stub.at = "hunt" /\ NoAck(down)
            /\ NoStart(stub.buf) /\ NoStart(up)

(* What the stub waits for an ack with: one frame at most, and only while  *)
(* gdb is sending it.                                                      *)
Alone == /\ ~Reading => stub.buf = <<>>
         /\ stub.at = "ack" =>
               IF Sending THEN Never(up, Kind("data"), Kind("$"))
                          ELSE Within(up, NotKind({"data"}))

Situated == Reliable => (Headless \/ Situation) /\ Alone

(* The ends of frames, and the other tokens.                               *)
LEMMA KindsOf ==
    ASSUME NEW t \in Tokens
    PROVE  /\ \A k : t \in Kind(k) <=> t.kind = k
           /\ t \in Ends <=> t.kind = "#"
           /\ \A k : t \in NotKind(k) <=> t.kind \notin k
           /\ t.value \in 0..N
BY DEF Kind, Ends, NotKind, Tokens

(* What is read from a line of one kind of tokens is of that kind.         *)
LEMMA WithinTail ==
    ASSUME NEW s \in Seq(Tokens), s # <<>>, NEW K, Within(s, K)
    PROVE  /\ Head(s) \in K /\ Within(Tail(s), K)
           /\ Tail(s) \in Seq(Tokens) /\ Head(s) \in Tokens
<1>1. /\ Head(s) = s[1] /\ Head(s) \in Tokens /\ Tail(s) \in Seq(Tokens)
      /\ Len(s) \in Nat \ {0} /\ DOMAIN s = 1..Len(s)
      /\ DOMAIN Tail(s) = 1..(Len(s) - 1)
      /\ \A i \in 1..(Len(s) - 1) : Tail(s)[i] = s[i+1]
  BY TailFacts
<1>2. Head(s) \in K
  BY <1>1 DEF Within
<1>3. ASSUME NEW i \in 1..(Len(s) - 1) PROVE Tail(s)[i] \in K
  <2>1. i + 1 \in 1..Len(s)
    BY <1>1
  <2> QED
    BY <1>1, <2>1 DEF Within
<1> QED
  BY <1>1, <1>2, <1>3 DEF Within

(* Two lines end to end.                                                   *)
LEMMA WithinCat ==
    ASSUME NEW s \in Seq(Tokens), NEW t \in Seq(Tokens), NEW K
    PROVE  Within(s \o t, K) <=> Within(s, K) /\ Within(t, K)
<1>1. PICK u : u = s \o t
  OBVIOUS
<1>2. /\ DOMAIN u = 1..(Len(s) + Len(t)) /\ Len(s) \in Nat /\ Len(t) \in Nat
      /\ DOMAIN s = 1..Len(s) /\ DOMAIN t = 1..Len(t)
      /\ \A k \in 1..Len(s) : u[k] = s[k]
      /\ \A k \in 1..Len(t) : u[Len(s) + k] = t[k]
      /\ \A i \in 1..(Len(s) + Len(t)) :
            i \in 1..Len(s) \/ (i - Len(s) \in 1..Len(t)
                                /\ u[i] = t[i - Len(s)])
  BY <1>1, CatFacts
<1>3. ASSUME Within(s, K), Within(t, K) PROVE Within(u, K)
  BY <1>2, <1>3 DEF Within
<1>4. ASSUME Within(u, K) PROVE Within(s, K)
  <2> SUFFICES ASSUME NEW i \in 1..Len(s) PROVE s[i] \in K
    BY <1>2 DEF Within
  <2>1. i \in 1..(Len(s) + Len(t)) /\ u[i] = s[i]
    BY <1>2
  <2> QED
    BY <1>2, <1>4, <2>1 DEF Within
<1>5. ASSUME Within(u, K) PROVE Within(t, K)
  <2> SUFFICES ASSUME NEW i \in 1..Len(t) PROVE t[i] \in K
    BY <1>2 DEF Within
  <2>1. Len(s) + i \in 1..(Len(s) + Len(t)) /\ u[Len(s) + i] = t[i]
    BY <1>2
  <2> QED
    BY <1>2, <1>5, <2>1 DEF Within
<1> QED
  BY <1>1, <1>3, <1>4, <1>5

(* Short sequences.                                                        *)
LEMMA WithinFew ==
    ASSUME NEW K
    PROVE  /\ Within(<<>>, K)
           /\ \A a : Within(<<a>>, K) <=> a \in K
           /\ \A a, b : Within(<<a, b>>, K) <=> a \in K /\ b \in K
           /\ \A a, b, c : Within(<<a, b, c>>, K) <=>
                              a \in K /\ b \in K /\ c \in K
<1>1. Within(<<>>, K) /\ \A a : Within(<<a>>, K) <=> a \in K
  BY DEF Within
<1>2. \A a, b : Within(<<a, b>>, K) <=> a \in K /\ b \in K
  BY DEF Within
<1>3. ASSUME NEW a, NEW b, NEW c
      PROVE  Within(<<a, b, c>>, K) <=> a \in K /\ b \in K /\ c \in K
  <2>1. PICK s : s = <<a, b, c>>
    OBVIOUS
  <2>2. DOMAIN s = 1..3 /\ s[1] = a /\ s[2] = b /\ s[3] = c
    BY <2>1
  <2>3. Within(s, K) <=> s[1] \in K /\ s[2] \in K /\ s[3] \in K
    <3>1. \A i : i \in 1..3 <=> i = 1 \/ i = 2 \/ i = 3
      OBVIOUS
    <3> QED
      BY <2>2, <3>1 DEF Within
  <2> QED
    BY <2>1, <2>2, <2>3
<1> QED
  BY <1>1, <1>2, <1>3

(* One more token.                                                         *)
LEMMA WithinAppend ==
    ASSUME NEW s \in Seq(Tokens), NEW t \in Tokens, NEW K, Within(s, K), t \in K
    PROVE  Within(Append(s, t), K) /\ Append(s, t) \in Seq(Tokens)
<1>1. Append(s, t) = s \o <<t>> /\ <<t>> \in Seq(Tokens)
  BY AppendIsConcat
<1>2. Within(<<t>>, K)
  BY WithinFew
<1> QED
  BY <1>1, <1>2, WithinCat, CatFacts

(* A larger set.                                                           *)
LEMMA WithinMore ==
    ASSUME NEW s, NEW K, NEW L, Within(s, K), \A t \in K : t \in L
    PROVE  Within(s, L)
BY DEF Within

(* Damage leaves junk, or a wrong checksum.                                *)
LEMMA WithinDamaged ==
    ASSUME NEW s \in Seq(Tokens), NEW t, Damages(s, t), NEW K,
           Within(s, K) \/ Within(Tail(s), K),
           Token("junk", 0) \in K,
           Head(s).kind = "#" => Token("#", 0) \in K
    PROVE  Within(t, K)
<1>1. /\ s # <<>>
      /\ \/ t = Tail(s)
         \/ \E g \in Tokens : t = <<g>> \o Tail(s) /\ g \in K
  BY DEF Damages
<1>2. Within(Tail(s), K) /\ Tail(s) \in Seq(Tokens)
  BY <1>1, WithinTail, TailFacts
<1>3. CASE t = Tail(s)
  BY <1>2, <1>3
<1>4. ASSUME NEW g \in Tokens, t = <<g>> \o Tail(s), g \in K
      PROVE  Within(t, K)
  <2>1. <<g>> \in Seq(Tokens)
    BY <1>4
  <2>2. Within(<<g>>, K)
    BY <1>4, WithinFew
  <2> QED
    BY <1>2, <1>4, <2>1, <2>2, WithinCat
<1> QED
  BY <1>1, <1>3, <1>4

(* The order of what is left to read.                                      *)
LEMMA NeverTail ==
    ASSUME NEW s \in Seq(Tokens), s # <<>>, NEW K, NEW L, Never(s, K, L)
    PROVE  Never(Tail(s), K, L)
<1>1. /\ Len(s) \in Nat \ {0} /\ DOMAIN s = 1..Len(s)
      /\ DOMAIN Tail(s) = 1..(Len(s) - 1)
      /\ \A i \in 1..(Len(s) - 1) : Tail(s)[i] = s[i+1]
  BY TailFacts
<1> SUFFICES ASSUME NEW i \in 1..(Len(s) - 1), NEW j \in 1..(Len(s) - 1),
                    i < j, Tail(s)[i] \in K
             PROVE  Tail(s)[j] \notin L
  BY <1>1 DEF Never
<1>2. /\ i + 1 \in 1..Len(s) /\ j + 1 \in 1..Len(s) /\ i + 1 < j + 1
      /\ s[i + 1] \in K
  BY <1>1
<1> QED
  BY <1>1, <1>2 DEF Never

(* After a token of K there is none of L.                                  *)
LEMMA NeverAfter ==
    ASSUME NEW s \in Seq(Tokens), s # <<>>, NEW K, NEW L, Never(s, K, L),
           Head(s) \in K
    PROVE  Within(Tail(s), Tokens \ L)
<1>1. /\ Len(s) \in Nat \ {0} /\ DOMAIN s = 1..Len(s) /\ Head(s) = s[1]
      /\ DOMAIN Tail(s) = 1..(Len(s) - 1)
      /\ \A i \in 1..(Len(s) - 1) : Tail(s)[i] = s[i+1]
  BY TailFacts
<1> SUFFICES ASSUME NEW i \in 1..(Len(s) - 1) PROVE Tail(s)[i] \in Tokens \ L
  BY <1>1 DEF Within
<1>2. i + 1 \in 1..Len(s) /\ 1 \in 1..Len(s) /\ 1 < i + 1
  BY <1>1
<1>3. s[i + 1] \in Tokens
  BY <1>2, SeqFacts
<1> QED
  BY <1>1, <1>2, <1>3 DEF Never

(* Two lines end to end keep their orders.                                 *)
LEMMA NeverCat ==
    ASSUME NEW s \in Seq(Tokens), NEW t \in Seq(Tokens), NEW K, NEW L,
           Never(s, K, L), Never(t, K, L),
           Within(s, Tokens \ K) \/ Within(t, Tokens \ L)
    PROVE  Never(s \o t, K, L)
<1>1. PICK u : u = s \o t
  OBVIOUS
<1>2. /\ DOMAIN u = 1..(Len(s) + Len(t)) /\ Len(s) \in Nat /\ Len(t) \in Nat
      /\ DOMAIN s = 1..Len(s) /\ DOMAIN t = 1..Len(t)
      /\ \A k \in 1..Len(s) : u[k] = s[k]
      /\ \A i \in 1..(Len(s) + Len(t)) :
            i \in 1..Len(s) \/ (i - Len(s) \in 1..Len(t)
                                /\ u[i] = t[i - Len(s)])
  BY <1>1, CatFacts
<1>3. SUFFICES ASSUME NEW i \in 1..(Len(s) + Len(t)),
                      NEW j \in 1..(Len(s) + Len(t)), i < j, u[i] \in K
               PROVE  u[j] \notin L
  BY <1>1, <1>2 DEF Never
<1>4. CASE i \in 1..Len(s) /\ j \in 1..Len(s)
  BY <1>2, <1>3, <1>4 DEF Never
<1>5. CASE i \in 1..Len(s) /\ j \notin 1..Len(s)
  <2>1. j - Len(s) \in 1..Len(t) /\ u[j] = t[j - Len(s)] /\ u[i] = s[i]
    BY <1>2, <1>5
  <2> QED
    BY <1>2, <1>3, <1>5, <2>1 DEF Within
<1>6. CASE i \notin 1..Len(s)
  <2>1. j \notin 1..Len(s)
    BY <1>2, <1>3, <1>6
  <2>2. /\ i - Len(s) \in 1..Len(t) /\ u[i] = t[i - Len(s)]
        /\ j - Len(s) \in 1..Len(t) /\ u[j] = t[j - Len(s)]
        /\ i - Len(s) < j - Len(s)
    BY <1>2, <1>3, <1>6, <2>1
  <2> QED
    BY <1>2, <1>3, <2>2 DEF Never
<1> QED
  BY <1>4, <1>5, <1>6

(* Both parts keep the order, and one has no token of K or the other none  *)
(* of L.                                                                   *)
LEMMA NeverParts ==
    ASSUME NEW s \in Seq(Tokens), NEW t \in Seq(Tokens), NEW K, NEW L,
           Never(s \o t, K, L)
    PROVE  /\ Never(s, K, L) /\ Never(t, K, L)
           /\ Within(s, Tokens \ K) \/ Within(t, Tokens \ L)
<1>1. PICK u : u = s \o t
  OBVIOUS
<1>2. /\ DOMAIN u = 1..(Len(s) + Len(t)) /\ Len(s) \in Nat /\ Len(t) \in Nat
      /\ DOMAIN s = 1..Len(s) /\ DOMAIN t = 1..Len(t)
      /\ \A k \in 1..Len(s) : u[k] = s[k]
      /\ \A k \in 1..Len(t) : u[Len(s) + k] = t[k]
  BY <1>1, CatFacts
<1>3. \A i \in 1..(Len(s) + Len(t)), j \in 1..(Len(s) + Len(t)) :
         i < j /\ u[i] \in K => u[j] \notin L
  BY <1>1, <1>2 DEF Never
<1>4. Never(s, K, L)
  <2> SUFFICES ASSUME NEW i \in 1..Len(s), NEW j \in 1..Len(s), i < j,
                      s[i] \in K
               PROVE  s[j] \notin L
    BY <1>2 DEF Never
  <2>1. i \in 1..(Len(s) + Len(t)) /\ j \in 1..(Len(s) + Len(t))
    BY <1>2
  <2> QED
    BY <1>2, <1>3, <2>1
<1>5. Never(t, K, L)
  <2> SUFFICES ASSUME NEW i \in 1..Len(t), NEW j \in 1..Len(t), i < j,
                      t[i] \in K
               PROVE  t[j] \notin L
    BY <1>2 DEF Never
  <2>1. /\ Len(s) + i \in 1..(Len(s) + Len(t))
        /\ Len(s) + j \in 1..(Len(s) + Len(t)) /\ Len(s) + i < Len(s) + j
    BY <1>2
  <2> QED
    BY <1>2, <1>3, <2>1
<1>6. ASSUME NEW i \in 1..Len(s), s[i] \in K PROVE Within(t, Tokens \ L)
  <2> SUFFICES ASSUME NEW j \in 1..Len(t) PROVE t[j] \in Tokens \ L
    BY <1>2 DEF Within
  <2>1. /\ i \in 1..(Len(s) + Len(t)) /\ i < Len(s) + j
        /\ Len(s) + j \in 1..(Len(s) + Len(t)) /\ t[j] \in Tokens
    BY <1>2, SeqFacts
  <2> QED
    BY <1>2, <1>3, <1>6, <2>1
<1>7. (\A i \in 1..Len(s) : s[i] \notin K) => Within(s, Tokens \ K)
  BY <1>2, SeqFacts DEF Within
<1> QED
  BY <1>4, <1>5, <1>6, <1>7

(* There is no order in one token.                                         *)
LEMMA NeverFew ==
    ASSUME NEW K, NEW L
    PROVE  Never(<<>>, K, L) /\ \A a : Never(<<a>>, K, L)
BY DEF Never

(* Damage puts nothing out of order.                                       *)
LEMMA NeverDamaged ==
    ASSUME NEW s \in Seq(Tokens), NEW t, Damages(s, t), NEW K, NEW L,
           Never(s, K, L),
           Token("junk", 0) \in K => Head(s) \in K,
           Head(s).kind = "#" /\ Token("#", 0) \in K => Head(s) \in K
    PROVE  Never(t, K, L)
<1>1. /\ s # <<>>
      /\ \/ t = Tail(s)
         \/ \E g \in Tokens : t = <<g>> \o Tail(s) /\ (g \in K => Head(s) \in K)
  BY DEF Damages
<1>2. Never(Tail(s), K, L) /\ Tail(s) \in Seq(Tokens)
  BY <1>1, NeverTail, TailFacts
<1>3. CASE t = Tail(s)
  BY <1>2, <1>3
<1>4. ASSUME NEW g \in Tokens, t = <<g>> \o Tail(s), g \in K => Head(s) \in K
      PROVE  Never(t, K, L)
  <2>1. Never(<<g>>, K, L) /\ <<g>> \in Seq(Tokens)
    BY NeverFew
  <2>2. g \notin K => Within(<<g>>, Tokens \ K)
    BY WithinFew
  <2>3. g \in K => Within(Tail(s), Tokens \ L)
    BY <1>1, <1>4, NeverAfter
  <2> QED
    BY <1>2, <1>4, <2>1, <2>2, <2>3, NeverCat
<1> QED
  BY <1>1, <1>3, <1>4

(* Frames.                                                                 *)
LEMMA FrameShape ==
    ASSUME NEW p \in 0..N
    PROVE  /\ Frame(p) \in Seq(Tokens) /\ Frame(p) # <<>>
           /\ Head(Frame(p)) = Token("$", 0)
           /\ Tail(Frame(p)) = <<Token("data", p), Token("#", p)>>
           /\ \A K : Within(Frame(p), K) <=> /\ Token("$", 0) \in K
                                             /\ Token("data", p) \in K
                                             /\ Token("#", p) \in K
           /\ Never(Frame(p), Ends, Tokens)
           /\ Never(Frame(p), Tokens, Kind("+"))
           /\ Never(Frame(p), Kind("+"), Ends)
<1>1. Frame(p) \in Seq(Tokens) /\ Frame(p) = <<Token("$", 0), Token("data", p),
                                               Token("#", p)>>
  BY TokenTypes DEF Frame
<1>2. /\ Frame(p) # <<>> /\ Head(Frame(p)) = Token("$", 0)
      /\ Tail(Frame(p)) = <<Token("data", p), Token("#", p)>>
  BY <1>1
<1>3. \A K : Within(Frame(p), K) <=> /\ Token("$", 0) \in K
                                     /\ Token("data", p) \in K
                                     /\ Token("#", p) \in K
  BY WithinFew DEF Frame
<1>4. PICK s : s = Frame(p)
  OBVIOUS
<1>5. /\ DOMAIN s = 1..3 /\ s[1].kind = "$" /\ s[2].kind = "data"
      /\ s[1] \in Tokens /\ s[2] \in Tokens /\ s[3] \in Tokens
      /\ s[3].kind = "#"
  <2>1. DOMAIN s = 1..3 /\ s[1] = Token("$", 0) /\ s[2] = Token("data", p)
        /\ s[3] = Token("#", p)
    BY <1>1, <1>4
  <2> QED
    BY <2>1, TokenTypes DEF Token
<1>6. \A i \in 1..3 : /\ s[i] \notin Kind("+")
                      /\ s[i] \in Ends => i = 3
  <2>1. \A i : i \in 1..3 <=> i = 1 \/ i = 2 \/ i = 3
    OBVIOUS
  <2> QED
    BY <1>5, <2>1, KindsOf
<1>7. /\ Never(s, Ends, Tokens) /\ Never(s, Tokens, Kind("+"))
      /\ Never(s, Kind("+"), Ends)
  BY <1>5, <1>6 DEF Never
<1> QED
  BY <1>1, <1>2, <1>3, <1>4, <1>7

-----------------------------------------------------------------------------
(* Payloads.                                                               *)

(* What is written carries requests, and answers to those executed.        *)
LEMMA PayloadFacts ==
    /\ Token("junk", 0) \in Payloads /\ Token("#", 0) \in Payloads
    /\ Ack \in Payloads /\ Nak \in Payloads
    /\ Token("junk", 0) \in Answers /\ Token("#", 0) \in Answers
    /\ Ack \in Answers /\ Nak \in Answers
    /\ \A p \in Requests : /\ Within(Frame(p), Payloads)
                           /\ executed[p] > 0 => Within(Frame(p), Answers)
<1>1. 0 \in 0..N /\ \A p \in Requests : p \in 0..N /\ p # 0
  BY RemoteLinkAssumption DEF Requests
<1>2. /\ Token("junk", 0) \in Payloads /\ Token("#", 0) \in Payloads
      /\ Ack \in Payloads /\ Nak \in Payloads
  BY <1>1, TokenTypes DEF Payloads, Token, Ack, Nak
<1>3. /\ Token("junk", 0) \in Answers /\ Token("#", 0) \in Answers
      /\ Ack \in Answers /\ Nak \in Answers
  BY <1>1, TokenTypes DEF Answers, Token, Ack, Nak
<1>4. ASSUME NEW p \in Requests PROVE Within(Frame(p), Payloads)
  <2>1. Token("$", 0) \in Payloads /\ Token("data", p) \in Payloads
        /\ Token("#", p) \in Payloads
    BY <1>1, TokenTypes DEF Payloads, Token
  <2> QED
    BY <1>1, <2>1, FrameShape
<1>5. ASSUME NEW p \in Requests, executed[p] > 0
      PROVE  Within(Frame(p), Answers)
  <2>1. Token("$", 0) \in Answers /\ Token("data", p) \in Answers
        /\ Token("#", p) \in Answers
    BY <1>1, <1>5, TokenTypes DEF Answers, Token
  <2> QED
    BY <1>1, <2>1, FrameShape
<1> QED
  BY <1>2, <1>3, <1>4, <1>5

(* The stub has a request in its hands, not just any payload.              *)
LEMMA RequestReal ==
    ASSUME Typed, Sourced, stub.at \in {"execute", "ack"}
    PROVE  Request \in Requests
<1>1. Request \in 0..N /\ stub.body = <<Token("data", Request)>>
  BY LineTyped
<1>2. Token("data", Request) \in Payloads
  BY <1>1, WithinFew DEF Sourced
<1>3. Token("data", Request).kind = "data"
      /\ Token("data", Request).value = Request
  BY DEF Token
<1> QED
  BY <1>1, <1>2, <1>3, RemoteLinkAssumption DEF Payloads, Requests

(* What was executed stays executed.                                       *)
LEMMA AnswersStay ==
    ASSUME Typed,
           \/ executed' = executed
           \/ \E r \in 0..N : executed' = [executed EXCEPT ![r] = @ + 1],
           NEW s, Within(s, Answers)
    PROVE  Within(s, Answers')
<1>1. executed \in [Requests -> Nat]
  BY DEF Typed, TypeOK
<1>2. \A r \in Requests : executed[r] > 0 => executed'[r] > 0
  BY <1>1
<1>3. ASSUME NEW t \in Answers PROVE t \in Answers'
  <2>1. t \in Tokens /\ (t.kind = "data" => t.value # 0 /\ executed[t.value] > 0)
    BY <1>3 DEF Answers
  <2>2. t.kind = "data" => t.value \in Requests
    BY <2>1, KindsOf, RemoteLinkAssumption DEF Requests
  <2> QED
    BY <1>2, <2>1, <2>2 DEF Answers
<1> QED
  BY <1>3 DEF Within

(* A step of gdb keeps the payloads if what it writes and reads has good   *)
(* ones.                                                                   *)
LEMMA GdbSourced ==
    ASSUME Typed, Sourced, Others, Within(up', Payloads),
           Within(down', Answers), Within(gdb'.body, Answers),
           gdb'.at # "frame" => gdb'.body = <<>>,
           gdb'.at # "idle" => gdb'.request # 0
    PROVE  Sourced'
<1>1. stub' = stub /\ executed' = executed /\ Request' = Request
      /\ Answers' = Answers /\ Payloads' = Payloads
  BY DEF Others, Request, Answers, Payloads
<1>2. /\ Within(stub.buf, Payloads) /\ Within(stub.body, Payloads)
      /\ stub.at = "ack" => executed[Request] > 0
  BY DEF Sourced
<1>3. /\ Within(stub.buf, Payloads)' /\ Within(stub.body, Payloads)'
  BY <1>1, <1>2 DEF Within
<1>4. Within(up, Payloads)' /\ Within(down, Answers)'
      /\ Within(gdb.body, Answers)'
  BY <1>1 DEF Within
<1> QED
  BY <1>1, <1>2, <1>3, <1>4 DEF Sourced

(* gdb writes its requests only.                                           *)
LEMMA GdbStepSourced ==
    ASSUME Typed, Sourced, GdbStep
    PROVE  Sourced'
<1>1. /\ down \in Seq(Tokens) /\ up \in Seq(Tokens)
      /\ gdb.body \in Seq(Tokens) /\ gdb.request \in 0..N
  BY LineTyped
<1>2. /\ Within(up, Payloads) /\ Within(down, Answers)
      /\ Within(gdb.body, Answers)
      /\ gdb.at # "frame" => gdb.body = <<>>
      /\ gdb.at # "idle" => gdb.request # 0
  BY DEF Sourced
<1>3. down # <<>> => /\ Within(Tail(down), Answers) /\ Head(down) \in Answers
                     /\ Head(down) \in Tokens
  BY <1>1, <1>2, WithinTail
<1>4. Took \/ Waited => Within(down', Answers)
  BY <1>2, <1>3 DEF Took, Waited
<1>5. Within(<<>>, Answers)
  BY WithinFew
<1>6. ASSUME NEW t \in Seq(Tokens), Within(t, Payloads)
      PROVE  Within(up \o t, Payloads)
  BY <1>1, <1>2, <1>6, WithinCat
<1>7. \A r \in Requests : Within(Frame(r), Payloads)
                          /\ Frame(r) \in Seq(Tokens)
  BY PayloadFacts, TokenTypes, RemoteLinkAssumption DEF Requests
<1>8. gdb.request # 0 => gdb.request \in Requests
  BY <1>1, RemoteLinkAssumption DEF Requests
<1>9. /\ Within(<<Ack>>, Payloads) /\ Within(<<Nak>>, Payloads)
      /\ Within(<<Nak, Ack>>, Payloads)
  BY PayloadFacts, WithinFew
<1>10. CASE putpkt
  <2>1. /\ Others /\ gdb'.at = "ack" /\ gdb'.request = gdb.request + 1
        /\ gdb'.body = gdb.body /\ gdb.at = "idle"
        /\ down' = down /\ gdb.request + 1 \in Requests
        /\ up' = up \o Frame(gdb.request + 1)
    BY <1>10, PutpktDoes
  <2>2. Within(up', Payloads)
    BY <1>6, <1>7, <2>1
  <2>3. gdb'.request # 0
    BY <2>1, RemoteLinkAssumption DEF Requests
  <2> QED
    BY <1>2, <2>1, <2>2, <2>3, GdbSourced
<1>11. CASE Acked
  BY <1>2, <1>3, <1>11, AckedDoes, GdbSourced
<1>12. CASE Resend
  <2>1. /\ Others /\ gdb.at = "ack"
        /\ Took \/ Waited
        /\ gdb'.request = gdb.request /\ gdb'.body = gdb.body
        /\ gdb'.at \in {"ack", "reply"}
        /\ up' = up \/ up' = up \o Frame(gdb.request)
    BY <1>12, ResendDoes
  <2>2. Within(up', Payloads)
    BY <1>2, <1>6, <1>7, <1>8, <2>1
  <2> QED
    BY <1>2, <1>4, <2>1, <2>2, GdbSourced
<1>13. CASE OldReply
  BY <1>2, <1>3, <1>13, OldReplyDoes, GdbSourced
<1>14. CASE Ignored
  BY <1>2, <1>3, <1>14, IgnoredDoes, GdbSourced
<1>15. CASE Skipped
  <2>1. /\ Others /\ gdb.at = "skip"
        /\ Took \/ Waited
        /\ gdb'.request = gdb.request /\ gdb'.body = gdb.body
        /\ gdb'.at = "ack" /\ up' = up \o <<Ack>>
    BY <1>15, SkippedDoes
  <2>2. Within(up', Payloads)
    BY <1>6, <1>9, <2>1, TokenTypes
  <2> QED
    BY <1>2, <1>4, <2>1, <2>2, GdbSourced
<1>16. CASE ReplyStarts
  BY <1>2, <1>3, <1>5, <1>16, ReplyStartsDoes, GdbSourced
<1>17. CASE ReplyGoesOn
  <2>1. Within(Append(gdb.body, Head(down)), Answers)
    BY <1>1, <1>2, <1>3, <1>17, ReplyGoesOnDoes, WithinAppend
  <2> QED
    BY <1>2, <1>3, <1>17, <2>1, ReplyGoesOnDoes, GdbSourced
<1>18. CASE ReplyEnds
  <2>1. /\ Others /\ gdb'.at = "idle" /\ gdb'.body = <<>>
        /\ down # <<>> /\ down' = Tail(down) /\ up' = up \o <<Ack>>
    BY <1>18, ReplyEndsDoes
  <2>2. Within(up', Payloads)
    BY <1>6, <1>9, <2>1, TokenTypes
  <2> QED
    BY <1>3, <1>5, <2>1, <2>2, GdbSourced
<1>19. CASE Retry
  <2>1. /\ Others /\ gdb'.body = <<>>
        /\ Took \/ Waited
        /\ gdb'.request = gdb.request /\ gdb.at # "idle"
        /\ gdb'.at \in {"reply", "idle"}
        /\ up' = up \o <<Nak>> \/ up' = up \o <<Nak, Ack>>
    BY <1>19, RetryDoes
  <2>2. Within(up', Payloads)
    BY <1>6, <1>9, <2>1, TokenTypes
  <2> QED
    BY <1>2, <1>4, <1>5, <2>1, <2>2, GdbSourced
<1>20. CASE Unframed
  <2>1. PICK v \in 0..N : v = Head(down).value
    BY <1>20, UnframedDoes
  <2>2. /\ UNCHANGED <<gdb, stub, up, executed>> /\ down # <<>>
        /\ down' = Signals(v) \o Tail(down)
    BY <1>20, <2>1, UnframedDoes
  <2>3. Within(Signals(v), Answers) /\ Signals(v) \in Seq(Tokens)
    BY PayloadFacts, SignalsTyped DEF Within, Ack, Nak
  <2>4. Within(down', Answers)
    BY <1>1, <1>3, <2>2, <2>3, TailFacts, WithinCat
  <2>5. Payloads' = Payloads /\ Answers' = Answers /\ Request' = Request
    BY <2>2 DEF Payloads, Answers, Request
  <2>6. Within(down, Answers)'
    BY <2>4, <2>5 DEF Within
  <2> QED
    BY <2>2, <2>5, <2>6 DEF Sourced, Within
<1> QED
  BY <1>10, <1>11, <1>12, <1>13, <1>14, <1>15, <1>16, <1>17, <1>18, <1>19,
     <1>20 DEF GdbStep

(* The same for the stub and the line.                                     *)
LEMMA StubStepSourced ==
    ASSUME Typed, Sourced, StubStep
    PROVE  Sourced'
<1>1. /\ down \in Seq(Tokens) /\ up \in Seq(Tokens)
      /\ stub.body \in Seq(Tokens) /\ stub.buf \in Seq(Tokens)
  BY LineTyped
<1>2. /\ Within(stub.buf, Payloads) /\ Within(stub.body, Payloads)
      /\ Within(up, Payloads)
      /\ Within(down, Answers) /\ Within(gdb.body, Answers)
      /\ stub.at = "ack" => executed[Request] > 0
      /\ gdb.at # "frame" => gdb.body = <<>>
      /\ gdb.at # "idle" => gdb.request # 0
  BY DEF Sourced
<1>3. Within(<<>>, Payloads)
  BY WithinFew
<1>4. ASSUME StubOthers, Within(stub'.buf, Payloads),
             Within(stub'.body, Payloads), Within(up', Payloads),
             Within(down', Answers'), Within(gdb.body, Answers'),
             stub'.at = "ack" => executed'[Request'] > 0
      PROVE  Sourced'
  <2>1. gdb' = gdb /\ Payloads' = Payloads
    BY <1>4 DEF StubOthers, Payloads
  <2>2. /\ Within(stub.buf, Payloads)' /\ Within(stub.body, Payloads)'
        /\ Within(up, Payloads)'
    BY <1>4, <2>1 DEF Within
  <2>3. Within(down, Answers)' /\ Within(gdb.body, Answers)'
    BY <1>4, <2>1 DEF Within
  <2> QED
    BY <1>2, <1>4, <2>1, <2>2, <2>3 DEF Sourced
<1>5. executed' = executed => /\ Within(down, Answers') /\ Within(gdb.body, Answers')
                              /\ Answers' = Answers
  BY <1>2 DEF Answers
<1>6. stub.buf # <<>> => /\ Within(Tail(stub.buf), Payloads)
                         /\ Head(stub.buf) \in Payloads
                         /\ Head(stub.buf) \in Tokens
  BY <1>1, <1>2, WithinTail
<1>7. Within(<<Ack>>, Answers) /\ Within(<<Nak>>, Answers)
  BY PayloadFacts, WithinFew
<1>8. CASE Fill
  <2>1. /\ StubOthers /\ executed' = executed /\ down' = down
        /\ stub'.at = stub.at /\ stub'.body = stub.body
        /\ stub.at \in {"hunt", "frame"}
        /\ stub'.buf \o up' = up /\ Typed'
    BY <1>8, FillDoes
  <2>2. stub'.buf \in Seq(Tokens) /\ up' \in Seq(Tokens)
    BY <2>1 DEF Typed, TypeOK
  <2>3. Within(stub'.buf, Payloads) /\ Within(up', Payloads)
    BY <1>2, <2>1, <2>2, WithinCat
  <2> QED
    BY <1>2, <1>4, <1>5, <2>1, <2>3
<1>9. CASE Hunt
  <2>1. /\ StubOthers /\ executed' = executed /\ down' = down /\ up' = up
        /\ stub.buf # <<>> /\ stub'.at # "ack"
        /\ stub'.buf = Tail(stub.buf) /\ stub'.body = <<>>
    BY <1>9, HuntDoes
  <2> QED
    BY <1>2, <1>3, <1>4, <1>5, <1>6, <2>1
<1>10. CASE RequestGoesOn
  <2>1. /\ StubOthers /\ executed' = executed /\ down' = down /\ up' = up
        /\ stub.buf # <<>> /\ stub'.at = "frame"
        /\ stub'.buf = Tail(stub.buf)
        /\ stub'.body = Append(stub.body, Head(stub.buf))
    BY <1>10, RequestGoesOnDoes
  <2>2. Within(stub'.body, Payloads)
    BY <1>1, <1>2, <1>6, <2>1, WithinAppend
  <2> QED
    BY <1>2, <1>4, <1>5, <1>6, <2>1, <2>2
<1>11. CASE RequestEnds
  <2>1. /\ StubOthers /\ executed' = executed /\ up' = up
        /\ stub.buf # <<>> /\ stub'.at # "ack"
        /\ stub'.buf = Tail(stub.buf)
        /\ stub'.body = stub.body \/ stub'.body = <<>>
        /\ down' = down \o <<Ack>> \/ down' = down \o <<Nak>>
    BY <1>11, RequestEndsDoes
  <2>2. Within(down \o <<Ack>>, Answers) /\ Within(down \o <<Nak>>, Answers)
    BY <1>1, <1>2, <1>7, TokenTypes, WithinCat
  <2>3. Within(down', Answers)
    BY <2>1, <2>2
  <2> QED
    BY <1>2, <1>3, <1>4, <1>5, <1>6, <2>1, <2>3
<1>12. CASE Execute
  <2>1. /\ StubOthers /\ up' = up /\ stub.at = "execute"
        /\ stub'.buf = stub.buf /\ stub'.body = stub.body
        /\ Request' = Request /\ Request \in 0..N
        /\ executed' = [executed EXCEPT ![Request] = @ + 1]
        /\ down' = down \o Frame(Request)
    BY <1>12, ExecuteDoes
  <2>2. PICK r \in Requests : r = Request
    BY <2>1, RequestReal
  <2>3. executed'[r] > 0
    <3>1. executed \in [Requests -> Nat]
      BY DEF Typed, TypeOK
    <3> QED
      BY <2>1, <2>2, <3>1
  <2>4. Within(down, Answers') /\ Within(gdb.body, Answers')
    BY <1>2, <2>1, <2>2, AnswersStay, RemoteLinkAssumption DEF Requests
  <2>5. Within(Frame(r), Answers') /\ Frame(r) \in Seq(Tokens)
    <3>1. r \in 0..N /\ r # 0
      BY RemoteLinkAssumption DEF Requests
    <3>2. Token("$", 0) \in Answers' /\ Token("data", r) \in Answers'
          /\ Token("#", r) \in Answers'
      BY <2>3, <3>1, TokenTypes DEF Answers, Token
    <3> QED
      BY <3>1, <3>2, FrameShape
  <2>6. Within(down', Answers')
    <3>1. Within(down \o Frame(r), Answers')
      BY <1>1, <2>4, <2>5, WithinCat
    <3> QED
      BY <2>1, <2>2, <3>1
  <2> QED
    BY <1>2, <1>4, <2>1, <2>2, <2>3, <2>4, <2>6
<1>13. CASE ReadAck
  <2>1. /\ StubOthers /\ executed' = executed
        /\ stub.at = "ack" /\ up # <<>> /\ up' = Tail(up)
        /\ \/ /\ stub'.at = "hunt" /\ stub'.body = <<>>
              /\ stub'.buf = stub.buf /\ down' = down
           \/ /\ stub' = stub /\ Request' = Request
              /\ down' = down \o Frame(Request)
    BY <1>13, ReadAckDoes
  <2>2. Within(up', Payloads)
    BY <1>1, <1>2, <2>1, WithinTail
  <2>3. PICK r \in Requests : r = Request
    BY <2>1, RequestReal
  <2>4. Within(Frame(r), Answers) /\ Frame(r) \in Seq(Tokens)
    BY <1>2, <2>1, <2>3, PayloadFacts, TokenTypes, RemoteLinkAssumption
       DEF Requests
  <2>5. Within(down', Answers)
    <3>1. Within(down \o Frame(r), Answers)
      BY <1>1, <1>2, <2>4, WithinCat
    <3> QED
      BY <1>2, <2>1, <2>3, <3>1
  <2> QED
    BY <1>2, <1>3, <1>4, <1>5, <2>1, <2>2, <2>5
<1>14. CASE RequestAsAck
  <2>1. /\ StubOthers /\ executed' = executed
        /\ stub.at = "ack" /\ up # <<>> /\ up' = Tail(up)
        /\ stub'.at = "hunt" /\ stub'.body = <<>> /\ stub'.buf = stub.buf
        /\ down' = down \o Frame(Request)
    BY <1>14, RequestAsAckDoes
  <2>2. Within(up', Payloads)
    BY <1>1, <1>2, <2>1, WithinTail
  <2>3. PICK r \in Requests : r = Request
    BY <2>1, RequestReal
  <2>4. Within(Frame(r), Answers) /\ Frame(r) \in Seq(Tokens)
    BY <1>2, <2>1, <2>3, PayloadFacts, TokenTypes, RemoteLinkAssumption
       DEF Requests
  <2>5. Within(down', Answers)
    <3>1. Within(down \o Frame(r), Answers)
      BY <1>1, <1>2, <2>4, WithinCat
    <3> QED
      BY <2>1, <2>3, <3>1
  <2> QED
    BY <1>2, <1>3, <1>4, <1>5, <2>1, <2>2, <2>5
<1> QED
  BY <1>8, <1>9, <1>10, <1>11, <1>12, <1>13, <1>14 DEF StubStep

(* Neither does the line make payloads up.                                 *)
LEMMA SourcedKeeps ==
    ASSUME Typed, Sourced, [Next]_vars
    PROVE  Sourced'
<1>1. CASE Fault
  <2>1. /\ UNCHANGED <<gdb, stub, executed>>
        /\ \/ Damages(up, up') /\ down' = down
           \/ Damages(down, down') /\ up' = up
    BY <1>1, FaultDoes
  <2>2. /\ Within(up, Payloads) /\ Within(down, Answers)
        /\ up \in Seq(Tokens) /\ down \in Seq(Tokens)
    BY LineTyped DEF Sourced
  <2>3. Within(up', Payloads) /\ Within(down', Answers)
    <3>1. /\ Token("junk", 0) \in Payloads /\ Token("#", 0) \in Payloads
          /\ Token("junk", 0) \in Answers /\ Token("#", 0) \in Answers
      BY PayloadFacts
    <3>2. Damages(up, up') => Within(up', Payloads)
      BY <2>2, <3>1, WithinDamaged
    <3>3. Damages(down, down') => Within(down', Answers)
      BY <2>2, <3>1, WithinDamaged
    <3> QED
      BY <2>1, <2>2, <3>2, <3>3
  <2>4. Payloads' = Payloads /\ Answers' = Answers /\ Request' = Request
    BY <2>1 DEF Payloads, Answers, Request
  <2>5. Within(up, Payloads)' /\ Within(down, Answers)'
    BY <2>3, <2>4 DEF Within
  <2>6. /\ Within(stub.buf, Payloads)' /\ Within(stub.body, Payloads)'
        /\ Within(gdb.body, Answers)'
    BY <2>1, <2>4 DEF Within, Sourced
  <2> QED
    BY <2>1, <2>4, <2>5, <2>6 DEF Sourced
<1>2. CASE UNCHANGED vars
  BY <1>2 DEF vars, Sourced, Within, Payloads, Answers, Request
<1> QED
  BY <1>1, <1>2, GdbStepSourced, StubStepSourced DEF Next

(* Nothing is on the line at first.                                        *)
LEMMA InitSourced == Init => Sourced
BY WithinFew DEF Init, Sourced

-----------------------------------------------------------------------------
(* Every step leads from one situation to another.                         *)

(* Where one of two kinds is missing there is no order to break.           *)
LEMMA NeverNone ==
    ASSUME NEW s \in Seq(Tokens), NEW K, NEW L,
           \/ Within(s, Tokens \ K)
           \/ Within(s, Tokens \ L)
           \/ Len(s) <= 1
    PROVE  Never(s, K, L)
<1>1. DOMAIN s = 1..Len(s) /\ Len(s) \in Nat
  BY SeqFacts
<1> QED
  BY <1>1 DEF Within, Never

(* Without an end no frame is whole.                                       *)
LEMMA NoEndFacts ==
    ASSUME NEW s \in Seq(Tokens), NoEnd(s)
    PROVE  /\ Within(s, Tokens \ Ends) /\ EndLast(s)
           /\ \A q : Within(s, EndsFor(q))
           /\ \A K : Never(s, K, Ends)
<1>1. Within(s, Tokens \ Ends)
  <2>1. \A t \in NotKind({"#"}) : t \in Tokens \ Ends
    BY KindsOf DEF NotKind
  <2> QED
    BY <2>1, WithinMore DEF NoEnd
<1>2. EndLast(s)
  BY <1>1, NeverNone DEF EndLast
<1>3. ASSUME NEW q PROVE Within(s, EndsFor(q))
  <2>1. \A t \in NotKind({"#"}) : t \in EndsFor(q)
    BY DEF NotKind, EndsFor
  <2> QED
    BY <2>1, WithinMore DEF NoEnd
<1>4. ASSUME NEW K PROVE Never(s, K, Ends)
  BY <1>1, NeverNone
<1> QED
  BY <1>1, <1>2, <1>3, <1>4

(* What is put on the line behind what is there.                           *)
LEMMA Behind ==
    ASSUME NEW s \in Seq(Tokens), NEW q \in Requests
    PROVE  /\ s \o Frame(q) \in Seq(Tokens) /\ s \o Frame(q) # <<>>
           /\ NoEnd(s) => /\ EndLast(s \o Frame(q))
                          /\ Within(s \o Frame(q), EndsFor(q))
           /\ Within(s, EndsFor(q)) => Within(s \o Frame(q), EndsFor(q))
           /\ Len(s) <= 1 => Never(s \o Frame(q), Tokens, Kind("+"))
           /\ s = <<>> => Never(s \o Frame(q), Kind("+"), Ends)
           /\ NoAck(s) => NoAck(s \o Frame(q))
<1>1. q \in 0..N /\ Frame(q) \in Seq(Tokens) /\ Frame(q) # <<>>
      /\ Len(Frame(q)) = 3
  BY FrameShape, TokenTypes, RemoteLinkAssumption DEF Requests
<1>2. s \o Frame(q) \in Seq(Tokens) /\ s \o Frame(q) # <<>>
  <2>1. PICK u : u = s \o Frame(q)
    OBVIOUS
  <2>2. /\ s \o Frame(q) \in Seq(Tokens) /\ Len(s) \in Nat
        /\ Len(s \o Frame(q)) = Len(s) + Len(Frame(q))
    BY <1>1, CatFacts
  <2>3. u \in Seq(Tokens) /\ Len(u) = Len(s) + 3
    BY <1>1, <2>1, <2>2
  <2>4. u # <<>>
    BY <2>2, <2>3, SeqFacts
  <2> QED
    BY <2>1, <2>3, <2>4
<1>3. Within(Frame(q), EndsFor(q))
  <2>1. Token("$", 0) \in EndsFor(q) /\ Token("data", q) \in EndsFor(q)
        /\ Token("#", q) \in EndsFor(q)
    BY <1>1, TokenTypes DEF EndsFor, Token
  <2> QED
    BY <1>1, <2>1, FrameShape
<1>4. Within(Frame(q), Tokens \ Kind("+")) /\ NoAck(Frame(q))
  <2>1. /\ Token("$", 0) \in NotKind({"+", "-"})
        /\ Token("data", q) \in NotKind({"+", "-"})
        /\ Token("#", q) \in NotKind({"+", "-"})
    BY <1>1, TokenTypes DEF NotKind, Token
  <2>2. NoAck(Frame(q))
    BY <1>1, <2>1, FrameShape DEF NoAck
  <2>3. \A t \in NotKind({"+", "-"}) : t \in Tokens \ Kind("+")
    BY KindsOf DEF NotKind
  <2> QED
    BY <2>2, <2>3, WithinMore DEF NoAck
<1>5. ASSUME NoEnd(s)
      PROVE  EndLast(s \o Frame(q)) /\ Within(s \o Frame(q), EndsFor(q))
  BY <1>1, <1>3, <1>5, NoEndFacts, NeverCat, FrameShape, WithinCat DEF EndLast
<1>6. ASSUME Len(s) <= 1 PROVE Never(s \o Frame(q), Tokens, Kind("+"))
  <2>1. Never(s, Tokens, Kind("+")) /\ Never(Frame(q), Tokens, Kind("+"))
    BY <1>1, <1>6, NeverNone, FrameShape
  <2> QED
    BY <1>1, <1>4, <2>1, NeverCat
<1>7. ASSUME s = <<>> PROVE Never(s \o Frame(q), Kind("+"), Ends)
  <2>1. Within(s, Tokens \ Kind("+")) /\ Never(s, Kind("+"), Ends)
    BY <1>7, WithinFew, NeverFew
  <2> QED
    BY <1>1, <2>1, NeverCat, FrameShape
<1>8. NoAck(s) => NoAck(s \o Frame(q))
  BY <1>1, <1>4, WithinCat DEF NoAck
<1>9. Within(s, EndsFor(q)) => Within(s \o Frame(q), EndsFor(q))
  BY <1>1, <1>3, WithinCat
<1> QED
  BY <1>2, <1>5, <1>6, <1>7, <1>8, <1>9

(* A '+' or '-' behind what is on the line.                                *)
LEMMA AcksBehind ==
    ASSUME NEW s \in Seq(Tokens)
    PROVE  /\ s \o <<Ack>> \in Seq(Tokens) /\ s \o <<Ack>> # <<>>
           /\ NoEnd(s) => /\ NoEnd(s \o <<Ack>>) /\ NoEnd(s \o <<Nak>>)
                          /\ NoEnd(s \o <<Nak, Ack>>)
           /\ \A q : Within(s, EndsFor(q)) => Within(s \o <<Ack>>, EndsFor(q))
           /\ Never(s, Kind("+"), Ends) => Never(s \o <<Ack>>, Kind("+"), Ends)
<1>1. /\ <<Ack>> \in Seq(Tokens) /\ <<Nak>> \in Seq(Tokens)
      /\ <<Nak, Ack>> \in Seq(Tokens) /\ Len(<<Ack>>) = 1
      /\ Ack \in Tokens /\ Nak \in Tokens /\ Ack.kind = "+" /\ Nak.kind = "-"
  BY TokenTypes DEF Ack, Nak, Token
<1>2. s \o <<Ack>> \in Seq(Tokens) /\ s \o <<Ack>> # <<>>
  <2>1. PICK u : u = s \o <<Ack>>
    OBVIOUS
  <2>2. u \in Seq(Tokens) /\ Len(u) = Len(s) + 1 /\ Len(s) \in Nat
    BY <1>1, <2>1, CatFacts
  <2>3. u # <<>>
    BY <2>2, SeqFacts
  <2> QED
    BY <2>1, <2>2, <2>3
<1>3. NoEnd(<<Ack>>) /\ NoEnd(<<Nak>>) /\ NoEnd(<<Nak, Ack>>)
  <2>1. Ack \in NotKind({"#"}) /\ Nak \in NotKind({"#"})
    BY <1>1 DEF NotKind
  <2> QED
    BY <2>1, WithinFew DEF NoEnd
<1>4. NoEnd(s) => /\ NoEnd(s \o <<Ack>>) /\ NoEnd(s \o <<Nak>>)
                  /\ NoEnd(s \o <<Nak, Ack>>)
  BY <1>1, <1>3, WithinCat DEF NoEnd
<1>5. /\ Within(<<Ack>>, Tokens \ Ends) /\ Never(<<Ack>>, Kind("+"), Ends)
      /\ \A q : Within(<<Ack>>, EndsFor(q))
  BY <1>1, <1>3, NoEndFacts
<1>6. \A q : Within(s, EndsFor(q)) => Within(s \o <<Ack>>, EndsFor(q))
  BY <1>1, <1>5, WithinCat
<1>7. Never(s, Kind("+"), Ends) => Never(s \o <<Ack>>, Kind("+"), Ends)
  BY <1>1, <1>5, NeverCat
<1> QED
  BY <1>2, <1>4, <1>6, <1>7

(* Reading from the line.                                                  *)
LEMMA LessToRead ==
    ASSUME NEW s \in Seq(Tokens), s # <<>>
    PROVE  /\ Tail(s) \in Seq(Tokens) /\ Head(s) \in Tokens
           /\ NoEnd(s) => NoEnd(Tail(s)) /\ Head(s).kind # "#"
           /\ NoAck(s) => NoAck(Tail(s)) /\ Head(s).kind \notin {"+", "-"}
           /\ EndLast(s) => /\ EndLast(Tail(s))
                            /\ Head(s).kind = "#" => Tail(s) = <<>>
           /\ \A K : Within(s, K) => Within(Tail(s), K) /\ Head(s) \in K
           /\ \A K, L : Never(s, K, L) => Never(Tail(s), K, L)
<1>1. Tail(s) \in Seq(Tokens) /\ Head(s) \in Tokens
  BY TailFacts
<1>2. \A K : Within(s, K) => Within(Tail(s), K) /\ Head(s) \in K
  BY WithinTail
<1>3. \A K, L : Never(s, K, L) => Never(Tail(s), K, L)
  BY NeverTail
<1>4. NoEnd(s) => NoEnd(Tail(s)) /\ Head(s).kind # "#"
  BY <1>1, <1>2, KindsOf DEF NoEnd
<1>5. NoAck(s) => NoAck(Tail(s)) /\ Head(s).kind \notin {"+", "-"}
  BY <1>1, <1>2, KindsOf DEF NoAck
<1>6. ASSUME EndLast(s), Head(s).kind = "#" PROVE Tail(s) = <<>>
  <2>1. PICK t \in Seq(Tokens) : t = Tail(s)
    BY <1>1
  <2>2. Within(t, Tokens \ Tokens)
    BY <1>1, <1>6, <2>1, KindsOf, NeverAfter DEF EndLast
  <2>3. \A i \in 1..Len(t) : FALSE
    BY <2>2, SeqFacts DEF Within
  <2>4. Len(t) = 0
    BY <2>3, SeqFacts
  <2> QED
    BY <2>1, <2>4, SeqFacts
<1> QED
  BY <1>1, <1>2, <1>3, <1>4, <1>5, <1>6 DEF EndLast

(* No timeout is early any more when the next state is reliable, and gdb   *)
(* meets no sign of a payload.                                             *)
LEMMA CausesGrow ==
    ASSUME Typed, [Next]_vars, Reliable'
    PROVE  /\ Reliable /\ early = 0 /\ early' = 0 /\ ~Unframed
           /\ faults \in 0..2 /\ faults' \in 0..2 /\ faults' >= faults
<1>1. faults \in Nat /\ early \in Nat /\ mistaken \in Nat
  BY LineTyped DEF Typed, TypeOK
<1>2. /\ faults' = faults \/ faults' = faults + 1
      /\ early' = early \/ early' = early + 1
      /\ mistaken' = mistaken \/ Unframed
  <2>1. CASE GdbStep
    <3>1. CASE Unframed
      BY <3>1 DEF Unframed
    <3>2. CASE ~Unframed
      <4>1. Others /\ (early' = early \/ early' = early + 1)
        BY <2>1, <3>2, PutpktDoes, AckedDoes, ResendDoes, OldReplyDoes,
           IgnoredDoes, SkippedDoes, ReplyStartsDoes, ReplyGoesOnDoes,
           ReplyEndsDoes, RetryDoes
           DEF GdbStep, Took, Waited
      <4> QED
        BY <4>1 DEF Others
    <3> QED
      BY <3>1, <3>2
  <2>2. CASE StubStep
    BY <2>2 DEF StubStep, Fill, Hunt, RequestGoesOn, RequestEnds, Execute,
       ReadAck, RequestAsAck, StubOthers
  <2>3. CASE Fault
    BY <2>3, FaultDoes
  <2>4. CASE UNCHANGED vars
    BY <2>4 DEF vars
  <2> QED
    BY <2>1, <2>2, <2>3, <2>4 DEF Next
<1>3. early' = 0 /\ faults' < 3 /\ mistaken' = 0
  BY DEF Reliable, MAX_TRIES
<1>4. ~Unframed
  <2> SUFFICES ASSUME Unframed PROVE FALSE
    OBVIOUS
  <2>1. PICK n \in Nat : n = Len(Signs[Head(down).value])
    BY UnframedDoes, RemoteLinkAssumption
  <2>2. n > 0 /\ mistaken' = mistaken + n
    BY <2>1, UnframedDoes
  <2> QED
    BY <1>1, <1>3, <2>2
<1>5. early = 0 /\ faults \in 0..2 /\ faults' \in 0..2 /\ faults' >= faults
  BY <1>1, <1>2, <1>3
<1> QED
  BY <1>2, <1>3, <1>4, <1>5 DEF Reliable, MAX_TRIES

(* What a step of gdb leaves alone.                                        *)
LEMMA GdbStays ==
    ASSUME Others
    PROVE  /\ stub' = stub /\ faults' = faults /\ executed' = executed
           /\ Request' = Request /\ Reading' = Reading
           /\ NoEnd(stub.buf)' = NoEnd(stub.buf)
           /\ EndLast(stub.buf)' = EndLast(stub.buf)
BY DEF Others, Request, Reading, NoEnd, EndLast, NotKind, Ends, Kind, Tokens,
       Within, Never

(* The steps of gdb: the call begins with the request on the line.         *)
LEMMA PutpktSituated ==
    ASSUME Typed, Sourced, Reliable, Situation, putpkt
    PROVE  Situation'
<1>1. PICK q \in Requests : q = gdb.request + 1
  BY PutpktDoes
<1>2. /\ gdb.at = "idle" /\ gdb'.at = "ack" /\ gdb'.request = q
      /\ gdb'.tcount = 0 /\ down' = down /\ up' = up \o Frame(q) /\ Others
  BY <1>1, PutpktDoes
<1>3. /\ NoEnd(stub.buf) /\ NoEnd(up) /\ NoAck(down)
      /\ \/ Reading /\ down = <<>>
         \/ stub.at = "ack" /\ down = <<>> /\ Len(up) <= 1
         \/ stub.at = "ack" /\ up = <<>>
  BY <1>2 DEF Situation, Rest
<1>4. /\ up \in Seq(Tokens) /\ down \in Seq(Tokens)
      /\ stub.buf \in Seq(Tokens) /\ faults \in Nat
  BY LineTyped
<1>5. /\ EndLast(up') /\ Within(up', EndsFor(q)) /\ up' # <<>>
      /\ Len(up) <= 1 => Never(up', Tokens, Kind("+"))
      /\ up = <<>> => Never(up', Kind("+"), Ends)
  BY <1>2, <1>3, <1>4, Behind
<1>6. /\ EndLast(stub.buf) /\ Within(stub.buf, EndsFor(q))
  BY <1>3, <1>4, NoEndFacts
<1>7. stub' = stub /\ faults' = faults /\ Request' = Request /\ Reading' = Reading
  BY <1>2, GdbStays
<1>8. CASE Reading /\ down = <<>>
  <2>1. Asking'
    BY <1>2, <1>3, <1>5, <1>6, <1>7, <1>8 DEF Asking, EndLast, NoEnd
  <2> QED
    BY <1>2, <2>1 DEF Situation
<1>9. CASE stub.at = "ack" /\ (up = <<>> \/ (down = <<>> /\ Len(up) <= 1))
  <2>1. ~Stuck'
    BY <1>5 DEF Stuck
  <2>2. gdb'.tcount <= faults'
    BY <1>2, <1>4, <1>7
  <2>3. Skipping'
    BY <1>2, <1>3, <1>5, <1>7, <1>9, <2>1, <2>2
       DEF Skipping, EndLast, NoEnd, NoAck
  <2> QED
    BY <1>2, <2>3 DEF Situation
<1> QED
  BY <1>3, <1>8, <1>9

(* The '+' comes first.                                                    *)
LEMMA AcceptedHears ==
    ASSUME Typed, Accepted
    PROVE  /\ down # <<>> /\ Head(down) = Ack /\ Head(down).kind = "+"
           /\ \/ stub.at = "execute" /\ Tail(down) = <<>>
              \/ stub.at = "ack" /\ Tail(down) = Frame(gdb.request)
<1>1. PICK f \in Seq(Tokens) : f = Frame(Request)
  BY LineTyped, TokenTypes DEF Accepted
<1>2. PICK u : u = <<Ack>> \o f
  OBVIOUS
<1>3. u # <<>> /\ Head(u) = Ack /\ Tail(u) = f
  BY <1>2
<1>4. Ack.kind = "+"
  BY DEF Ack, Token
<1>5. CASE stub.at = "execute" /\ down = <<Ack>>
  BY <1>4, <1>5
<1>6. CASE stub.at = "ack" /\ down = <<Ack>> \o Frame(Request)
  <2>1. down = u /\ Request = gdb.request
    BY <1>1, <1>2, <1>6 DEF Accepted
  <2> QED
    BY <1>1, <1>3, <1>4, <1>6, <2>1
<1> QED
  BY <1>5, <1>6 DEF Accepted

(* The '+' that gdb waits for is that of its request.                      *)
LEMMA AckedSituated ==
    ASSUME Typed, Sourced, Reliable, Situation, Acked
    PROVE  Situation'
<1>1. /\ gdb.at = "ack" /\ down # <<>> /\ Head(down).kind = "+"
      /\ gdb'.at = "reply" /\ gdb'.request = gdb.request /\ gdb'.tries = 1
      /\ gdb'.body = gdb.body /\ down' = Tail(down) /\ up' = up /\ Others
  BY AckedDoes
<1>2. /\ stub' = stub /\ faults' = faults /\ Request' = Request
      /\ NoEnd(stub.buf)' = NoEnd(stub.buf)
  BY <1>1, GdbStays
<1>3. /\ down \in Seq(Tokens) /\ faults \in Nat /\ gdb.request \in 0..N
  BY LineTyped
<1>4. ~NoAck(down)
  BY <1>1, <1>3, LessToRead
<1>5. down # <<Nak>>
  BY <1>1 DEF Nak, Token
<1>6. Accepted
  <2>1. Asking \/ Lost \/ Refused \/ Accepted \/ Mute \/ Skipping
    BY <1>1 DEF Situation, Sending
  <2>2. ~Mute
    BY <1>1 DEF Mute, Token
  <2> QED
    BY <1>1, <1>4, <1>5, <2>1, <2>2 DEF Asking, Lost, Refused, Skipping
<1>8. \/ stub.at = "execute" /\ down' = <<>>
      \/ stub.at = "ack" /\ down' = Frame(gdb.request)
  BY <1>1, <1>6, AcceptedHears
<1>9. Arriving'
  BY <1>1, <1>2, <1>3, <1>6, <1>8 DEF Arriving, Accepted
<1>10. Answering'
  BY <1>1, <1>2, <1>6, <1>9 DEF Answering, Accepted
<1> QED
  BY <1>1, <1>10 DEF Situation, Sending

(* The request is sent again only where the first is gone.                 *)
LEMMA ResendSituated ==
    ASSUME Typed, Sourced, Reliable, Situation, Resend, early = 0, early' = 0
    PROVE  Situation'
<1>1. PICK q \in Requests : q = gdb.request
  BY ResendDoes, LineTyped, RemoteLinkAssumption DEF Sourced, Requests
<1>2. /\ gdb.at = "ack" /\ Others
      /\ (Took /\ Head(down).kind = "-") \/ Waited
      /\ gdb'.request = q /\ gdb'.body = gdb.body
      /\ \/ /\ gdb.tcount = MAX_SENDS /\ gdb'.at = "reply"
            /\ gdb'.tries = 1 /\ gdb'.buf = Nothing /\ up' = up
         \/ /\ gdb.tcount < MAX_SENDS /\ gdb'.tcount = gdb.tcount + 1
            /\ gdb'.at = "ack" /\ up' = up \o Frame(q)
  BY <1>1, ResendDoes
<1>3. /\ stub' = stub /\ faults' = faults /\ Request' = Request
      /\ Reading' = Reading
  BY <1>2, GdbStays
<1>4. /\ down \in Seq(Tokens) /\ up \in Seq(Tokens) /\ faults \in Nat
      /\ stub.buf \in Seq(Tokens) /\ gdb.tcount \in 0..3
  BY LineTyped DEF MAX_SENDS
<1>5. Asking \/ Lost \/ Refused \/ Accepted \/ Mute \/ Skipping
  BY <1>2 DEF Situation, Sending
<1>6. NoEnd(<<>>) /\ NoAck(<<>>) /\ EndLast(<<>>) /\ Len(<<>>) <= 1
      /\ \A K : Within(<<>>, K)
  BY WithinFew, NeverFew DEF NoEnd, NoAck, EndLast
<1>7. up = <<>> => /\ EndLast(up \o Frame(q)) /\ up \o Frame(q) # <<>>
                   /\ Within(up \o Frame(q), EndsFor(q))
                   /\ Never(up \o Frame(q), Kind("+"), Ends)
  BY <1>4, <1>6, Behind
<1>8. ASSUME Reading, stub.buf = <<>>, up = <<>>, down' = <<>>
      PROVE  Situation'
  <2>1. CASE gdb'.at = "reply"
    <3>1. Vain'
      BY <1>2, <1>3, <1>6, <1>8, <2>1 DEF Vain, NoEnd
    <3> QED
      BY <2>1, <3>1 DEF Situation, Sending
  <2>2. CASE gdb'.at = "ack"
    <3>1. up' = up \o Frame(q)
      BY <1>2, <2>2
    <3>2. Asking'
      BY <1>2, <1>3, <1>6, <1>7, <1>8, <2>2, <3>1
         DEF Asking, NoEnd, EndLast
    <3> QED
      BY <2>2, <3>2 DEF Situation, Sending
  <2> QED
    BY <1>2, <2>1, <2>2
<1>9. CASE Took /\ Head(down).kind = "-"
  <2>1. down # <<>> /\ down' = Tail(down) /\ Head(down).kind = "-"
    BY <1>9 DEF Took
  <2>2. ~NoAck(down)
    BY <1>4, <2>1, LessToRead
  <2>3. Refused
    <3>1. ~Mute
      BY <2>1 DEF Mute, Token
    <3>2. ~Accepted
      BY <2>1, AcceptedHears
    <3> QED
      BY <1>5, <2>1, <2>2, <3>1, <3>2 DEF Asking, Lost, Skipping
  <2>4. /\ Reading /\ stub.buf = <<>> /\ up = <<>> /\ down' = <<>>
    BY <2>1, <2>3 DEF Refused, Reading
  <2> QED
    BY <1>8, <2>4
<1>10. CASE Waited
  <2>1. down' = down /\ Silence
    BY <1>10 DEF Waited
  <2>2. /\ down = <<>> /\ up = <<>>
        /\ stub.at = "ack" \/ (Reading /\ stub.buf = <<>>)
    BY <2>1 DEF Silence, Reading
  <2>3. CASE stub.at = "ack"
    <3>1. Skipping
      BY <1>5, <2>2, <2>3, AcceptedHears
         DEF Asking, Lost, Refused, Mute, Reading
    <3>2. Stuck
      BY <1>2, <2>2, <2>3 DEF Stuck, None
    <3>3. /\ faults > 0 /\ NoEnd(stub.buf)
          /\ Request # q => gdb.tcount < faults
      BY <1>1, <3>1, <3>2 DEF Skipping
    <3>4. CASE gdb'.at = "reply"
      <4>1. gdb.tcount = 3 /\ faults < 3
        BY <1>2, <3>4 DEF Reliable, MAX_TRIES, MAX_SENDS
      <4>2. Request = q
        BY <1>4, <3>3, <4>1
      <4>3. gdb.body = <<>>
        BY <1>2 DEF Sourced
      <4>4. gdb'.tries <= faults' /\ up' = <<>> /\ down' = <<>>
        BY <1>2, <1>3, <1>4, <2>1, <2>2, <3>3, <3>4
      <4>5. Broken'
        BY <1>2, <1>3, <1>6, <2>3, <4>3, <4>4 DEF Broken, EndLast
      <4> QED
        BY <1>2, <1>3, <3>3, <3>4, <4>2, <4>5
           DEF Situation, Sending, Answering, NoEnd
    <3>5. CASE gdb'.at = "ack"
      <4>1. up' = up \o Frame(q) /\ gdb'.tcount = gdb.tcount + 1
        BY <1>2, <3>5
      <4>2. ~Stuck'
        BY <1>7, <2>2, <4>1 DEF Stuck
      <4>3. Request' # gdb'.request => gdb'.tcount <= faults'
        BY <1>2, <1>3, <1>4, <3>3, <4>1
      <4>4. NoAck(down)'
        BY <1>6, <2>1, <2>2 DEF NoAck
      <4>5. Skipping'
        BY <1>2, <1>3, <1>7, <2>2, <2>3, <3>3, <4>1, <4>2, <4>3, <4>4
           DEF Skipping, NoEnd
      <4> QED
        BY <3>5, <4>5 DEF Situation, Sending
    <3> QED
      BY <1>2, <3>4, <3>5
  <2>4. CASE Reading /\ stub.buf = <<>>
    BY <1>8, <2>1, <2>2, <2>4
  <2> QED
    BY <2>2, <2>3, <2>4
<1> QED
  BY <1>2, <1>9, <1>10

(* While it sends, gdb reads of an old answer only where there is one.     *)
LEMMA OldAnswer ==
    ASSUME Typed, Situation, Sending, down # <<>>,
           Head(down).kind \in {"$", "data", "#"} \/ gdb.at = "skip"
    PROVE  Lost \/ Skipping
<1>1. Asking \/ Lost \/ Refused \/ Accepted \/ Mute \/ Skipping
  BY DEF Situation
<1>2. ASSUME gdb.at = "skip" PROVE Lost \/ Skipping
  BY <1>1, <1>2 DEF Asking, Refused, Accepted, Mute
<1>3. ASSUME Head(down).kind \in {"$", "data", "#"} PROVE Lost \/ Skipping
  <2>1. ~Asking /\ ~Refused /\ ~Mute
    BY <1>3 DEF Asking, Refused, Mute, Nak, Token
  <2>2. ~Accepted
    BY <1>3, AcceptedHears
  <2> QED
    BY <1>1, <2>1, <2>2
<1> QED
  BY <1>2, <1>3

(* A frame where an ack is due: the stub answers once more.                *)
LEMMA OldReplySituated ==
    ASSUME Typed, Sourced, Reliable, Situation, OldReply
    PROVE  Situation'
<1>1. /\ gdb.at = "ack" /\ down # <<>> /\ Head(down).kind = "$"
      /\ gdb'.at = "skip" /\ gdb'.request = gdb.request
      /\ gdb'.tcount = gdb.tcount /\ down' = Tail(down) /\ up' = up /\ Others
  BY OldReplyDoes
<1>2. /\ stub' = stub /\ faults' = faults /\ Request' = Request
      /\ Reading' = Reading
  BY <1>1, GdbStays
<1>3. NoAck(down) => NoAck(down')
  BY <1>1, LineTyped, LessToRead
<1>4. Lost \/ Skipping
  BY <1>1, OldAnswer DEF Sending
<1>5. CASE Lost
  <2>1. Lost'
    BY <1>1, <1>2, <1>3, <1>5 DEF Lost, NoEnd, NoAck
  <2> QED
    BY <1>1, <2>1 DEF Situation
<1>6. CASE Skipping
  <2>1. ~Stuck'
    BY <1>1 DEF Stuck
  <2>2. Skipping'
    BY <1>1, <1>2, <1>3, <1>6, <2>1 DEF Skipping, NoEnd, NoAck
  <2> QED
    BY <1>1, <2>2 DEF Situation
<1> QED
  BY <1>4, <1>5, <1>6

(* The frame is acknowledged, and with it the answer before.               *)
LEMMA SkippedSituated ==
    ASSUME Typed, Sourced, Reliable, Situation, Skipped, early = 0, early' = 0
    PROVE  Situation'
<1>1. /\ gdb.at = "skip" /\ Others
      /\ (Took /\ Head(down).kind = "#") \/ Waited
      /\ gdb'.at = "ack" /\ gdb'.request = gdb.request
      /\ gdb'.tcount = gdb.tcount /\ up' = up \o <<Ack>>
  BY SkippedDoes
<1>2. /\ stub' = stub /\ faults' = faults /\ Request' = Request
      /\ Reading' = Reading
  BY <1>1, GdbStays
<1>3. up \in Seq(Tokens) /\ down \in Seq(Tokens)
  BY LineTyped
<1>4. NoAck(down) => NoAck(down')
  BY <1>1, <1>3, LessToRead DEF Took, Waited
<1>5. Lost \/ Skipping
  <2>1. Asking \/ Lost \/ Refused \/ Accepted \/ Mute \/ Skipping
    BY <1>1 DEF Situation, Sending
  <2> QED
    BY <1>1, <2>1 DEF Asking, Refused, Accepted, Mute
<1>6. /\ NoEnd(up) => NoEnd(up')
      /\ \A q : Within(up, EndsFor(q)) => Within(up', EndsFor(q))
      /\ Never(up, Kind("+"), Ends) => Never(up', Kind("+"), Ends)
      /\ up' # <<>>
  BY <1>1, <1>3, AcksBehind
<1>7. CASE Lost
  <2>1. Lost'
    BY <1>1, <1>2, <1>4, <1>6, <1>7 DEF Lost, NoEnd, NoAck
  <2> QED
    BY <1>1, <2>1 DEF Situation
<1>8. CASE Skipping
  <2>1. ~Stuck'
    BY <1>6 DEF Stuck
  <2>2. Skipping'
    BY <1>1, <1>2, <1>4, <1>6, <1>8, <2>1 DEF Skipping, NoEnd, NoAck
  <2> QED
    BY <1>1, <2>2 DEF Situation
<1> QED
  BY <1>5, <1>7, <1>8

(* Lines that carry no start of a frame.                                   *)
LEMMA NoneBack ==
    ASSUME NEW s \in Seq(Tokens), s # <<>>, NEW k, Head(s).kind # k,
           None(Tail(s), k)
    PROVE  None(s, k)
<1>1. /\ Head(s) = s[1] /\ Len(s) \in Nat \ {0} /\ DOMAIN s = 1..Len(s)
      /\ DOMAIN Tail(s) = 1..(Len(s) - 1)
      /\ \A i \in 1..(Len(s) - 1) : Tail(s)[i] = s[i+1]
  BY TailFacts
<1> SUFFICES ASSUME NEW i \in 1..Len(s) PROVE s[i].kind # k
  BY <1>1 DEF None
<1>2. CASE i = 1
  BY <1>1, <1>2
<1>3. CASE i # 1
  <2>1. PICK j \in 1..(Len(s) - 1) : i = j + 1
    <3>1. i - 1 \in 1..(Len(s) - 1) /\ i = (i - 1) + 1
      BY <1>1, <1>3
    <3> QED
      BY <3>1
  <2>2. Tail(s)[j].kind # k
    BY <1>1, <2>1 DEF None
  <2> QED
    BY <1>1, <2>1, <2>2
<1> QED
  BY <1>2, <1>3

(* What gdb ignores is junk, or the rest of a frame.                       *)
LEMMA IgnoredSituated ==
    ASSUME Typed, Sourced, Reliable, Situation, Ignored
    PROVE  Situation'
<1>1. /\ down # <<>> /\ gdb' = gdb /\ down' = Tail(down) /\ up' = up /\ Others
      /\ \/ gdb.at = "ack" /\ Head(down).kind \in {"data", "#", "junk"}
         \/ gdb.at = "skip"
            /\ Head(down).kind \in {"+", "-", "$", "data", "junk"}
         \/ gdb.at = "reply"
            /\ Head(down).kind \in {"+", "-", "data", "#", "junk"}
  BY IgnoredDoes
<1>2. /\ stub' = stub /\ faults' = faults /\ Request' = Request
      /\ Reading' = Reading
  BY <1>1, GdbStays
<1>3. down \in Seq(Tokens)
  BY LineTyped
<1>4. /\ NoAck(down) => NoAck(down')
      /\ EndLast(down) => EndLast(down')
      /\ \A K : Within(down, K) => Within(down', K)
  BY <1>1, <1>3, LessToRead
<1>5. CASE gdb.at \in {"ack", "skip"}
  <2>1. Lost \/ Mute \/ Skipping
    <3>1. Asking \/ Lost \/ Refused \/ Accepted \/ Mute \/ Skipping
      BY <1>5 DEF Situation, Sending
    <3>2. gdb.at = "skip" => ~Asking /\ ~Refused /\ ~Accepted
      BY DEF Asking, Refused, Accepted
    <3>3. gdb.at = "ack" => ~Asking /\ ~Refused /\ ~Accepted
      BY <1>1, AcceptedHears DEF Asking, Refused, Nak, Token
    <3> QED
      BY <1>5, <3>1, <3>2, <3>3
  <2>2. CASE Lost
    <3>1. Lost'
      BY <1>1, <1>2, <1>4, <2>2 DEF Lost, NoEnd, NoAck
    <3> QED
      BY <1>1, <1>5, <3>1 DEF Situation, Sending
  <2>3. CASE Mute
    <3>1. down' = <<>>
      <4>1. down = <<Token("junk", 0)>>
        BY <1>1, <2>3 DEF Mute
      <4>2. Tail(<<Token("junk", 0)>>) = <<>>
        OBVIOUS
      <4> QED
        BY <1>1, <4>1, <4>2
    <3>2. Mute'
      BY <1>1, <1>2, <2>3, <3>1 DEF Mute, NoEnd
    <3> QED
      BY <1>1, <1>5, <3>2 DEF Situation, Sending
  <2>4. CASE Skipping
    <3>1. Stuck' => Stuck
      <4>1. None(down, "$")' => None(down', "$")
        BY DEF None
      <4>2. gdb.at = "ack" => (None(down', "$") => None(down, "$"))
        BY <1>1, <1>3, NoneBack
      <4> QED
        BY <1>1, <1>2, <4>1, <4>2 DEF Stuck
    <3>2. Never(up, Kind("+"), Ends)
      BY <1>1, <2>4 DEF Skipping
    <3>3. /\ Stuck' => faults' > 0
          /\ Request' # gdb'.request =>
                gdb'.tcount <= faults' /\ (Stuck' => gdb'.tcount < faults')
      BY <1>1, <1>2, <2>4, <3>1 DEF Skipping
    <3>4. Skipping'
      BY <1>1, <1>2, <1>4, <2>4, <3>2, <3>3 DEF Skipping, NoEnd, NoAck
    <3> QED
      BY <1>1, <1>5, <3>4 DEF Situation, Sending
  <2> QED
    BY <2>1, <2>2, <2>3, <2>4
<1>6. CASE gdb.at = "reply"
  <2>1. Answering
    BY <1>1, <1>6 DEF Situation, Vain
  <2>2. ~Arriving /\ ~Again
    <3>1. gdb.request \in 0..N
      BY LineTyped
    <3>2. Head(Frame(gdb.request)).kind = "$"
      <4>1. Token("$", 0).kind = "$"
        BY DEF Token
      <4> QED
        BY <3>1, <4>1, FrameShape
    <3> QED
      BY <1>1, <1>6, <3>2 DEF Arriving, Again
  <2>3. Broken
    BY <2>1, <2>2 DEF Answering
  <2>4. Broken'
    BY <1>1, <1>2, <1>4, <2>3 DEF Broken, EndLast
  <2>5. Answering'
    BY <1>1, <1>2, <2>1, <2>4 DEF Answering, NoEnd
  <2> QED
    BY <1>1, <1>6, <2>5 DEF Situation, Sending
<1> QED
  BY <1>1, <1>5, <1>6

(* The reply begins.                                                       *)
LEMMA ReplyStartsSituated ==
    ASSUME Typed, Sourced, Reliable, Situation, ReplyStarts
    PROVE  Situation'
<1>1. /\ gdb.at = "reply" /\ down # <<>> /\ Head(down).kind = "$"
      /\ gdb'.at = "frame" /\ gdb'.request = gdb.request
      /\ gdb'.tries = gdb.tries /\ gdb'.body = <<>>
      /\ down' = Tail(down) /\ up' = up /\ Others
  BY ReplyStartsDoes
<1>2. /\ stub' = stub /\ faults' = faults /\ Request' = Request
  BY <1>1, GdbStays
<1>3. Answering
  BY <1>1 DEF Situation, Vain
<1>4. ~Broken
  <2>1. Within(down, NotKind({"$"})) => Head(down) \in NotKind({"$"})
    BY <1>1, LineTyped, LessToRead
  <2> QED
    BY <1>1, <2>1 DEF Broken, NotKind
<1>5. /\ up = <<>> /\ gdb.tries <= 1 + faults /\ stub.at = "ack"
      /\ down = Frame(gdb.request)
  BY <1>1, <1>3, <1>4 DEF Answering, Arriving, Again
<1>6. down' = <<Token("data", gdb.request), Token("#", gdb.request)>>
  BY <1>1, <1>5, LineTyped, FrameShape
<1>7. Arriving'
  BY <1>1, <1>2, <1>5, <1>6 DEF Arriving
<1>8. Answering'
  BY <1>1, <1>2, <1>3, <1>7 DEF Answering, NoEnd
<1> QED
  BY <1>1, <1>8 DEF Situation, Sending

(* Its payload is that of the request.                                     *)
LEMMA ReplyGoesOnSituated ==
    ASSUME Typed, Sourced, Reliable, Situation, ReplyGoesOn
    PROVE  Situation'
<1>1. PICK q \in 0..N : q = gdb.request
  BY LineTyped
<1>2. /\ gdb.at = "frame" /\ down # <<>>
      /\ Head(down).kind \in {"+", "-", "data", "junk"}
      /\ gdb'.at = "frame" /\ gdb'.request = q
      /\ gdb'.tries = gdb.tries /\ gdb'.body = Append(gdb.body, Head(down))
      /\ down' = Tail(down) /\ up' = up /\ Others
  BY <1>1, ReplyGoesOnDoes
<1>3. /\ stub' = stub /\ faults' = faults /\ Request' = Request
  BY <1>2, GdbStays
<1>4. Answering
  BY <1>2 DEF Situation, Vain
<1>5. down \in Seq(Tokens) /\ gdb.body \in Seq(Tokens)
  BY LineTyped
<1>6. CASE Arriving
  <2>1. /\ up = <<>> /\ gdb.tries <= 1 + faults /\ stub.at = "ack"
        /\ gdb.body = <<>> /\ down = <<Token("data", q), Token("#", q)>>
    <3>1. down # <<Token("#", q)>>
      BY <1>2 DEF Token
    <3> QED
      BY <1>1, <1>2, <1>6, <3>1 DEF Arriving
  <2>2. gdb'.body = <<Token("data", q)>> /\ down' = <<Token("#", q)>>
    BY <1>2, <2>1
  <2>3. Arriving'
    BY <1>2, <1>3, <2>1, <2>2 DEF Arriving
  <2>4. Answering'
    BY <1>1, <1>2, <1>3, <1>4, <2>3 DEF Answering, NoEnd
  <2> QED
    BY <1>2, <2>4 DEF Situation, Sending
<1>7. CASE Broken
  <2>1. /\ EndLast(down') /\ Within(down', NotKind({"$"}))
        /\ Within(down', Of(q)) /\ Head(down) \in Of(q)
        /\ Head(down) \in Tokens
    BY <1>1, <1>2, <1>5, <1>7, LessToRead DEF Broken
  <2>2. Within(gdb'.body, Of(q))
    BY <1>1, <1>2, <1>5, <1>7, <2>1, WithinAppend DEF Broken
  <2>3. Broken'
    BY <1>1, <1>2, <1>3, <1>7, <2>1, <2>2 DEF Broken, EndLast
  <2>4. Answering'
    BY <1>1, <1>2, <1>3, <1>4, <2>3 DEF Answering, NoEnd
  <2> QED
    BY <1>2, <2>4 DEF Situation, Sending
<1>8. ~Again
  BY <1>2 DEF Again
<1> QED
  BY <1>4, <1>6, <1>7, <1>8 DEF Answering

(* The reply that a call returns is its own.                               *)
LEMMA ReplyEndsSituated ==
    ASSUME Typed, Sourced, Reliable, Situation, ReplyEnds
    PROVE  /\ Situation'
           /\ Head(down).value = gdb.request /\ executed[gdb.request] > 0
<1>1. PICK q \in 0..N : q = gdb.request
  BY LineTyped
<1>2. PICK v \in 0..N : v = Head(down).value
  BY ReplyEndsDoes
<1>3. /\ gdb.at = "frame" /\ down # <<>> /\ Head(down).kind = "#"
      /\ gdb.body = <<Token("data", v)>>
      /\ gdb'.at = "idle" /\ down' = Tail(down) /\ up' = up \o <<Ack>> /\ Others
  BY <1>2, ReplyEndsDoes DEF Intact
<1>4. stub' = stub
  BY <1>3, GdbStays
<1>5. Answering
  BY <1>3 DEF Situation, Vain
<1>6. stub.at = "ack" /\ up = <<>> /\ NoEnd(stub.buf) /\ Request = q
  BY <1>1, <1>3, <1>5 DEF Answering, Arriving, Again, Broken
<1>7. q # 0 /\ executed[q] > 0
  BY <1>1, <1>3, <1>6 DEF Sourced
<1>8. down \in Seq(Tokens) /\ up \in Seq(Tokens)
  BY LineTyped
<1>9. v = q /\ down' = <<>>
  <2>1. CASE Arriving
    <3>1. down = <<Token("#", q)>>
      <4>1. Head(<<Token("data", q), Token("#", q)>>).kind = "data"
        BY DEF Token
      <4> QED
        BY <1>1, <1>3, <2>1, <4>1 DEF Arriving
    <3> QED
      BY <1>2, <1>3, <3>1 DEF Token
  <2>2. CASE Broken
    <3>1. down' = <<>>
      BY <1>3, <1>8, <2>2, LessToRead DEF Broken
    <3>2. Token("data", v) \in Of(q) /\ Token("data", v) \in Answers
      <4>1. Within(gdb.body, Of(q)) /\ Within(gdb.body, Answers)
        BY <1>1, <2>2 DEF Broken, Sourced
      <4>2. PICK t : t = Token("data", v)
        OBVIOUS
      <4>3. Within(<<t>>, Of(q)) /\ Within(<<t>>, Answers)
        BY <1>3, <4>1, <4>2
      <4>4. t \in Of(q) /\ t \in Answers
        BY <4>3, WithinFew
      <4> QED
        BY <4>2, <4>4
    <3>3. v \in {0, q} /\ v # 0
      BY <3>2 DEF Of, Answers, Token
    <3> QED
      BY <3>1, <3>3
  <2> QED
    BY <1>3, <1>5, <2>1, <2>2 DEF Answering, Again
<1>10. NoEnd(up') /\ up' = <<Ack>>
  <2>1. NoEnd(up)
    BY <1>6, WithinFew DEF NoEnd
  <2>2. NoEnd(up')
    BY <1>3, <1>8, <2>1, AcksBehind
  <2>3. <<>> \o <<Ack>> = <<Ack>>
    OBVIOUS
  <2> QED
    BY <1>3, <1>6, <2>2, <2>3
<1>11. NoAck(<<>>) /\ Len(<<Ack>>) <= 1
  BY WithinFew DEF NoAck
<1>12. Rest'
  BY <1>4, <1>6, <1>9, <1>10, <1>11 DEF Rest, NoEnd, NoAck
<1> QED
  BY <1>1, <1>2, <1>3, <1>7, <1>9, <1>12 DEF Situation, Sending

(* gdb gives a call up only where no reply will come, and says so.         *)
LEMMA RetrySituated ==
    ASSUME Typed, Sourced, Reliable, Situation, Retry, early = 0, early' = 0
    PROVE  /\ Situation'
           /\ gdb'.at = "idle" => Overwritten = Nothing
<1>1. PICK q \in 0..N : q = gdb.request
  BY LineTyped
<1>2. /\ \/ gdb.at = "reply" /\ Waited
         \/ gdb.at = "frame" /\ Waited
         \/ gdb.at = "frame" /\ Took /\ Head(down).kind = "$"
         \/ gdb.at = "frame" /\ Took /\ Head(down).kind = "#"
            /\ ~Intact(gdb.body, Head(down))
      /\ gdb'.request = q /\ gdb'.body = <<>> /\ Others
      /\ \/ /\ gdb.tries < MAX_TRIES /\ gdb'.tries = gdb.tries + 1
            /\ gdb'.at = "reply" /\ gdb'.buf = Overwritten
            /\ up' = up \o <<Nak>>
         \/ /\ gdb.tries = MAX_TRIES /\ gdb'.at = "idle"
            /\ gdb'.buf = Nothing /\ up' = up \o <<Nak, Ack>>
  BY <1>1, RetryDoes
<1>3. /\ stub' = stub /\ faults' = faults /\ Request' = Request
      /\ Reading' = Reading
  BY <1>2, GdbStays
<1>4. /\ down \in Seq(Tokens) /\ up \in Seq(Tokens) /\ faults \in Nat
      /\ gdb.tries \in Nat /\ faults < 3
  BY LineTyped DEF Reliable, MAX_TRIES
<1>5. Waited => down' = down /\ down = <<>> /\ up = <<>> /\ stub.at # "execute"
  BY DEF Waited, Silence
<1>6. Took => down # <<>> /\ down' = Tail(down)
  BY DEF Took
<1>7. Answering \/ Vain
  BY <1>2 DEF Situation
<1>8. CASE Vain
  <2>1. /\ gdb.at = "reply" /\ down' = <<>> /\ up = <<>>
        /\ Overwritten = Nothing
    <3>1. gdb.at = "reply" /\ gdb.buf = Nothing /\ gdb.body = <<>>
      BY <1>8 DEF Vain, Sourced
    <3> QED
      BY <1>2, <1>5, <3>1, OverwrittenTyped
  <2>2. NoEnd(up) /\ NoEnd(stub.buf)
    BY <1>8 DEF Vain
  <2>3. NoEnd(up \o <<Nak>>) /\ NoEnd(up \o <<Nak, Ack>>)
    BY <1>4, <2>2, AcksBehind
  <2>4. NoAck(<<>>)
    BY WithinFew DEF NoAck
  <2>5. CASE gdb'.at = "reply"
    <3>1. Vain'
      BY <1>2, <1>3, <1>8, <2>1, <2>2, <2>3, <2>5 DEF Vain, NoEnd
    <3> QED
      BY <2>5, <3>1 DEF Situation, Sending
  <2>6. CASE gdb'.at = "idle"
    <3>1. Rest'
      BY <1>2, <1>3, <1>8, <2>1, <2>2, <2>3, <2>4, <2>6
         DEF Vain, Rest, NoEnd, NoAck
    <3> QED
      BY <2>1, <2>6, <3>1 DEF Situation, Sending
  <2> QED
    BY <1>2, <2>5, <2>6
<1>9. CASE Answering
  <2>1. ~Arriving
    <3>1. ASSUME Arriving PROVE FALSE
      <4>1. ~Waited
        <5>1. Frame(q) # <<>>
          BY FrameShape
        <5>2. \A a, b : <<a>> # <<>> /\ <<a, b>> # <<>>
          OBVIOUS
        <5>3. stub.at = "execute" \/ down # <<>>
          BY <1>1, <3>1, <5>1, <5>2 DEF Arriving
        <5> QED
          BY <1>5, <5>3
      <4>2. gdb.at = "frame" /\ Took
        BY <1>2, <4>1
      <4>3. CASE /\ gdb.body = <<>>
                 /\ down = <<Token("data", q), Token("#", q)>>
        <5>1. Head(down).kind = "data"
          BY <4>3 DEF Token
        <5> QED
          BY <1>2, <4>1, <5>1
      <4>4. CASE /\ gdb.body = <<Token("data", q)>>
                 /\ down = <<Token("#", q)>>
        <5>1. Head(down) = Token("#", q)
          BY <4>4
        <5>2. Head(down).kind = "#" /\ Head(down).value = q
          BY <5>1 DEF Token
        <5>3. Intact(gdb.body, Head(down))
          BY <4>4, <5>2 DEF Intact
        <5> QED
          BY <1>2, <4>1, <5>2, <5>3
      <4> QED
        BY <1>1, <3>1, <4>2, <4>3, <4>4 DEF Arriving
    <3> QED
      BY <3>1
  <2>2. ~Again
    <3>1. \A t : <<t>> # <<>>
      OBVIOUS
    <3> QED
      BY <1>2, <1>5, <3>1 DEF Again
  <2>3. Broken
    BY <1>9, <2>1, <2>2 DEF Answering
  <2>4. /\ gdb'.at = "reply" /\ gdb'.tries = gdb.tries + 1
        /\ up' = up \o <<Nak>> /\ up = <<>> /\ gdb.tries <= faults
    BY <1>2, <1>4, <2>3 DEF Broken, MAX_TRIES
  <2>5. down' = <<>>
    <3>1. CASE Waited
      BY <1>5, <3>1
    <3>2. CASE Took
      <4>1. Within(down, NotKind({"$"})) => Head(down) \in NotKind({"$"})
        BY <1>4, <1>6, <3>2, LessToRead
      <4>2. Head(down).kind # "$"
        BY <2>3, <4>1 DEF Broken, NotKind
      <4>3. Head(down).kind = "#" \/ Waited
        BY <1>2, <4>2
      <4> QED
        BY <1>4, <1>5, <1>6, <2>3, <3>2, <4>3, LessToRead DEF Broken
    <3> QED
      BY <1>2, <3>1, <3>2
  <2>6. up' = <<Nak>> /\ Nak \in NotKind({"+", "#"})
    <3>1. <<>> \o <<Nak>> = <<Nak>>
      OBVIOUS
    <3>2. Nak \in NotKind({"+", "#"})
      BY TokenTypes DEF NotKind, Nak, Token
    <3> QED
      BY <2>4, <3>1, <3>2
  <2>7. gdb'.tries <= 1 + faults'
    BY <1>3, <1>4, <2>4
  <2>8. \E t \in NotKind({"+", "#"})' : up' = <<t>>
    BY <2>6 DEF NotKind, Tokens
  <2>9. Again'
    BY <1>3, <2>3, <2>4, <2>5, <2>7, <2>8 DEF Again, Broken
  <2>10. Answering'
    BY <1>1, <1>2, <1>3, <1>9, <2>9 DEF Answering, NoEnd
  <2> QED
    BY <2>4, <2>10 DEF Situation, Sending
<1> QED
  BY <1>7, <1>8, <1>9

(* A frame begins with its start.                                          *)
LEMMA FrameStarts ==
    ASSUME NEW s \in Seq(Tokens), NEW p \in Requests
    PROVE  ~None(s \o Frame(p), "$")
<1>1. PICK t \in Seq(Tokens) : t = Frame(p)
  BY TokenTypes, RemoteLinkAssumption DEF Requests
<1>2. Len(t) = 3 /\ t[1].kind = "$"
  <2>1. Len(t) = 3 /\ t[1] = Token("$", 0)
    BY <1>1, TokenTypes, RemoteLinkAssumption DEF Requests
  <2> QED
    BY <2>1 DEF Token
<1>3. PICK u : u = s \o t
  OBVIOUS
<1>4. /\ DOMAIN u = 1..(Len(s) + Len(t)) /\ Len(s) \in Nat
      /\ \A i \in 1..Len(t) : u[Len(s) + i] = t[i]
  BY <1>3, CatFacts
<1>5. Len(s) + 1 \in DOMAIN u /\ u[Len(s) + 1] = t[1]
  BY <1>2, <1>4
<1> QED
  BY <1>1, <1>2, <1>3, <1>5 DEF None

(* What a step of the stub leaves alone.                                   *)
LEMMA StubStays ==
    ASSUME StubOthers
    PROVE  gdb' = gdb /\ faults' = faults /\ early' = early
BY DEF StubOthers

(* The stub reads on, until the end of a request.                          *)
LEMMA ReadingSituated ==
    ASSUME Typed, Situation, Reading, Reading', StubOthers, down' = down,
           stub.buf # <<>> \/ up # <<>>,
           NoEnd(stub.buf) /\ NoEnd(up) => NoEnd(stub'.buf) /\ NoEnd(up'),
           /\ EndLast(stub.buf) /\ EndLast(up)
           /\ NoEnd(stub.buf) \/ up = <<>>
           => /\ EndLast(stub'.buf) /\ EndLast(up')
              /\ NoEnd(stub'.buf) \/ up' = <<>>,
           \A K : Within(stub.buf, K) /\ Within(up, K)
                     => Within(stub'.buf, K) /\ Within(up', K)
    PROVE  Situation'
<1>1. gdb' = gdb /\ faults' = faults
  BY StubStays
<1>2. stub.at # "execute" /\ stub.at # "ack"
  BY DEF Reading
<1>3. CASE gdb.at = "idle"
  <2>1. Rest
    BY <1>3 DEF Situation
  <2>2. Rest'
    BY <1>2, <2>1 DEF Rest, NoEnd, NoAck
  <2> QED
    BY <1>1, <1>3, <2>2 DEF Situation, Sending
<1>4. CASE Sending
  <2>1. Asking \/ Lost
    BY <1>2, <1>4 DEF Situation, Refused, Accepted, Mute, Skipping
  <2>2. CASE Asking
    <3>1. Asking'
      BY <1>1, <2>2 DEF Asking, NoEnd, EndLast
    <3> QED
      BY <1>1, <3>1 DEF Situation, Asking
  <2>3. CASE Lost
    <3>1. Lost'
      BY <2>3 DEF Lost, NoEnd, NoAck
    <3> QED
      BY <1>1, <1>4, <3>1 DEF Situation, Sending
  <2> QED
    BY <2>1, <2>2, <2>3
<1>5. CASE gdb.at \in {"reply", "frame"}
  <2>1. Vain
    BY <1>2, <1>5 DEF Situation, Answering, Arriving, Again, Broken
  <2>2. Vain'
    BY <1>1, <2>1 DEF Vain, NoEnd
  <2> QED
    BY <1>1, <1>5, <2>2 DEF Situation, Sending
<1> QED
  BY <1>3, <1>4, <1>5, LineTyped DEF Sending

(* The stub reads what there is into its buffer.                           *)
LEMMA FillSituated ==
    ASSUME Typed, Situation, Fill
    PROVE  Situation'
<1>1. /\ Typed' /\ StubOthers /\ down' = down /\ up # <<>>
      /\ stub.at \in {"hunt", "frame"} /\ stub'.at = stub.at
      /\ stub.buf = <<>> /\ stub'.buf \o up' = up
  BY FillDoes
<1>2. /\ stub'.buf \in Seq(Tokens) /\ up' \in Seq(Tokens)
      /\ up \in Seq(Tokens)
  BY <1>1, LineTyped DEF Typed, TypeOK
<1>3. \A K : Within(up, K) => Within(stub'.buf, K) /\ Within(up', K)
  BY <1>1, <1>2, WithinCat
<1>4. ASSUME EndLast(up)
      PROVE  /\ EndLast(stub'.buf) /\ EndLast(up')
             /\ NoEnd(stub'.buf) \/ up' = <<>>
  <2>1. Never(stub'.buf \o up', Ends, Tokens)
    BY <1>1, <1>4 DEF EndLast
  <2>2. /\ Never(stub'.buf, Ends, Tokens) /\ Never(up', Ends, Tokens)
        /\ \/ Within(stub'.buf, Tokens \ Ends)
           \/ Within(up', Tokens \ Tokens)
    BY <1>2, <2>1, NeverParts
  <2>3. Within(stub'.buf, Tokens \ Ends) => NoEnd(stub'.buf)
    <3>1. \A t \in Tokens \ Ends : t \in NotKind({"#"})
      BY KindsOf
    <3> QED
      BY <3>1, WithinMore DEF NoEnd
  <2>4. ASSUME Within(up', Tokens \ Tokens) PROVE up' = <<>>
    <3>1. PICK t \in Seq(Tokens) : t = up'
      BY <1>2
    <3>2. \A i \in 1..Len(t) : FALSE
      BY <2>4, <3>1, SeqFacts DEF Within
    <3>3. Len(t) = 0
      BY <3>2, SeqFacts
    <3> QED
      BY <3>1, <3>3, SeqFacts
  <2> QED
    BY <2>2, <2>3, <2>4 DEF EndLast
<1>5. NoEnd(up) => NoEnd(stub'.buf) /\ NoEnd(up')
  BY <1>3 DEF NoEnd
<1>6. Reading /\ Reading'
  BY <1>1 DEF Reading
<1> QED
  BY <1>1, <1>3, <1>4, <1>5, <1>6, ReadingSituated

(* The stub takes a token from its buffer.                                 *)
LEMMA TakeSituated ==
    ASSUME Typed, Situation, Hunt \/ RequestGoesOn
    PROVE  Situation'
<1>1. /\ StubOthers /\ down' = down /\ up' = up /\ stub.buf # <<>>
      /\ Reading /\ Reading' /\ stub'.buf = Tail(stub.buf)
  BY HuntDoes, RequestGoesOnDoes DEF Reading
<1>2. /\ NoEnd(stub.buf) => NoEnd(stub'.buf)
      /\ EndLast(stub.buf) => EndLast(stub'.buf)
      /\ \A K : Within(stub.buf, K) => Within(stub'.buf, K)
  BY <1>1, LineTyped, LessToRead
<1> QED
  BY <1>1, <1>2, ReadingSituated

(* A request that is whole is the one gdb waits with.                      *)
LEMMA RequestEndsSituated ==
    ASSUME Typed, Sourced, Situation, RequestEnds
    PROVE  Situation'
<1>1. PICK q \in 0..N : q = gdb.request
  BY LineTyped
<1>2. PICK v \in 0..N : v = Head(stub.buf).value
  BY RequestEndsDoes
<1>3. /\ StubOthers /\ up' = up /\ stub.at = "frame" /\ stub.buf # <<>>
      /\ Head(stub.buf).kind = "#" /\ stub'.buf = Tail(stub.buf)
      /\ Head(stub.buf) = Token("#", v)
      /\ \/ /\ stub'.at = "execute" /\ stub.body = <<Token("data", v)>>
            /\ Request' = v /\ down' = down \o <<Ack>>
         \/ stub'.at = "hunt" /\ down' = down \o <<Nak>>
  BY <1>2, RequestEndsDoes
<1>4. gdb' = gdb /\ faults' = faults
  BY <1>3, StubStays
<1>5. stub.buf \in Seq(Tokens)
  BY LineTyped
<1>6. ~NoEnd(stub.buf)
  BY <1>3, <1>5, LessToRead
<1>7. Asking
  BY <1>3, <1>6, LineTyped DEF Situation, Rest, Sending, Lost, Refused,
     Accepted, Mute, Skipping, Answering, Vain
<1>8. /\ gdb.at = "ack" /\ up = <<>> /\ stub'.buf = <<>> /\ down = <<>>
      /\ Token("#", v) \in EndsFor(q)
  BY <1>1, <1>3, <1>5, <1>6, <1>7, LessToRead DEF Asking
<1>9. \A t : <<>> \o <<t>> = <<t>>
  OBVIOUS
<1>10. CASE stub'.at = "execute"
  <2>1. v \in {0, q}
    BY <1>8 DEF EndsFor, Token
  <2>2. Token("data", v) \in Payloads
    <3>1. PICK t : t = Token("data", v)
      OBVIOUS
    <3>2. Within(<<t>>, Payloads)
      BY <1>3, <1>10, <3>1 DEF Sourced
    <3> QED
      BY <3>1, <3>2, WithinFew
  <2>3. v = q /\ down' = <<Ack>>
    BY <1>3, <1>8, <1>9, <1>10, <2>1, <2>2 DEF Payloads, Token
  <2>4. NoEnd(stub'.buf)
    BY <1>8, WithinFew DEF NoEnd
  <2>5. Accepted'
    BY <1>1, <1>3, <1>4, <1>8, <1>10, <2>3, <2>4 DEF Accepted, NoEnd
  <2> QED
    BY <1>4, <1>8, <2>5 DEF Situation
<1>11. CASE stub'.at = "hunt"
  <2>1. down' = <<Nak>>
    BY <1>3, <1>8, <1>9, <1>11
  <2>2. Refused'
    BY <1>3, <1>4, <1>8, <1>11, <2>1 DEF Refused, Nak
  <2> QED
    BY <1>4, <1>8, <2>2 DEF Situation
<1> QED
  BY <1>3, <1>10, <1>11

(* The stub executes the request of the call that is outstanding.          *)
LEMMA ExecuteSituated ==
    ASSUME Typed, Sourced, Situation, Execute
    PROVE  Situation' /\ gdb.at # "idle" /\ Request = gdb.request
<1>1. /\ StubOthers /\ up' = up /\ stub.at = "execute" /\ stub'.at = "ack"
      /\ stub'.buf = stub.buf /\ Request' = Request
      /\ down' = down \o Frame(Request)
  BY ExecuteDoes
<1>2. gdb' = gdb /\ faults' = faults
  BY <1>1, StubStays
<1>3. PICK q \in Requests : q = Request
  BY <1>1, RequestReal
<1>4. down \in Seq(Tokens)
  BY LineTyped
<1>5. gdb.at # "idle"
  BY <1>1 DEF Situation, Rest, Reading
<1>6. CASE Sending
  <2>1. Accepted \/ Mute
    BY <1>1, <1>6 DEF Situation, Asking, Lost, Refused, Skipping, Reading
  <2>2. CASE Accepted
    <3>1. down' = <<Ack>> \o Frame(Request)
      BY <1>1, <2>2 DEF Accepted
    <3>2. Accepted'
      BY <1>1, <1>2, <2>2, <3>1 DEF Accepted, NoEnd, Ack
    <3> QED
      BY <1>2, <2>2, <3>2 DEF Situation, Accepted
  <2>3. CASE Mute
    <3>1. NoAck(down)
      <4>1. Token("junk", 0) \in NotKind({"+", "-"})
        <5>1. 0 \in 0..N
          BY RemoteLinkAssumption
        <5> QED
          BY <5>1, TokenTypes DEF NotKind, Token
      <4>2. NoAck(<<>>) /\ NoAck(<<Token("junk", 0)>>)
        BY <4>1, WithinFew DEF NoAck
      <4> QED
        BY <2>3, <4>2 DEF Mute
    <3>2. NoAck(down')
      BY <1>1, <1>3, <1>4, <3>1, Behind
    <3>3. /\ Within(<<>>, EndsFor(q)) /\ Never(<<>>, Kind("+"), Ends)
      BY WithinFew, NeverFew
    <3>4. ~Stuck'
      <4>1. ~None(down', "$")
        BY <1>1, <1>3, <1>4, FrameStarts
      <4> QED
        BY <4>1 DEF Stuck, None
    <3>5. Skipping'
      BY <1>1, <1>2, <1>3, <2>3, <3>2, <3>3, <3>4
         DEF Skipping, Mute, NoEnd, NoAck
    <3> QED
      BY <1>2, <2>3, <3>5 DEF Situation, Mute
  <2> QED
    BY <2>1, <2>2, <2>3 DEF Accepted, Mute
<1>7. CASE gdb.at \in {"reply", "frame"}
  <2>1. Answering /\ Arriving /\ gdb.at = "reply" /\ down = <<>>
    BY <1>1, <1>7 DEF Situation, Answering, Arriving, Again, Broken, Vain, Reading
  <2>2. down' = Frame(gdb.request)
    BY <1>1, <1>3, <2>1, FrameShape, RemoteLinkAssumption
       DEF Answering, Requests
  <2>3. Arriving'
    BY <1>1, <1>2, <2>1, <2>2 DEF Arriving, Frame, Token
  <2>4. Answering'
    BY <1>1, <1>2, <2>1, <2>3 DEF Answering, NoEnd
  <2> QED
    BY <1>2, <2>1, <2>4 DEF Situation, Sending, Answering
<1> QED
  BY <1>5, <1>6, <1>7, LineTyped DEF Sending


(* The stub reads an ack, or sends the reply once more.                    *)
LEMMA ReadAckSituated ==
    ASSUME Typed, Sourced, Situation, ReadAck
    PROVE  Situation'
<1>1. /\ StubOthers /\ stub.at = "ack" /\ up # <<>> /\ up' = Tail(up)
      /\ \/ /\ Head(up) = Ack /\ stub'.at = "hunt"
            /\ stub'.buf = stub.buf /\ down' = down
         \/ /\ Head(up) # Ack /\ stub' = stub /\ Request' = Request
            /\ down' = down \o Frame(Request)
  BY ReadAckDoes
<1>2. gdb' = gdb /\ faults' = faults
  BY <1>1, StubStays
<1>3. PICK r \in Requests : r = Request
  BY <1>1, RequestReal
<1>4. down \in Seq(Tokens) /\ up \in Seq(Tokens)
  BY LineTyped
<1>5. /\ NoAck(down) => NoAck(down')
      /\ Head(up) # Ack => ~None(down', "$")
  BY <1>1, <1>3, <1>4, Behind, FrameStarts
<1>6. /\ NoEnd(up) => NoEnd(up') /\ Head(up).kind # "#"
      /\ EndLast(up) => EndLast(up')
      /\ \A K : Within(up, K) => Within(up', K)
      /\ \A K, L : Never(up, K, L) => Never(up', K, L)
      /\ Head(up) \in Tokens /\ up' \in Seq(Tokens)
  BY <1>1, <1>4, LessToRead
<1>7. ~Reading
  BY <1>1 DEF Reading
<1>8. CASE gdb.at = "idle"
  <2>1. NoEnd(stub.buf) /\ NoEnd(up) /\ NoAck(down) /\ down = <<>> /\ Len(up) <= 1
    BY <1>1, <1>7, <1>8 DEF Situation, Rest
  <2>2. up' = <<>>
    <3>1. Len(up') = Len(up) - 1 /\ Len(up) \in Nat \ {0}
      BY <1>1, <1>4, TailFacts
    <3>2. Len(up') = 0
      BY <2>1, <3>1
    <3> QED
      BY <1>6, <3>2, SeqFacts
  <2>3. NoEnd(stub'.buf) /\ NoEnd(up') /\ NoAck(down')
    BY <1>1, <1>5, <1>6, <2>1
  <2>4. \/ Reading' /\ down' = <<>>
        \/ stub'.at = "ack" /\ up' = <<>>
    BY <1>1, <2>1, <2>2 DEF Reading
  <2>5. Rest'
    BY <2>3, <2>4 DEF Rest, NoEnd, NoAck
  <2> QED
    BY <1>2, <1>8, <2>5 DEF Situation, Sending
<1>9. CASE Sending
  <2>1. Skipping
    BY <1>1, <1>7, <1>9 DEF Situation, Asking, Lost, Refused, Accepted, Mute
  <2>2. CASE Head(up) = Ack
    <3>1. /\ Reading' /\ NoEnd(stub'.buf) /\ down' = down
          /\ stub'.buf = stub.buf
      BY <1>1, <2>1, <2>2 DEF Skipping, Reading
    <3>2. CASE Never(up, Kind("+"), Ends)
      <4>1. Head(up) \in Kind("+")
        BY <1>6, <2>2, KindsOf DEF Ack, Token
      <4>2. Within(up', Tokens \ Ends)
        BY <1>1, <1>4, <3>2, <4>1, NeverAfter
      <4>3. NoEnd(up')
        <5>1. \A t \in Tokens \ Ends : t \in NotKind({"#"})
          BY KindsOf
        <5> QED
          BY <4>2, <5>1, WithinMore DEF NoEnd
      <4>4. Lost'
        BY <1>5, <2>1, <3>1, <4>3 DEF Skipping, Lost, NoEnd, NoAck
      <4> QED
        BY <1>2, <1>9, <4>4 DEF Situation, Sending
    <3>3. CASE ~Never(up, Kind("+"), Ends)
      <4>1. gdb.at = "ack" /\ down = <<>> /\ EndLast(up)
        BY <2>1, <3>3 DEF Skipping
      <4>2. /\ EndLast(stub.buf) /\ Within(stub.buf, EndsFor(gdb.request))
        BY <2>1, LineTyped, NoEndFacts DEF Skipping
      <4>3. EndLast(up') /\ Within(up', EndsFor(gdb.request))
        BY <1>6, <2>1, <4>1 DEF Skipping
      <4>4. Asking'
        BY <1>2, <3>1, <4>1, <4>2, <4>3 DEF Asking, NoEnd, EndLast
      <4> QED
        BY <1>2, <4>1, <4>4 DEF Situation
    <3> QED
      BY <3>2, <3>3
  <2>3. CASE Head(up) # Ack
    <3>1. Never(up', Kind("+"), Ends)
      <4>1. CASE Never(up, Kind("+"), Ends)
        BY <1>6, <4>1
      <4>2. CASE Never(up, Tokens, Kind("+"))
        <5>1. Within(up', Tokens \ Kind("+"))
          BY <1>1, <1>4, <1>6, <4>2, NeverAfter
        <5> QED
          BY <1>6, <5>1, NeverNone
      <4> QED
        BY <2>1, <4>1, <4>2 DEF Skipping
    <3>2. ~Stuck'
      BY <1>5, <2>3 DEF Stuck, None
    <3>3. stub' = stub /\ Request' = Request
      BY <1>1, <2>3
    <3>4. NoAck(down') /\ Within(up', EndsFor(gdb.request))
      BY <1>5, <1>6, <2>1 DEF Skipping
    <3>5. Skipping'
      BY <1>2, <2>1, <3>1, <3>2, <3>3, <3>4 DEF Skipping, NoEnd, NoAck
    <3> QED
      BY <1>2, <1>9, <3>5 DEF Situation, Sending
  <2> QED
    BY <2>2, <2>3
<1>10. CASE gdb.at \in {"reply", "frame"}
  <2>1. Answering /\ Again
    BY <1>1, <1>7, <1>10 DEF Situation, Answering, Arriving, Broken, Vain
  <2>2. PICK t \in NotKind({"+", "#"}) : up = <<t>>
    BY <2>1 DEF Again
  <2>3. Head(up) # Ack /\ up' = <<>>
    <3>1. Head(<<t>>) = t /\ Tail(<<t>>) = <<>>
      OBVIOUS
    <3>2. t.kind # "+"
      BY DEF NotKind
    <3> QED
      BY <1>1, <2>2, <3>1, <3>2 DEF Ack, Token
  <2>4. down' = Frame(gdb.request)
    <3>1. <<>> \o Frame(r) = Frame(r)
      BY FrameShape, RemoteLinkAssumption DEF Requests
    <3> QED
      BY <1>1, <1>3, <2>1, <2>3, <3>1 DEF Answering, Again
  <2>5. Arriving'
    BY <1>1, <1>2, <2>1, <2>3, <2>4 DEF Arriving, Again, Frame, Token
  <2>6. Answering'
    BY <1>1, <1>2, <2>1, <2>3, <2>5 DEF Answering, NoEnd
  <2> QED
    BY <1>2, <1>10, <2>6 DEF Situation, Sending
<1> QED
  BY <1>8, <1>9, <1>10, LineTyped DEF Sending

(* A fault makes nothing longer.                                           *)
LEMMA DamagedLength ==
    ASSUME NEW s \in Seq(Tokens), NEW t, Damages(s, t), Len(s) <= 1
    PROVE  Len(t) <= 1
<1>1. PICK u \in Seq(Tokens) : u = Tail(s)
  BY TailFacts DEF Damages
<1>2. Len(u) = Len(s) - 1 /\ Len(s) \in Nat \ {0} /\ Len(u) \in Nat
  BY <1>1, TailFacts, SeqFacts DEF Damages
<1>3. CASE t = Tail(s)
  BY <1>1, <1>2, <1>3
<1>4. ASSUME NEW g \in Tokens, t = <<g>> \o Tail(s) PROVE Len(t) <= 1
  <2>1. <<g>> \in Seq(Tokens) /\ Len(<<g>>) = 1
    OBVIOUS
  <2>2. Len(<<g>> \o u) = Len(<<g>>) + Len(u)
    BY <2>1, CatFacts
  <2> QED
    BY <1>1, <1>2, <1>4, <2>1, <2>2
<1> QED
  BY <1>3, <1>4 DEF Damages

(* A fault on the way to the stub.                                         *)
LEMMA UpFaultSituated ==
    ASSUME Typed, Sourced, Situation, UNCHANGED <<gdb, stub, executed, down>>,
           faults' = faults + 1, Damages(up, up')
    PROVE  Situation'
<1>1. /\ up \in Seq(Tokens) /\ up # <<>> /\ faults \in Nat
      /\ gdb.tcount \in Nat /\ gdb.tries \in Nat
  BY LineTyped DEF Damages
<1>2. Request' = Request /\ Reading' = Reading
  BY DEF Request, Reading
<1>3. /\ Token("junk", 0) \in Tokens /\ Token("#", 0) \in Tokens
      /\ Token("junk", 0).kind = "junk"
      /\ Token("#", 0).kind = "#" /\ Token("#", 0).value = 0
  <2>1. 0 \in 0..N
    BY RemoteLinkAssumption
  <2> QED
    BY <2>1, TokenTypes DEF Token
<1>4. Head(up) \in Tokens
  BY <1>1, LessToRead
<1>5. NoEnd(up) => NoEnd(up')
  <2>1. Token("junk", 0) \in NotKind({"#"})
    BY <1>3 DEF NotKind
  <2>2. NoEnd(up) => Head(up).kind # "#"
    BY <1>1, LessToRead
  <2> QED
    BY <1>1, <2>1, <2>2, WithinDamaged DEF NoEnd
<1>6. \A q : Within(up, EndsFor(q)) => Within(up', EndsFor(q))
  <2>1. \A q : Token("junk", 0) \in EndsFor(q) /\ Token("#", 0) \in EndsFor(q)
    BY <1>3 DEF EndsFor
  <2> QED
    BY <1>1, <2>1, WithinDamaged
<1>7. /\ EndLast(up) => EndLast(up')
      /\ Never(up, Tokens, Kind("+")) => Never(up', Tokens, Kind("+"))
      /\ Never(up, Kind("+"), Ends) => Never(up', Kind("+"), Ends)
  <2>1. /\ Token("junk", 0) \notin Ends /\ Token("junk", 0) \notin Kind("+")
        /\ Token("#", 0) \notin Kind("+")
        /\ Head(up).kind = "#" => Head(up) \in Ends
    BY <1>3, <1>4, KindsOf
  <2>2. EndLast(up) => EndLast(up')
    BY <1>1, <2>1, NeverDamaged DEF EndLast
  <2>3. Never(up, Tokens, Kind("+")) => Never(up', Tokens, Kind("+"))
    BY <1>1, <1>4, NeverDamaged
  <2>4. Never(up, Kind("+"), Ends) => Never(up', Kind("+"), Ends)
    BY <1>1, <2>1, NeverDamaged
  <2> QED
    BY <2>2, <2>3, <2>4
<1>8. CASE gdb.at = "idle"
  <2>1. Rest
    BY <1>8 DEF Situation
  <2>2. Len(up) <= 1 => Len(up') <= 1
    BY <1>1, DamagedLength
  <2>3. Rest'
    BY <1>1, <1>2, <1>5, <2>1, <2>2 DEF Rest, NoEnd, NoAck
  <2> QED
    BY <1>8, <2>3 DEF Situation, Sending
<1>9. CASE Sending
  <2>1. Asking \/ Lost \/ Skipping
    BY <1>1, <1>9 DEF Situation, Refused, Accepted, Mute
  <2>2. CASE Asking
    <3>1. NoEnd(stub.buf)
      BY <1>1, <2>2 DEF Asking
    <3>2. Asking'
      BY <1>2, <1>6, <1>7, <2>2, <3>1 DEF Asking, NoEnd, EndLast
    <3> QED
      BY <2>2, <3>2 DEF Situation, Asking
  <2>3. CASE Lost
    <3>1. Lost'
      BY <1>2, <1>5, <2>3 DEF Lost, NoEnd, NoAck
    <3> QED
      BY <1>9, <3>1 DEF Situation, Sending
  <2>4. CASE Skipping
    <3>1. /\ faults' > 0
          /\ Request' # gdb'.request =>
                gdb'.tcount <= faults' /\ gdb'.tcount < faults'
      BY <1>1, <1>2, <2>4 DEF Skipping
    <3>2. Skipping'
      BY <1>2, <1>6, <1>7, <2>4, <3>1 DEF Skipping, NoEnd, NoAck, EndLast
    <3> QED
      BY <1>9, <3>2 DEF Situation, Sending
  <2> QED
    BY <2>1, <2>2, <2>3, <2>4
<1>10. CASE gdb.at \in {"reply", "frame"}
  <2>1. (Answering /\ Again) \/ Vain
    BY <1>1, <1>10 DEF Situation, Answering, Arriving, Broken
  <2>2. CASE Vain
    <3>1. Vain'
      BY <1>2, <1>5, <2>2 DEF Vain, NoEnd
    <3> QED
      BY <1>10, <3>1 DEF Situation, Sending
  <2>3. CASE Answering /\ Again
    <3>1. PICK t \in NotKind({"+", "#"}) : up = <<t>>
      BY <2>3 DEF Again
    <3>2. up' = <<>> \/ up' = <<Token("junk", 0)>>
      <4>1. Head(up) = t /\ Tail(up) = <<>> /\ t.kind # "#"
        BY <3>1 DEF NotKind
      <4>2. \A g : <<g>> \o <<>> = <<g>>
        OBVIOUS
      <4> QED
        BY <4>1, <4>2 DEF Damages
    <3>3. gdb.tries <= faults' /\ gdb.tries <= 1 + faults'
      BY <1>1, <2>3 DEF Again
    <3>4. CASE up' = <<>>
      <4>1. gdb.body = <<>> /\ down' = <<>> /\ stub'.at = "ack"
        BY <2>3 DEF Again, Sourced
      <4>2. /\ Within(<<>>, NotKind({"$"})) /\ EndLast(<<>>)
            /\ \A q : Within(<<>>, Of(q))
        BY WithinFew, NeverFew DEF EndLast
      <4>3. gdb' = gdb /\ gdb'.tries <= faults'
        BY <3>3
      <4>4. Broken'
        BY <3>4, <4>1, <4>2, <4>3 DEF Broken, EndLast
      <4>5. Answering'
        BY <1>2, <2>3, <4>4 DEF Answering, NoEnd
      <4> QED
        BY <1>10, <4>5 DEF Situation, Sending
    <3>5. CASE up' = <<Token("junk", 0)>>
      <4>1. Token("junk", 0) \in NotKind({"+", "#"})
        BY <1>3 DEF NotKind
      <4>2. Again'
        <5>1. PICK j : j = Token("junk", 0)
          OBVIOUS
        <5>2. j \in NotKind({"+", "#"}) /\ up' = <<j>>
          BY <3>5, <4>1, <5>1
        <5>3. /\ stub' = stub /\ gdb' = gdb /\ down' = down
              /\ gdb'.tries <= 1 + faults'
          BY <3>3
        <5>4. stub.at = "ack" /\ gdb.at = "reply" /\ down = <<>>
          BY <2>3 DEF Again
        <5> QED
          BY <5>2, <5>3, <5>4 DEF Again, NotKind, Tokens
      <4>3. Answering'
        BY <1>2, <2>3, <4>2 DEF Answering, NoEnd
      <4> QED
        BY <1>10, <4>3 DEF Situation, Sending
    <3> QED
      BY <3>2, <3>4, <3>5
  <2> QED
    BY <2>1, <2>2, <2>3
<1> QED
  BY <1>8, <1>9, <1>10, LineTyped DEF Sending


(* A token alone on the line, not the end of a frame.                      *)
LEMMA OneDamaged ==
    ASSUME NEW t, NEW d, Damages(<<t>>, d), t.kind # "#"
    PROVE  d \in {<<>>, <<Token("junk", 0)>>}
<1>1. Head(<<t>>) = t /\ Tail(<<t>>) = <<>> /\ \A g : <<g>> \o <<>> = <<g>>
  OBVIOUS
<1>2. PICK s : s = <<t>>
  OBVIOUS
<1>3. Damages(s, d) /\ Head(s).kind # "#" /\ Tail(s) = <<>>
  BY <1>1, <1>2
<1> QED
  BY <1>1, <1>3 DEF Damages

(* The parts of an answer that were not read yet.                          *)
LEMMA AnswerParts ==
    ASSUME NEW q \in Requests
    PROVE  /\ Within(<<Token("data", q), Token("#", q)>>, NotKind({"$"}))
           /\ Within(<<Token("#", q)>>, NotKind({"$"}))
           /\ Within(<<>>, NotKind({"$"}))
           /\ Within(Frame(q), Of(q))
           /\ Within(<<Token("data", q), Token("#", q)>>, Of(q))
           /\ Within(<<Token("#", q)>>, Of(q))
           /\ Within(<<Token("data", q)>>, Of(q)) /\ Within(<<>>, Of(q))
           /\ EndLast(Frame(q))
           /\ EndLast(<<Token("data", q), Token("#", q)>>)
           /\ EndLast(<<Token("#", q)>>)
           /\ Tail(Frame(q)) = <<Token("data", q), Token("#", q)>>
<1>1. q \in 0..N
  BY RemoteLinkAssumption DEF Requests
<1>2. PICK a, b, c : a = Token("$", 0) /\ b = Token("data", q) /\ c = Token("#", q)
  OBVIOUS
<1>3. /\ a \in Tokens /\ b \in Tokens /\ c \in Tokens
      /\ a.kind = "$" /\ b.kind = "data" /\ c.kind = "#"
      /\ b.value = q /\ c.value = q
  BY <1>1, <1>2, TokenTypes DEF Token
<1>4. /\ b \in NotKind({"$"}) /\ c \in NotKind({"$"})
      /\ a \in Of(q) /\ b \in Of(q) /\ c \in Of(q)
  BY <1>3 DEF NotKind, Of
<1>5. /\ Frame(q) \in Seq(Tokens) /\ Frame(q) # <<>> /\ EndLast(Frame(q))
      /\ Tail(Frame(q)) = <<b, c>> /\ Within(Frame(q), Of(q))
  BY <1>1, <1>2, <1>4, FrameShape DEF EndLast
<1>6. EndLast(<<b, c>>)
  BY <1>5, NeverTail DEF EndLast
<1>7. EndLast(<<c>>)
  BY NeverFew DEF EndLast
<1>8. /\ Within(<<b, c>>, NotKind({"$"})) /\ Within(<<c>>, NotKind({"$"}))
      /\ Within(<<>>, NotKind({"$"}))
  BY <1>4, WithinFew
<1>9. /\ Within(<<b, c>>, Of(q)) /\ Within(<<c>>, Of(q)) /\ Within(<<b>>, Of(q))
      /\ Within(<<>>, Of(q))
  BY <1>4, WithinFew
<1> QED
  BY <1>2, <1>5, <1>6, <1>7, <1>8, <1>9

(* A fault on the way to gdb.                                              *)
LEMMA DownFaultSituated ==
    ASSUME Typed, Sourced, Situation, UNCHANGED <<gdb, stub, executed, up>>,
           faults' = faults + 1, Damages(down, down')
    PROVE  Situation'
<1>1. /\ down \in Seq(Tokens) /\ down # <<>> /\ faults \in Nat
      /\ gdb.tcount \in Nat /\ gdb.tries \in Nat
  BY LineTyped DEF Damages
<1>2. Request' = Request /\ Reading' = Reading
  BY DEF Request, Reading
<1>3. /\ Token("junk", 0) \in Tokens /\ Token("#", 0) \in Tokens
      /\ Token("junk", 0).kind = "junk"
      /\ Token("#", 0).kind = "#" /\ Token("#", 0).value = 0
  <2>1. 0 \in 0..N
    BY RemoteLinkAssumption
  <2> QED
    BY <2>1, TokenTypes DEF Token
<1>4. /\ Token("junk", 0) \in NotKind({"+", "-"})
      /\ Token("#", 0) \in NotKind({"+", "-"})
  BY <1>3 DEF NotKind
<1>5. NoAck(down) => NoAck(down')
  BY <1>1, <1>4, WithinDamaged DEF NoAck
<1>6. CASE gdb.at = "idle"
  <2>1. Rest
    BY <1>6 DEF Situation
  <2>2. Rest'
    BY <1>1, <1>2, <1>5, <2>1 DEF Rest, NoEnd, NoAck
  <2> QED
    BY <1>6, <2>2 DEF Situation, Sending
<1>7. CASE Sending
  <2>1. Lost \/ Refused \/ Accepted \/ Mute \/ Skipping
    BY <1>1, <1>7 DEF Situation, Asking
  <2>2. CASE Lost
    <3>1. Lost'
      BY <1>2, <1>5, <2>2 DEF Lost, NoEnd, NoAck
    <3> QED
      BY <1>7, <3>1 DEF Situation, Sending
  <2>3. CASE Refused
    <3>1. NoAck(down')
      <4>1. PICK t : t = Nak
        OBVIOUS
      <4>2. t.kind # "#" /\ down = <<t>>
        BY <2>3, <4>1 DEF Refused, Nak, Token
      <4>3. Damages(<<t>>, down')
        BY <4>2
      <4>4. down' \in {<<>>, <<Token("junk", 0)>>}
        BY <4>2, <4>3, OneDamaged
      <4>5. /\ Within(<<>>, NotKind({"+", "-"}))
            /\ Within(<<Token("junk", 0)>>, NotKind({"+", "-"}))
        BY <1>4, WithinFew
      <4> QED
        BY <4>4, <4>5 DEF NoAck
    <3>2. NoEnd(<<>>)
      BY WithinFew DEF NoEnd
    <3>3. Lost'
      BY <2>3, <3>1, <3>2 DEF Refused, Lost, Reading, NoEnd, NoAck
    <3> QED
      BY <1>7, <3>3 DEF Situation, Sending
  <2>4. CASE (Accepted /\ stub.at = "execute") \/ Mute
    <3>1. down' \in {<<>>, <<Token("junk", 0)>>}
      <4>1. PICK t, j : t = Ack /\ j = Token("junk", 0)
        OBVIOUS
      <4>2. t.kind # "#" /\ j.kind # "#" /\ (down = <<t>> \/ down = <<j>>)
        BY <1>1, <1>3, <2>4, <4>1 DEF Accepted, Mute, Ack, Token
      <4>3. Damages(<<t>>, down') \/ Damages(<<j>>, down')
        BY <4>2
      <4> QED
        BY <4>2, <4>3, OneDamaged
    <3>2. Mute'
      BY <1>2, <2>4, <3>1 DEF Accepted, Mute, NoEnd
    <3> QED
      BY <1>7, <3>2 DEF Situation, Sending
  <2>5. CASE Accepted /\ stub.at = "ack"
    <3>1. PICK r \in Requests : r = Request
      BY <2>5, RequestReal
    <3>2. /\ up = <<>> /\ Request = gdb.request /\ NoEnd(stub.buf)
          /\ down = <<Ack>> \o Frame(r) /\ gdb.at = "ack"
      BY <2>5, <3>1 DEF Accepted
    <3>3. Head(down) = Ack /\ Tail(down) = Frame(r)
      <4>1. PICK t : t = Frame(r)
        OBVIOUS
      <4>2. t \in Seq(Tokens) /\ Ack \in Tokens
        BY <4>1, TokenTypes, RemoteLinkAssumption DEF Requests
      <4>3. Head(<<Ack>> \o t) = Ack /\ Tail(<<Ack>> \o t) = t
        BY <4>2
      <4> QED
        BY <3>2, <4>1, <4>3
    <3>4. NoAck(Frame(r)) /\ Frame(r) \in Seq(Tokens)
      <4>1. NoAck(<<>>) /\ <<>> \in Seq(Tokens)
        BY WithinFew DEF NoAck
      <4>2. <<>> \o Frame(r) = Frame(r)
        BY FrameShape, RemoteLinkAssumption DEF Requests
      <4>3. NoAck(<<>> \o Frame(r))
        BY <4>1, Behind
      <4> QED
        BY <4>2, <4>3, FrameShape, RemoteLinkAssumption DEF Requests
    <3>5. NoAck(down')
      BY <1>1, <1>4, <3>3, <3>4, WithinDamaged DEF NoAck
    <3>6. /\ \A q : Within(<<>>, EndsFor(q))
          /\ Never(<<>>, Kind("+"), Ends)
      BY WithinFew, NeverFew
    <3>7. faults' > 0
      BY <1>1
    <3>8. Skipping'
      BY <1>2, <2>5, <3>2, <3>5, <3>6, <3>7
         DEF Skipping, NoEnd, NoAck
    <3> QED
      BY <1>7, <3>8 DEF Situation, Sending
  <2>6. CASE Skipping
    <3>1. /\ faults' > 0
          /\ Request' # gdb'.request =>
                gdb'.tcount <= faults' /\ gdb'.tcount < faults'
      BY <1>1, <1>2, <2>6 DEF Skipping
    <3>2. Never(up, Kind("+"), Ends)
      BY <1>1, <2>6 DEF Skipping
    <3>3. Skipping'
      BY <1>2, <1>5, <2>6, <3>1, <3>2 DEF Skipping, NoEnd, NoAck, EndLast
    <3> QED
      BY <1>7, <3>3 DEF Situation, Sending
  <2> QED
    BY <2>1, <2>2, <2>3, <2>4, <2>5, <2>6 DEF Accepted
<1>8. CASE gdb.at \in {"reply", "frame"}
  <2>1. Answering /\ (Arriving \/ Broken)
    BY <1>1, <1>8 DEF Situation, Answering, Again, Vain
  <2>2. stub.at = "ack"
    BY <1>1, <2>1 DEF Arriving, Broken
  <2>3. PICK q \in Requests : q = gdb.request
    BY <2>1, <2>2, RequestReal DEF Answering
  <2>4. /\ up = <<>> /\ gdb.tries <= 1 + faults
        /\ Within(Tail(down), NotKind({"$"})) /\ EndLast(down)
        /\ Within(down, Of(q)) /\ Within(gdb.body, Of(q))
    <3>1. CASE Broken
      BY <1>1, <2>3, <3>1, LessToRead DEF Broken
    <3>2. CASE Arriving
      <4>1. up = <<>> /\ gdb.tries <= 1 + faults
        BY <3>2 DEF Arriving
      <4>2. CASE gdb.at = "reply"
        <5>1. down = Frame(q) /\ gdb.body = <<>>
          BY <1>1, <2>3, <3>2, <4>2 DEF Arriving, Sourced
        <5> QED
          BY <4>1, <5>1, AnswerParts
      <4>3. CASE gdb.at = "frame" /\ gdb.body = <<>>
        <5>1. down = <<Token("data", q), Token("#", q)>>
          BY <2>3, <3>2, <4>3 DEF Arriving
        <5>2. Within(Tail(down), NotKind({"$"}))
          BY <1>1, <5>1, AnswerParts, LessToRead
        <5> QED
          BY <4>1, <4>3, <5>1, <5>2, AnswerParts
      <4>4. CASE gdb.at = "frame" /\ gdb.body # <<>>
        <5>1. down = <<Token("#", q)>> /\ gdb.body = <<Token("data", q)>>
          BY <2>3, <3>2, <4>4 DEF Arriving
        <5>2. Within(Tail(down), NotKind({"$"}))
          BY <1>1, <5>1, AnswerParts, LessToRead
        <5> QED
          BY <4>1, <5>1, <5>2, AnswerParts
      <4> QED
        BY <1>8, <4>2, <4>3, <4>4
    <3> QED
      BY <2>1, <3>1, <3>2
  <2>5. Within(down', NotKind({"$"}))
    <3>1. /\ Token("junk", 0) \in NotKind({"$"})
          /\ Token("#", 0) \in NotKind({"$"})
      BY <1>3 DEF NotKind
    <3> QED
      BY <1>1, <2>4, <3>1, WithinDamaged
  <2>6. Within(down', Of(q))
    <3>1. Token("junk", 0) \in Of(q) /\ Token("#", 0) \in Of(q)
      BY <1>3 DEF Of
    <3> QED
      BY <1>1, <2>4, <3>1, WithinDamaged
  <2>7. EndLast(down')
    <3>1. /\ Token("junk", 0) \notin Ends
          /\ Head(down).kind = "#" => Head(down) \in Ends
      BY <1>1, <1>3, LessToRead, KindsOf
    <3> QED
      BY <1>1, <2>4, <3>1, NeverDamaged DEF EndLast
  <2>8. gdb.tries <= faults'
    BY <1>1, <2>4
  <2>9. Broken'
    BY <2>2, <2>3, <2>4, <2>5, <2>6, <2>7, <2>8 DEF Broken, EndLast
  <2>10. Answering'
    BY <1>2, <2>1, <2>9 DEF Answering, NoEnd
  <2> QED
    BY <1>8, <2>10 DEF Situation, Sending
<1> QED
  BY <1>6, <1>7, <1>8, LineTyped DEF Sending

(* Every step keeps the situation, as long as the link is reliable.        *)

(* What the '+' in a request does: the stub takes it for the ack, and what *)
(* follows of the request has no start.                                    *)
LEMMA RequestAsAckSituated ==
    ASSUME Typed, Sourced, Situation, Alone, RequestAsAck
    PROVE  Headless'
<1>1. /\ StubOthers /\ stub.at = "ack" /\ up # <<>> /\ up' = Tail(up)
      /\ Head(up).kind = "data" /\ down' = down \o Frame(Request)
      /\ stub'.at = "hunt" /\ stub'.buf = stub.buf
  BY RequestAsAckDoes
<1>2. down \in Seq(Tokens) /\ up \in Seq(Tokens) /\ gdb' = gdb
  BY <1>1, LineTyped DEF StubOthers
<1>3. PICK r \in Requests : r = Request
  BY <1>1, RequestReal
<1>4. Head(up) \in Tokens /\ Head(up) \in Kind("data")
      /\ Head(up) \notin NotKind({"data"})
  BY <1>1, <1>2, LessToRead, KindsOf
<1>5. Sending
  <2>1. ~Within(up, NotKind({"data"}))
    BY <1>1, <1>2, <1>4, WithinTail
  <2> QED
    BY <1>1, <2>1 DEF Alone
<1>6. Skipping
  BY <1>1, <1>5 DEF Situation, Asking, Lost, Refused, Accepted, Mute, Reading
<1>7. NoAck(down')
  BY <1>1, <1>2, <1>3, <1>6, Behind DEF Skipping
<1>8. NoStart(up')
  <2>1. Within(up', Tokens \ Kind("$"))
    BY <1>1, <1>2, <1>4, <1>5, NeverAfter DEF Alone
  <2>2. \A t \in Tokens \ Kind("$") : t \in NotKind({"$"})
    BY KindsOf
  <2> QED
    BY <2>1, <2>2, WithinMore DEF NoStart
<1>9. NoStart(stub'.buf)
  BY <1>1, WithinFew DEF Alone, Reading, NoStart
<1> QED
  BY <1>1, <1>2, <1>5, <1>7, <1>8, <1>9
     DEF Headless, Sending, NoAck, NoStart, NotKind, Tokens, Within

(* Until gdb sends its request again.                                      *)
LEMMA HeadlessKeeps ==
    ASSUME Typed, Sourced, Reliable, Headless, Next, ~Unframed,
           early = 0, early' = 0
    PROVE  Headless' \/ Situation'
<1>1. /\ Sending /\ stub.at = "hunt" /\ NoAck(down)
      /\ NoStart(stub.buf) /\ NoStart(up)
      /\ down \in Seq(Tokens) /\ up \in Seq(Tokens)
      /\ stub.buf \in Seq(Tokens)
  BY LineTyped DEF Headless
<1>2. /\ down # <<>> => /\ NoAck(Tail(down))
                        /\ Head(down).kind \notin {"+", "-"}
      /\ stub.buf # <<>> => /\ NoStart(Tail(stub.buf))
                            /\ Head(stub.buf).kind # "$"
  <2>1. stub.buf # <<>> => /\ Within(Tail(stub.buf), NotKind({"$"}))
                           /\ Head(stub.buf) \in NotKind({"$"})
    BY <1>1, LessToRead DEF NoStart
  <2> QED
    BY <1>1, <2>1, LessToRead DEF NoStart, NotKind
<1>3. ASSUME gdb'.at \in {"ack", "skip"}, stub'.at = "hunt", NoAck(down'),
             NoStart(stub'.buf), NoStart(up')
      PROVE  Headless'
  BY <1>3 DEF Headless, Sending, NoAck, NoStart
<1>4. CASE OldReply \/ Ignored
  <2>1. /\ Others /\ up' = up /\ down # <<>> /\ down' = Tail(down)
        /\ gdb'.at \in {"ack", "skip"}
    BY <1>1, <1>4, OldReplyDoes, IgnoredDoes DEF Sending
  <2> QED
    BY <1>1, <1>2, <1>3, <2>1, GdbStays
<1>5. CASE Skipped
  <2>1. /\ Others /\ up' = up \o <<Ack>> /\ gdb'.at = "ack"
        /\ Took \/ Waited
    BY <1>5, SkippedDoes
  <2>2. NoAck(down')
    BY <1>1, <1>2, <2>1 DEF Took, Waited
  <2>3. NoStart(<<Ack>>) /\ <<Ack>> \in Seq(Tokens)
    <3>1. Ack \in NotKind({"$"}) /\ Ack \in Tokens
      BY TokenTypes DEF Ack, NotKind, Token
    <3> QED
      BY <3>1, WithinFew DEF NoStart
  <2>4. NoStart(up')
    BY <1>1, <2>1, <2>3, WithinCat DEF NoStart
  <2> QED
    BY <1>1, <1>3, <2>1, <2>2, <2>4, GdbStays
<1>6. CASE Resend
  <2>1. gdb.at = "ack" /\ ((Took /\ Head(down).kind = "-") \/ Waited)
    BY <1>6, ResendDoes
  <2>2. Silence
    BY <1>2, <2>1 DEF Took, Waited
  <2>3. down = <<>> /\ up = <<>> /\ stub.buf = <<>>
    BY <1>1, <2>2 DEF Silence
  <2>4. NoEnd(<<>>) /\ EndLast(<<>>) /\ \A K : Within(<<>>, K)
    BY WithinFew, NeverFew DEF NoEnd, EndLast
  <2>5. Asking
    BY <1>1, <2>1, <2>3, <2>4 DEF Asking, Reading
  <2>6. Situation
    BY <2>1, <2>5 DEF Situation
  <2> QED
    BY <1>6, <2>6, ResendSituated
<1>7. CASE Fill
  <2>1. /\ Typed' /\ StubOthers /\ down' = down /\ stub'.at = stub.at
        /\ stub'.buf \o up' = up
    BY <1>7, FillDoes
  <2>2. stub'.buf \in Seq(Tokens) /\ up' \in Seq(Tokens) /\ gdb' = gdb
    BY <2>1, StubStays DEF Typed, TypeOK
  <2>3. NoStart(stub'.buf) /\ NoStart(up')
    BY <1>1, <2>1, <2>2, WithinCat DEF NoStart
  <2> QED
    BY <1>1, <1>3, <2>1, <2>2, <2>3 DEF Sending
<1>8. CASE Hunt
  <2>1. /\ StubOthers /\ down' = down /\ up' = up /\ stub'.at = "hunt"
        /\ stub.buf # <<>> /\ stub'.buf = Tail(stub.buf)
    BY <1>2, <1>8, HuntDoes
  <2> QED
    BY <1>1, <1>2, <1>3, <2>1, StubStays DEF Sending
<1>9. CASE Fault
  <2>1. /\ UNCHANGED <<gdb, stub>>
        /\ \/ Damages(up, up') /\ down' = down
           \/ Damages(down, down') /\ up' = up
    BY <1>9, FaultDoes
  <2>2. /\ \A K \in {{"$"}, {"+", "-"}} : Token("junk", 0) \in NotKind(K)
                                          /\ Token("#", 0) \in NotKind(K)
    <3>1. 0 \in 0..N
      BY RemoteLinkAssumption
    <3> QED
      BY <3>1, TokenTypes DEF NotKind, Token
  <2>3. Damages(up, up') => NoStart(up')
    BY <1>1, <2>2, WithinDamaged DEF NoStart
  <2>4. Damages(down, down') => NoAck(down')
    BY <1>1, <2>2, WithinDamaged DEF NoAck
  <2> QED
    BY <1>1, <1>3, <2>1, <2>3, <2>4 DEF Sending
<1>10. /\ ~putpkt /\ ~ReplyStarts /\ ~ReplyGoesOn /\ ~ReplyEnds /\ ~Retry
       /\ ~Acked
  BY <1>1, <1>2, PutpktDoes, ReplyStartsDoes, ReplyGoesOnDoes, ReplyEndsDoes,
     RetryDoes, AckedDoes DEF Sending
<1>11. ~RequestGoesOn /\ ~RequestEnds /\ ~Execute /\ ~ReadAck /\ ~RequestAsAck
  BY <1>1, RequestGoesOnDoes, RequestEndsDoes, ExecuteDoes, ReadAckDoes,
     RequestAsAckDoes
<1> QED
  BY <1>4, <1>5, <1>6, <1>7, <1>8, <1>9, <1>10, <1>11
     DEF Next, GdbStep, StubStep

(* What is written behind a request is no start of a frame.                *)
LEMMA AloneGrows ==
    ASSUME NEW s \in Seq(Tokens), NEW t,
           t = <<Ack>> \/ t = <<Nak>> \/ t = <<Nak, Ack>>
    PROVE  /\ Never(s, Kind("data"), Kind("$"))
                 => Never(s \o t, Kind("data"), Kind("$"))
           /\ Within(s, NotKind({"data"})) => Within(s \o t, NotKind({"data"}))
<1>1. Ack \in Tokens /\ Nak \in Tokens /\ Ack.kind = "+" /\ Nak.kind = "-"
  BY TokenTypes DEF Ack, Nak, Token
<1>2. ASSUME NEW K, Ack \in K, Nak \in K PROVE Within(t, K)
  <2>1. Within(<<Ack>>, K) /\ Within(<<Nak>>, K) /\ Within(<<Nak, Ack>>, K)
    BY <1>2, WithinFew
  <2> QED
    BY <2>1
<1>3. t \in Seq(Tokens)
  <2>1. <<Ack>> \in Seq(Tokens) /\ <<Nak>> \in Seq(Tokens)
        /\ <<Nak, Ack>> \in Seq(Tokens)
    BY <1>1
  <2> QED
    BY <2>1
<1>4. /\ Within(t, Tokens \ Kind("$")) /\ Within(t, Tokens \ Kind("data"))
      /\ Within(t, NotKind({"data"}))
  BY <1>1, <1>2, KindsOf
<1>5. Never(t, Kind("data"), Kind("$"))
  BY <1>3, <1>4, NeverNone
<1> QED
  BY <1>3, <1>4, <1>5, NeverCat, WithinCat

(* gdb puts a request on the line where no other is.                       *)
LEMMA GdbAlone ==
    ASSUME Typed, Sourced, Headless \/ Situation, Alone, GdbStep, ~Unframed,
           early = 0, early' = 0
    PROVE  Alone'
<1>1. up \in Seq(Tokens) /\ down \in Seq(Tokens) /\ gdb.request \in 0..N
  BY LineTyped
<1>2. stub' = stub
  BY PutpktDoes, AckedDoes, ResendDoes, OldReplyDoes, IgnoredDoes,
     SkippedDoes, ReplyStartsDoes, ReplyGoesOnDoes, ReplyEndsDoes, RetryDoes
     DEF GdbStep, Others
<1>3. (~Reading => stub.buf = <<>>)'
  BY <1>2 DEF Alone, Reading
<1> SUFFICES ASSUME stub.at = "ack"
             PROVE  IF Sending' THEN Never(up', Kind("data"), Kind("$"))
                                ELSE Within(up', NotKind({"data"}))
  <2>1. \A K, L : Never(up, K, L)' = Never(up', K, L)
    BY DEF Never
  <2>2. \A K : Within(up, K)' = Within(up', K)
    BY DEF Within
  <2>3. /\ Kind("data")' = Kind("data") /\ Kind("$")' = Kind("$")
        /\ NotKind({"data"})' = NotKind({"data"})
    BY DEF Kind, NotKind, Tokens
  <2> QED
    BY <1>2, <1>3, <2>1, <2>2, <2>3 DEF Alone, Never, Within
<1>4. /\ Situation /\ ~Reading
      /\ IF Sending THEN Never(up, Kind("data"), Kind("$"))
                    ELSE Within(up, NotKind({"data"}))
  BY DEF Headless, Alone, Reading
<1>5. /\ Never(<<>>, Kind("data"), Kind("$")) /\ Within(<<>>, NotKind({"data"}))
  BY NeverFew, WithinFew
<1>6. ASSUME NEW q \in 0..N, NEW s \in Seq(Tokens), Within(s, NotKind({"data"}))
      PROVE  Never(s \o Frame(q), Kind("data"), Kind("$"))
  <2>1. PICK f \in Seq(Tokens) : f = Frame(q)
    BY TokenTypes
  <2>2. /\ Len(f) = 3 /\ f[1] = Token("$", 0) /\ f[2] = Token("data", q)
        /\ f[3] = Token("#", q)
    BY <2>1 DEF Frame
  <2>3. /\ DOMAIN f = 1..3 /\ f[1].kind = "$" /\ f[2].kind = "data"
        /\ f[3].kind = "#"
    BY <2>1, <2>2, SeqFacts DEF Token
  <2>4. \A i \in 1..3 : /\ f[i] \in Kind("data") => i = 2
                        /\ f[i] \in Kind("$") => i = 1
    <3>1. \A i : i \in 1..3 <=> i = 1 \/ i = 2 \/ i = 3
      OBVIOUS
    <3> QED
      BY <2>3, <3>1 DEF Kind
  <2>5. Never(f, Kind("data"), Kind("$"))
    BY <2>3, <2>4 DEF Never
  <2>6. Within(s, Tokens \ Kind("data"))
    <3>1. \A t \in NotKind({"data"}) : t \in Tokens \ Kind("data")
      BY KindsOf DEF NotKind
    <3> QED
      BY <1>6, <3>1, WithinMore
  <2>7. Never(s, Kind("data"), Kind("$"))
    BY <2>6, NeverNone
  <2> QED
    BY <2>1, <2>5, <2>6, <2>7, NeverCat
<1>7. CASE putpkt
  <2>1. PICK q \in Requests : q = gdb.request + 1
    BY <1>7, PutpktDoes
  <2>2. ~Sending /\ Sending' /\ up' = up \o Frame(q) /\ q \in 0..N
    BY <1>7, <2>1, PutpktDoes, RemoteLinkAssumption DEF Sending, Requests
  <2> QED
    BY <1>1, <1>4, <1>6, <2>2
<1>8. CASE Acked
  <2>1. /\ gdb.at = "ack" /\ down # <<>> /\ Head(down).kind = "+"
        /\ ~Sending' /\ up' = up
    BY <1>8, AckedDoes DEF Sending
  <2>2. ~NoAck(down)
    BY <1>1, <2>1, LessToRead
  <2>3. up = <<>>
    BY <1>4, <2>1, <2>2
       DEF Situation, Sending, Asking, Lost, Refused, Accepted, Mute, Skipping
  <2> QED
    BY <1>5, <2>1, <2>3
<1>9. CASE Resend
  <2>1. /\ gdb.at = "ack" /\ ((Took /\ Head(down).kind = "-") \/ Waited)
        /\ \/ gdb'.at = "reply" /\ up' = up
           \/ gdb'.at = "ack" /\ up' = up \o Frame(gdb.request)
    BY <1>9, ResendDoes
  <2>2. up = <<>>
    <3>1. CASE Waited
      BY <3>1 DEF Waited, Silence
    <3>2. CASE Took /\ Head(down).kind = "-"
      <4>1. ~NoAck(down)
        BY <1>1, <3>2, LessToRead DEF Took
      <4> QED
        BY <1>4, <2>1, <4>1 DEF Situation, Sending, Asking, Lost, Refused,
           Accepted, Mute, Skipping
    <3> QED
      BY <2>1, <3>1, <3>2
  <2>3. CASE gdb'.at = "reply" /\ up' = up
    BY <1>5, <2>2, <2>3 DEF Sending
  <2>4. CASE gdb'.at = "ack" /\ up' = up \o Frame(gdb.request)
    BY <1>1, <1>5, <1>6, <2>2, <2>4 DEF Sending
  <2> QED
    BY <2>1, <2>3, <2>4
<1>10. CASE OldReply \/ Ignored \/ ReplyStarts \/ ReplyGoesOn
  <2>1. up' = up /\ Sending' = Sending
    BY <1>10, OldReplyDoes, IgnoredDoes, ReplyStartsDoes, ReplyGoesOnDoes
       DEF Sending
  <2> QED
    BY <1>4, <2>1
<1>11. CASE Skipped \/ ReplyEnds \/ Retry
  <2>1. \/ up' = up \o <<Ack>> \/ up' = up \o <<Nak>>
        \/ up' = up \o <<Nak, Ack>>
    BY <1>11, SkippedDoes, ReplyEndsDoes, RetryDoes
  <2>2. Sending' = Sending
    BY <1>11, SkippedDoes, ReplyEndsDoes, RetryDoes DEF Sending
  <2>3. PICK t : up' = up \o t /\ (t = <<Ack>> \/ t = <<Nak>>
                                   \/ t = <<Nak, Ack>>)
    BY <2>1
  <2> QED
    BY <1>1, <1>4, <2>2, <2>3, AloneGrows
<1> QED
  BY <1>7, <1>8, <1>9, <1>10, <1>11 DEF GdbStep

(* The stub has read the request it took in to its end, and the line       *)
(* writes nothing.                                                         *)
LEMMA StubAlone ==
    ASSUME Typed, Sourced, Headless \/ Situation, Alone, StubStep \/ Fault
    PROVE  Alone'
<1>1. up \in Seq(Tokens) /\ stub.buf \in Seq(Tokens)
  BY LineTyped
<1>2. ASSUME stub'.at \in {"execute", "ack"} => stub'.buf = <<>>,
             stub'.at = "ack" =>
                IF Sending' THEN Never(up', Kind("data"), Kind("$"))
                            ELSE Within(up', NotKind({"data"})),
             stub'.at \in {"hunt", "frame", "execute", "ack"}
      PROVE  Alone'
  BY <1>2 DEF Alone, Reading, Kind, NotKind, Tokens, Never, Within
<1>3. CASE Fill \/ Hunt \/ RequestGoesOn \/ RequestAsAck
  <2>1. stub'.at \in {"hunt", "frame"}
    BY <1>3, FillDoes, HuntDoes, RequestGoesOnDoes, RequestAsAckDoes
  <2> QED
    BY <1>2, <2>1
<1>4. CASE RequestEnds
  <2>1. /\ stub.at = "frame" /\ stub.buf # <<>> /\ Head(stub.buf).kind = "#"
        /\ stub'.buf = Tail(stub.buf) /\ stub'.at \in {"execute", "hunt"}
    BY <1>4, RequestEndsDoes
  <2>2. ~NoEnd(stub.buf) /\ Situation
    BY <1>1, <2>1, LessToRead DEF Headless
  <2>3. EndLast(stub.buf)
    BY <2>1, <2>2, LineTyped DEF Situation, Rest, Sending, Asking, Lost,
       Refused, Accepted, Mute, Skipping, Answering, Vain
  <2>4. stub'.buf = <<>>
    BY <1>1, <2>1, <2>3, LessToRead
  <2> QED
    BY <1>2, <2>1, <2>4
<1>5. CASE Execute
  <2>1. /\ stub.at = "execute" /\ stub'.at = "ack" /\ stub'.buf = stub.buf
        /\ up' = up
    BY <1>5, ExecuteDoes
  <2>2. stub.buf = <<>> /\ Situation
    BY <2>1 DEF Alone, Headless, Reading
  <2>3. up = <<>>
    BY <2>1, <2>2, LineTyped DEF Situation, Rest, Sending, Asking, Lost,
       Refused, Accepted, Mute, Skipping, Answering, Arriving, Again, Broken,
       Vain, Reading
  <2>4. /\ Never(<<>>, Kind("data"), Kind("$"))
        /\ Within(<<>>, NotKind({"data"}))
    BY NeverFew, WithinFew
  <2> QED
    BY <1>2, <2>1, <2>2, <2>3, <2>4
<1>6. CASE ReadAck
  <2>1. /\ stub.at = "ack" /\ up # <<>> /\ up' = Tail(up) /\ StubOthers
        /\ stub'.buf = stub.buf /\ stub'.at \in {"ack", "hunt"}
    BY <1>6, ReadAckDoes
  <2>2. gdb' = gdb
    BY <2>1, StubStays
  <2>3. /\ stub.buf = <<>>
        /\ IF Sending THEN Never(up, Kind("data"), Kind("$"))
                      ELSE Within(up, NotKind({"data"}))
    BY <2>1 DEF Alone, Reading
  <2>4. IF Sending' THEN Never(up', Kind("data"), Kind("$"))
                    ELSE Within(up', NotKind({"data"}))
    BY <1>1, <2>1, <2>2, <2>3, LessToRead DEF Sending
  <2> QED
    BY <1>2, <2>1, <2>3, <2>4
<1>7. CASE Fault
  <2>1. /\ UNCHANGED <<gdb, stub>>
        /\ Damages(up, up') \/ up' = up
    BY <1>7, FaultDoes
  <2>2. /\ ~Reading => stub.buf = <<>>
        /\ stub.at = "ack" =>
              IF Sending THEN Never(up, Kind("data"), Kind("$"))
                         ELSE Within(up, NotKind({"data"}))
    BY DEF Alone
  <2>3. /\ Token("junk", 0) \in NotKind({"data"})
        /\ Token("#", 0) \in NotKind({"data"})
        /\ Token("junk", 0) \notin Kind("data")
        /\ Token("#", 0) \notin Kind("data")
    <3>1. 0 \in 0..N
      BY RemoteLinkAssumption
    <3> QED
      BY <3>1, TokenTypes DEF NotKind, Token, Kind
  <2>4. ASSUME Damages(up, up')
        PROVE  /\ Within(up, NotKind({"data"})) => Within(up', NotKind({"data"}))
               /\ Never(up, Kind("data"), Kind("$"))
                     => Never(up', Kind("data"), Kind("$"))
    BY <1>1, <2>3, <2>4, WithinDamaged, NeverDamaged
  <2>5. stub'.at = "ack" =>
           IF Sending' THEN Never(up', Kind("data"), Kind("$"))
                       ELSE Within(up', NotKind({"data"}))
    BY <2>1, <2>2, <2>4 DEF Sending
  <2>6. stub'.at \in {"hunt", "frame", "execute", "ack"}
    BY <2>1, LineTyped DEF Typed, TypeOK
  <2> QED
    BY <1>2, <2>1, <2>2, <2>5, <2>6 DEF Reading
<1> QED
  BY <1>3, <1>4, <1>5, <1>6, <1>7 DEF StubStep

(* While the line can be relied on a situation leads to a situation.       *)
LEMMA SituationKeeps ==
    ASSUME Typed, Sourced, Reliable, Situation, Alone, [Next]_vars, ~Unframed,
           early = 0, early' = 0
    PROVE  Headless' \/ Situation'
<1>1. CASE GdbStep
  BY <1>1, PutpktSituated, AckedSituated, ResendSituated, OldReplySituated,
     IgnoredSituated, SkippedSituated, ReplyStartsSituated,
     ReplyGoesOnSituated, ReplyEndsSituated, RetrySituated DEF GdbStep
<1>2. CASE StubStep
  BY <1>2, FillSituated, TakeSituated, RequestEndsSituated, ExecuteSituated,
     ReadAckSituated, RequestAsAckSituated DEF StubStep
<1>3. CASE Fault
  <2>1. CASE Damages(up, up') /\ down' = down
    <3>1. UNCHANGED <<gdb, stub, executed, down>> /\ faults' = faults + 1
      BY <1>3, <2>1, FaultDoes
    <3> QED
      BY <2>1, <3>1, UpFaultSituated
  <2>2. CASE Damages(down, down') /\ up' = up
    <3>1. UNCHANGED <<gdb, stub, executed, up>> /\ faults' = faults + 1
      BY <1>3, <2>2, FaultDoes
    <3> QED
      BY <1>3, <2>2, <3>1, FaultDoes, DownFaultSituated
  <2> QED
    BY <1>3, <2>1, <2>2, FaultDoes
<1>4. CASE UNCHANGED vars
  BY <1>4 DEF vars, Situation, Sending, Rest, Asking, Lost, Refused,
     Accepted, Mute, Skipping, Stuck, None, Answering, Arriving, Again,
     Broken, Vain, Reading, Request, NoEnd, NoAck, EndLast
<1> QED
  BY <1>1, <1>2, <1>3, <1>4 DEF Next

(* The promise is never given back, so what holds under it is kept.        *)
LEMMA SituatedKeeps ==
    ASSUME Typed, Sourced, Situated, [Next]_vars
    PROVE  Situated'
<1> SUFFICES ASSUME Reliable' PROVE (Headless' \/ Situation') /\ Alone'
  BY DEF Situated
<1>1. /\ Reliable /\ early = 0 /\ early' = 0 /\ ~Unframed
  BY CausesGrow
<1>2. (Headless \/ Situation) /\ Alone
  BY <1>1 DEF Situated
<1>3. CASE Next
  <2>1. Headless' \/ Situation'
    BY <1>1, <1>2, <1>3, HeadlessKeeps, SituationKeeps
  <2>2. Alone'
    BY <1>1, <1>2, <1>3, GdbAlone, StubAlone DEF Next
  <2> QED
    BY <2>1, <2>2
<1>4. CASE UNCHANGED vars
  <2>1. Situation => Headless' \/ Situation'
    BY <1>1, <1>2, <1>4, SituationKeeps
  <2>2. Headless => Headless'
    BY <1>4 DEF vars, Headless, Sending, NoAck, NoStart
  <2>3. Alone'
    BY <1>2, <1>4 DEF vars, Alone, Reading, Sending
  <2> QED
    BY <1>2, <2>1, <2>2, <2>3
<1> QED
  BY <1>3, <1>4

(* The first situation: nothing is on the line.                            *)
LEMMA InitSituated == Init => Situated
<1> SUFFICES ASSUME Init PROVE Situation /\ Alone
  BY DEF Situated
<1>1. NoEnd(<<>>) /\ NoAck(<<>>)
  BY WithinFew DEF NoEnd, NoAck
<1>2. Situation
  BY <1>1 DEF Init, Situation, Rest, Reading, Sending, NoEnd, NoAck
<1> QED
  BY <1>2 DEF Init, Alone, Reading

-----------------------------------------------------------------------------
(* The steps of the callers.                                               *)

(* A step between two events that the callers see.                         *)
LEMMA CallsWait ==
    ASSUME Reliable' => Reliable, gdb'.request = gdb.request,
           gdb'.at = "idle" <=> gdb.at = "idle",
           executed' = executed, results' = results
    PROVE  Calls!Next
<1>1. (gdb.at # "idle")' = (gdb.at # "idle")
  OBVIOUS
<1> QED
  BY <1>1 DEF Calls!Next, Reliable

(* A call begins.                                                          *)
LEMMA CallBegins ==
    ASSUME Typed, Reliable' => Reliable, putpkt
    PROVE  Calls!Next
<1>1. /\ gdb.at = "idle" /\ gdb'.at = "ack" /\ gdb.request + 1 \in Requests
      /\ gdb'.request = gdb.request + 1 /\ results' = results /\ Others
  BY PutpktDoes
<1>2. executed' = executed
  BY <1>1 DEF Others
<1>3. /\ (gdb.at # "idle") = FALSE /\ (gdb.at # "idle")' = TRUE
  BY <1>1
<1>4. Calls!Call
  BY <1>1, <1>2, <1>3 DEF Calls!Call
<1> QED
  BY <1>4 DEF Calls!Next, Reliable

(* A call returns.                                                         *)
LEMMA CallReturns ==
    ASSUME Reliable' => Reliable,
           gdb.at # "idle", gdb'.at = "idle", gdb'.request = gdb.request,
           NEW reply \in Requests \cup {Nothing, Garbage},
           Reliable' /\ reply # Nothing =>
               reply = gdb.request /\ executed[reply] > 0,
           results' = [results EXCEPT ![gdb.request] = reply],
           executed' = executed
    PROVE  Calls!Next
<1>1. /\ (gdb.at # "idle") = TRUE /\ (gdb.at # "idle")' = FALSE
  OBVIOUS
<1>2. Calls!Return(reply)
  BY <1>1 DEF Calls!Return, Reliable
<1> QED
  BY <1>2 DEF Calls!Next, Reliable

(* The stub executes a request.                                            *)
LEMMA CallExecutes ==
    ASSUME Typed, Sourced, Situated, Reliable' => Reliable, Execute
    PROVE  Calls!Next
<1>1. PICK r \in Requests : r = Request
  <2>1. stub.at = "execute"
    BY ExecuteDoes
  <2> QED
    BY <2>1, RequestReal
<1>2. /\ executed' = [executed EXCEPT ![r] = @ + 1] /\ StubOthers
  BY <1>1, ExecuteDoes
<1>3. gdb' = gdb /\ results' = results
  BY <1>2 DEF StubOthers
<1>4. Reliable' => gdb.at # "idle" /\ r = gdb.request
  <2>1. ~Headless
    BY ExecuteDoes DEF Headless
  <2> QED
    BY <1>1, <2>1, ExecuteSituated DEF Situated
<1>5. (gdb.at # "idle")' = (gdb.at # "idle")
  BY <1>3
<1>6. Calls!Execute(r)
  BY <1>2, <1>3, <1>4, <1>5 DEF Calls!Execute, Reliable
<1> QED
  BY <1>6 DEF Calls!Next, Reliable

(* Every step of gdb is one of its calls, or none they can see.            *)
LEMMA GdbRefines ==
    ASSUME Typed, Sourced, Situated, GdbStep,
           Reliable' => Reliable /\ early = 0 /\ early' = 0
    PROVE  Calls!Next
<1>0. ~Sending => ~Headless
  BY DEF Headless
<1>1. CASE \/ Acked \/ Resend \/ OldReply \/ Ignored \/ Skipped
           \/ ReplyStarts \/ ReplyGoesOn
  <2>1. /\ gdb'.request = gdb.request /\ results' = results /\ Others
        /\ gdb.at # "idle" /\ gdb'.at # "idle"
    BY <1>1, AckedDoes, ResendDoes, OldReplyDoes, IgnoredDoes, SkippedDoes,
       ReplyStartsDoes, ReplyGoesOnDoes
  <2> QED
    BY <2>1, CallsWait DEF Others
<1>2. CASE ReplyEnds
  <2>1. PICK v \in 0..N : v = Head(down).value
    BY <1>2, ReplyEndsDoes
  <2>2. /\ gdb.at = "frame" /\ gdb'.at = "idle" /\ Others
        /\ gdb'.request = gdb.request
        /\ results' = [results EXCEPT ![gdb.request] = v]
    BY <1>2, <2>1, ReplyEndsDoes
  <2>3. Reliable' => v = gdb.request /\ executed[v] > 0
    BY <1>0, <1>2, <2>1, <2>2, ReplyEndsSituated DEF Situated, Sending
  <2>4. v \in Requests \cup {Nothing, Garbage}
    BY RemoteLinkAssumption DEF Requests, Nothing
  <2> QED
    BY <2>2, <2>3, <2>4, CallReturns DEF Others
<1>3. CASE Retry
  <2>1. /\ gdb.at # "idle" /\ gdb'.request = gdb.request /\ Others
        /\ \/ gdb'.at = "reply" /\ results' = results
           \/ gdb'.at = "idle"
              /\ results' = [results EXCEPT ![gdb.request] = Overwritten]
    BY <1>3, RetryDoes
  <2>2. CASE gdb'.at = "reply"
    BY <2>1, <2>2, CallsWait DEF Others
  <2>3. CASE gdb'.at = "idle"
    <3>1. Overwritten \in Requests \cup {Nothing, Garbage}
      BY OverwrittenTyped, RemoteLinkAssumption DEF Requests, Nothing, Garbage
    <3>2. Reliable' => Overwritten = Nothing
      <4>1. ~Sending
        BY <1>3, RetryDoes DEF Sending
      <4> QED
        BY <1>0, <1>3, <2>3, <4>1, RetrySituated DEF Situated
    <3> QED
      BY <2>1, <2>3, <3>1, <3>2, CallReturns DEF Others
  <2> QED
    BY <2>1, <2>2, <2>3
<1>4. CASE Unframed
  BY <1>4, UnframedDoes, CallsWait
<1> QED
  BY <1>1, <1>2, <1>3, <1>4, CallBegins DEF GdbStep

(* Every step of the link is a step of the calls, or none.                 *)
LEMMA StepRefines ==
    ASSUME Typed, Sourced, Situated, [Next]_vars
    PROVE  [Calls!Next]_Calls!vars
<1>1. Reliable' => Reliable /\ early = 0 /\ early' = 0
  BY CausesGrow
<1>2. CASE GdbStep
  BY <1>1, <1>2, GdbRefines
<1>3. CASE Execute
  BY <1>1, <1>3, CallExecutes
<1>4. CASE \/ Fill \/ Hunt \/ RequestGoesOn \/ RequestEnds \/ ReadAck
           \/ RequestAsAck
  <2>1. StubOthers /\ executed' = executed
    BY <1>4, FillDoes, HuntDoes, RequestGoesOnDoes, RequestEndsDoes,
       ReadAckDoes, RequestAsAckDoes
  <2> QED
    BY <1>1, <2>1, CallsWait DEF StubOthers
<1>5. CASE Fault
  <2>1. UNCHANGED <<gdb, executed, results>>
    BY <1>5, FaultDoes
  <2> QED
    BY <1>1, <2>1, CallsWait
<1>6. CASE UNCHANGED vars
  BY <1>6 DEF vars, Calls!vars
<1> QED
  BY <1>2, <1>3, <1>4, <1>5, <1>6 DEF Next, StubStep

(* What the callers of remote_send are promised: requests are executed one *)
(* after the other, each only while its call is outstanding; a call        *)
(* returns the reply to its own request, which was executed, or nothing;   *)
(* all of it until the line has failed MAX_TRIES times, a timeout went off *)
(* while the stub was only slow, or gdb read a '+' or '-' of a payload.    *)
THEOREM LinkImplementsCalls == Spec => ImplementsCalls
<1>1. Init => Calls!Init
  BY DEF Init, Calls!Init, MAX_TRIES
<1>2. Init => Typed /\ Sourced /\ Situated
  BY InitTyped, InitSourced, InitSituated
<1>3. Typed /\ Sourced /\ Situated /\ [Next]_vars
         => (Typed /\ Sourced /\ Situated)'
  BY TypedKeeps, SourcedKeeps, SituatedKeeps
<1>4. Typed /\ Sourced /\ Situated /\ [Next]_vars => [Calls!Next]_Calls!vars
  BY StepRefines
<1> QED
  BY <1>1, <1>2, <1>3, <1>4, PTL DEF Spec, ImplementsCalls, Calls!Spec

=============================================================================
