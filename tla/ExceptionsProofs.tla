-------------------------- MODULE ExceptionsProofs --------------------------
(***************************************************************************)
(* Proofs about Exceptions, for every set of cleanups and any depth.       *)
(*                                                                         *)
(* JumpTargetsLive is not inductive: a do_cleanups loop that has lost the  *)
(* cleanup its mark names would run the cleanups of the code that called   *)
(* it, a throw out of one of those would meet a frame of another scope,    *)
(* and so on.  So the invariant IInv also says that every loop still meets *)
(* its mark.  Its parts:                                                   *)
(*   Typed         the types, and ABORTING is having an exception;         *)
(*   Live          the catchers are the TRY_CATCH frames, in order;        *)
(*   FramesGood    the outermost frame is a TRY_CATCH; the loop of a throw *)
(*                 runs the chain down to its end;                         *)
(*   CatchersGood  every TRY_CATCH but the innermost frame is in its body, *)
(*                 its state is the one the place it is at calls for, and  *)
(*                 the outermost one takes every exception;                *)
(*   MarksGood     in one scope the marks grow inwards and fit the chain.  *)
(* CleanupsOnce adds Once: no two places of the chains, and no frame of a  *)
(* cleanup function, hold the same cleanup.                                *)
(***************************************************************************)
EXTENDS Exceptions, SequenceTheorems, TLAPS

(* Where the marks start from nothing: a TRY_CATCH saves the chain, and a  *)
(* throw runs all of it.                                                   *)
Separator(f) == f.at \in Tries \/ f.exception # NoException

(* No new scope starts between the frames i and k.                         *)
SameScope(s, i, k) == \A m \in i + 1 .. k : ~Separator(s[m])

(* A chain of length n has all that the frames up to top have marked.      *)
Fits(s, top, n) == \A i \in 1 .. top : SameScope(s, i, top) => s[i].mark <= n

(* The stacks s and t mark the same in their first m frames.               *)
Agree(s, t, m) == \A i \in 1 .. m : /\ Separator(t[i]) <=> Separator(s[i])
                                    /\ t[i].mark = s[i].mark

Typed(s, cs, ch) ==
    /\ s \in Seq(Frames)
    /\ cs \in Seq(Catchers)
    /\ ch \in Seq(Cleanups)
    /\ \A j \in 1 .. Len(cs) : cs[j].state = "ABORTING" <=>
                               cs[j].exception # NoException

Live(s, cs) ==
    /\ \A j \in 1 .. Len(cs) : cs[j].buf \in 1 .. Len(s)
    /\ \A i, j \in 1 .. Len(cs) : i < j => cs[i].buf < cs[j].buf
    /\ \A i \in 1 .. Len(s) :
          s[i].at \in Tries <=> \E j \in 1 .. Len(cs) : cs[j].buf = i

FramesGood(s) ==
    /\ Len(s) > 0 => s[1].at \in Tries
    /\ \A i \in 1 .. Len(s) :
          /\ s[i].exception # NoException => s[i].exception.reason \in Reasons
          /\ Separator(s[i]) => s[i].mark = 0
          /\ s[i].at = "function" => s[i].exception = NoException

Paired(c, f) ==
    /\ c.exception # NoException => c.exception.reason \in Reasons
    /\ c.state = "CREATED" => f.at = "outer" /\ f.ran = 0
    /\ f.at = "inner" => \/ c.state = "RUNNING" /\ f.ran = 0
                         \/ c.state = "RUNNING_1"
    /\ f.at = "body" => c.state = "RUNNING_1"

(* What the loops of a TRY_CATCH change of its frame g and its catcher d.   *)
Moved(f, g, c, d) ==
    /\ f \in Frames /\ f.at \in Tries
    /\ f.mark = g.mark /\ f.exception = g.exception
    /\ c \in Catchers /\ c.buf = d.buf /\ c.mask = d.mask
    /\ c.saved_cleanup_chain = d.saved_cleanup_chain
    /\ c.state = "ABORTING" <=> c.exception # NoException
    /\ Paired(c, f)

CatchersGood(s, cs) ==
    /\ Len(cs) > 0 => cs[1].mask = Reasons
    /\ \A j \in 1 .. Len(cs) :
          /\ Paired(cs[j], s[cs[j].buf])
          /\ cs[j].buf # Len(s) => s[cs[j].buf].at = "body"

MarksGood(s, cs, ch) ==
    /\ \A k \in 1 .. Len(s) : Fits(s, k, s[k].mark)
    /\ Fits(s, Len(s), Len(ch))
    /\ \A j \in 1 .. Len(cs) :
          Fits(s, cs[j].buf - 1, Len(cs[j].saved_cleanup_chain))

Good(s, cs, ch) == /\ Typed(s, cs, ch) /\ Live(s, cs) /\ FramesGood(s)
                   /\ CatchersGood(s, cs) /\ MarksGood(s, cs, ch)

IInv == /\ Good(stack, catchers, cleanup_chain)
        /\ uiout \in Uis /\ caught \in Exceptions

-----------------------------------------------------------------------------
(* The first n elements of a sequence.                                     *)
LEMMA Prefix ==
  ASSUME NEW S, NEW s \in Seq(S), NEW n \in 0 .. Len(s)
  PROVE  /\ SubSeq(s, 1, n) \in Seq(S)
         /\ Len(SubSeq(s, 1, n)) = n
         /\ \A i \in 1 .. n : SubSeq(s, 1, n)[i] = s[i]
<1>1. \A i \in 1 .. n : s[i] \in S
  BY ElementOfSeq
<1> QED
  BY <1>1, SubSeqProperties

(* A function on 1 .. n is a sequence. *)
LEMMA MadeOf ==
  ASSUME NEW S, NEW n \in Nat, NEW f \in [1 .. n -> S]
  PROVE  f \in Seq(S) /\ Len(f) = n
<1>1. f \in Seq(S)
  BY SeqDef
<1> QED
  BY <1>1, LenProperties

(* What a frame of a stack is made of.                                     *)
LEMMA FrameTypes ==
  ASSUME NEW s \in Seq(Frames), NEW i \in 1 .. Len(s)
  PROVE  /\ s[i] \in Frames /\ s[i].mark \in Nat
         /\ s[i].exception \in Exceptions
<1>1. s[i] \in Frames
  BY ElementOfSeq
<1> QED
  BY <1>1 DEF Frames

(* What a catcher of a list is made of.                                    *)
LEMMA CatcherTypes ==
  ASSUME NEW cs \in Seq(Catchers), NEW j \in 1 .. Len(cs)
  PROVE  /\ cs[j] \in Catchers
         /\ cs[j].exception \in Exceptions /\ cs[j].saved_uiout \in Uis
         /\ cs[j].saved_cleanup_chain \in Seq(Cleanups)
         /\ Len(cs[j].saved_cleanup_chain) \in Nat
<1>1. cs[j] \in Catchers
  BY ElementOfSeq
<1>2. /\ cs[j].exception \in Exceptions /\ cs[j].saved_uiout \in Uis
      /\ cs[j].saved_cleanup_chain \in Seq(Cleanups)
  BY <1>1 DEF Catchers
<1> QED
  BY <1>1, <1>2, LenProperties

(* Fits looks no further than its frame, and of the frames at their marks  *)
(* and at where the scopes begin.                                          *)
LEMMA FitsLocal ==
  ASSUME NEW s, NEW t, NEW m \in Nat, Agree(s, t, m),
         NEW top \in 0 .. m, NEW n \in Nat, Fits(s, top, n)
  PROVE  Fits(t, top, n)
<1> SUFFICES ASSUME NEW i \in 1 .. top, SameScope(t, i, top)
             PROVE  t[i].mark <= n
  BY DEF Fits
<1>1. SameScope(s, i, top)
  BY DEF SameScope, Agree
<1> QED
  BY <1>1 DEF Fits, Agree

(* A longer chain has what a shorter one has.                              *)
LEMMA FitsMore ==
  ASSUME NEW s \in Seq(Frames), NEW top \in 0 .. Len(s), NEW n \in Nat, NEW m \in Nat,
         n <= m, Fits(s, top, n)
  PROVE  Fits(s, top, m)
<1> SUFFICES ASSUME NEW i \in 1 .. top, SameScope(s, i, top)
             PROVE  s[i].mark <= m
  BY DEF Fits
<1>1. s[i].mark \in Nat
  <2>1. i \in 1 .. Len(s)
    BY LenProperties
  <2> QED
    BY <2>1, FrameTypes
<1>2. s[i].mark <= n
  BY DEF Fits
<1> QED
  BY <1>1, <1>2

(* One frame more. *)
LEMMA FitsNext ==
  ASSUME NEW s, NEW top \in Nat, NEW n \in Nat,
         Separator(s[top + 1]) \/ Fits(s, top, n),
         s[top + 1].mark <= n
  PROVE  Fits(s, top + 1, n)
<1> SUFFICES ASSUME NEW i \in 1 .. top + 1, SameScope(s, i, top + 1)
             PROVE  s[i].mark <= n
  BY DEF Fits
<1>1. CASE i = top + 1
  BY <1>1
<1>2. CASE i \in 1 .. top
  <2>1. ~Separator(s[top + 1]) /\ SameScope(s, i, top)
    BY <1>2 DEF SameScope
  <2> QED
    BY <1>2, <2>1 DEF Fits
<1> QED
  BY <1>1, <1>2

(* One frame less. *)
LEMMA FitsBelow ==
  ASSUME NEW s, NEW top \in Nat, NEW n \in Nat,
         ~Separator(s[top + 1]), Fits(s, top + 1, n)
  PROVE  Fits(s, top, n)
<1> SUFFICES ASSUME NEW i \in 1 .. top, SameScope(s, i, top)
             PROVE  s[i].mark <= n
  BY DEF Fits
<1>1. SameScope(s, i, top + 1)
  BY DEF SameScope
<1> QED
  BY <1>1 DEF Fits

(* What frames that agree with older ones keep. *)
LEMMA MarksLocal ==
  ASSUME NEW s \in Seq(Frames), NEW t \in Seq(Frames),
         NEW cs \in Seq(Catchers), NEW ch, MarksGood(s, cs, ch), Live(s, cs),
         NEW m \in Nat, m <= Len(s), Agree(s, t, m)
  PROVE  /\ \A k \in 1 .. m : Fits(t, k, t[k].mark)
         /\ \A j \in 1 .. Len(cs) : cs[j].buf - 1 <= m =>
               Fits(t, cs[j].buf - 1, Len(cs[j].saved_cleanup_chain))
<1>1. ASSUME NEW k \in 1 .. m
      PROVE  Fits(t, k, t[k].mark)
  <2>1. k \in 0 .. m /\ k \in 1 .. Len(s)
    BY LenProperties
  <2>2. s[k].mark \in Nat
    BY <2>1, FrameTypes
  <2>3. Fits(s, k, s[k].mark)
    BY <2>1 DEF MarksGood
  <2>4. Fits(t, k, s[k].mark)
    BY <2>1, <2>2, <2>3, FitsLocal
  <2> QED
    BY <2>4 DEF Agree
<1>2. ASSUME NEW j \in 1 .. Len(cs), cs[j].buf - 1 <= m
      PROVE  Fits(t, cs[j].buf - 1, Len(cs[j].saved_cleanup_chain))
  <2>1. cs[j].buf \in 1 .. Len(s)
    BY DEF Live
  <2>2. cs[j].buf - 1 \in 0 .. m
    BY <1>2, <2>1, LenProperties
  <2>3. Len(cs[j].saved_cleanup_chain) \in Nat
    BY CatcherTypes
  <2>4. Fits(s, cs[j].buf - 1, Len(cs[j].saved_cleanup_chain))
    BY DEF MarksGood
  <2> QED
    BY <2>2, <2>3, <2>4, FitsLocal
<1> QED
  BY <1>1, <1>2

(* The innermost TRY_CATCH belongs to the current catcher. *)
LEMMA TopCatcher ==
  ASSUME NEW s, NEW cs, NEW ch, Good(s, cs, ch), Len(s) > 0
  PROVE  /\ Len(cs) \in Nat /\ Len(cs) > 0 /\ Len(s) \in Nat
         /\ cs[Len(cs)] \in Catchers /\ s[Len(s)] \in Frames
         /\ cs[Len(cs)].buf \in 1 .. Len(s)
         /\ s[cs[Len(cs)].buf].at \in Tries
         /\ s[Len(s)].at \in Tries => cs[Len(cs)].buf = Len(s)
         /\ \A i \in cs[Len(cs)].buf + 1 .. Len(s) : s[i].at \notin Tries
<1>1. s \in Seq(Frames) /\ cs \in Seq(Catchers) /\ Len(s) \in Nat /\ Len(cs) \in Nat
  BY DEF Good, Typed
<1>2. \E j \in 1 .. Len(cs) : cs[j].buf = 1
  BY <1>1 DEF Good, Live, FramesGood
<1>3. Len(cs) > 0 /\ Len(cs) \in 1 .. Len(cs)
  BY <1>1, <1>2
<1>4. cs[Len(cs)] \in Catchers /\ s[Len(s)] \in Frames
  BY <1>1, <1>3, ElementOfSeq
<1>5. \A j \in 1 .. Len(cs) : cs[j].buf <= cs[Len(cs)].buf
  BY <1>1, <1>3 DEF Good, Live
<1> QED
  BY <1>1, <1>3, <1>4, <1>5 DEF Good, Live

-----------------------------------------------------------------------------
(* A call: one frame more, which is no TRY_CATCH. *)
LEMMA GoodPush ==
  ASSUME NEW s, NEW cs, NEW ch, Good(s, cs, ch),
         NEW f \in Frames, f.at \in {"loop", "function"},
         f.exception # NoException => f.exception.reason \in Reasons /\ f.mark = 0,
         f.at = "function" => f.exception = NoException,
         Len(s) > 0, s[Len(s)].at \notin {"outer", "inner"},
         NEW ch2 \in Seq(Cleanups), f.mark <= Len(ch2),
         f.exception = NoException => Fits(s, Len(s), f.mark)
  PROVE  Good(Append(s, f), cs, ch2)
<1> DEFINE t == Append(s, f)
<1>1. s \in Seq(Frames) /\ cs \in Seq(Catchers) /\ Len(s) \in Nat /\ Len(cs) \in Nat
      /\ Len(ch2) \in Nat /\ f.mark \in Nat
  BY DEF Good, Typed, Frames
<1>2. /\ t \in Seq(Frames) /\ Len(t) = Len(s) + 1
      /\ \A i \in 1 .. Len(s) : t[i] = s[i]
      /\ t[Len(s) + 1] = f
  BY <1>1, AppendProperties
<1> HIDE DEF t
<1>3. Typed(t, cs, ch2)
  BY <1>2 DEF Good, Typed
<1>4. Live(t, cs)
  <2>1. \A j \in 1 .. Len(cs) : cs[j].buf \in 1 .. Len(s)
    BY DEF Good, Live
  <2>2. \A i \in 1 .. Len(t) :
           t[i].at \in Tries <=> \E j \in 1 .. Len(cs) : cs[j].buf = i
    <3> TAKE i \in 1 .. Len(t)
    <3>1. CASE i = Len(s) + 1
      BY <1>1, <1>2, <2>1, <3>1 DEF Tries
    <3>2. CASE i \in 1 .. Len(s)
      BY <1>1, <1>2, <3>2 DEF Good, Live
    <3> QED
      BY <1>1, <1>2, <3>1, <3>2
  <2> QED
    BY <1>1, <1>2, <2>1, <2>2 DEF Good, Live
<1>5. FramesGood(t)
  <2>1. t[1].at \in Tries
    BY <1>1, <1>2 DEF Good, FramesGood
  <2> SUFFICES ASSUME NEW i \in 1 .. Len(t)
               PROVE  /\ t[i].exception # NoException =>
                            t[i].exception.reason \in Reasons
                      /\ Separator(t[i]) => t[i].mark = 0
                      /\ t[i].at = "function" => t[i].exception = NoException
    BY <2>1 DEF FramesGood
  <2>2. CASE i = Len(s) + 1
    BY <1>1, <1>2, <2>2 DEF Separator, Tries
  <2>3. CASE i \in 1 .. Len(s)
    BY <1>1, <1>2, <2>3 DEF Good, FramesGood
  <2> QED
    BY <1>1, <1>2, <2>2, <2>3
<1>6. CatchersGood(t, cs)
  <2>1. \A j \in 1 .. Len(cs) :
           /\ cs[j].buf \in 1 .. Len(s)
           /\ Paired(cs[j], s[cs[j].buf])
           /\ s[cs[j].buf].at \in Tries
           /\ cs[j].buf # Len(s) => s[cs[j].buf].at = "body"
    BY <1>1 DEF Good, Live, CatchersGood
  <2> QED
    BY <1>1, <1>2, <2>1 DEF Good, CatchersGood, Tries
<1>7. MarksGood(t, cs, ch2)
  <2>1. Agree(s, t, Len(s))
    BY <1>2 DEF Agree
  <2>2. Separator(f) \/ Fits(t, Len(s), f.mark)
    <3>1. CASE f.exception = NoException
      <4>1. Len(s) \in 0 .. Len(s)
        BY <1>1
      <4> QED
        BY <1>1, <2>1, <3>1, <4>1, FitsLocal
    <3> QED
      BY <3>1 DEF Separator
  <2>3. Fits(t, Len(s) + 1, f.mark)
    BY <1>1, <1>2, <2>2, FitsNext
  <2>4. Fits(t, Len(s) + 1, Len(ch2))
    BY <1>1, <1>2, <2>3, FitsMore
  <2>5. /\ \A k \in 1 .. Len(s) : Fits(t, k, t[k].mark)
        /\ \A j \in 1 .. Len(cs) : cs[j].buf - 1 <= Len(s) =>
              Fits(t, cs[j].buf - 1, Len(cs[j].saved_cleanup_chain))
    <3>1. MarksGood(s, cs, ch) /\ Live(s, cs) /\ Len(s) <= Len(s)
      BY <1>1 DEF Good
    <3> QED
      BY <1>1, <1>2, <2>1, <3>1, MarksLocal
  <2>6. \A j \in 1 .. Len(cs) : cs[j].buf - 1 <= Len(s)
    BY <1>1 DEF Good, Live
  <2> QED
    BY <1>1, <1>2, <2>3, <2>4, <2>5, <2>6 DEF MarksGood
<1> QED
  BY <1>3, <1>4, <1>5, <1>6, <1>7 DEF Good, t

(* A return: the innermost frame goes, which is no TRY_CATCH. *)
LEMMA GoodPop ==
  ASSUME NEW s, NEW cs, NEW ch, Good(s, cs, ch), Len(s) > 0,
         s[Len(s)].at \in {"loop", "function"},
         s[Len(s)].exception = NoException
  PROVE  Good(SubSeq(s, 1, Len(s) - 1), cs, ch)
<1> DEFINE t == SubSeq(s, 1, Len(s) - 1)
           n == Len(s) - 1
<1>1. /\ s \in Seq(Frames) /\ cs \in Seq(Catchers)
      /\ Len(s) \in Nat /\ Len(cs) \in Nat /\ Len(ch) \in Nat
  BY DEF Good, Typed
<1>2. n \in 0 .. Len(s) /\ n \in Nat /\ Len(s) = n + 1
  BY <1>1
<1>3. t \in Seq(Frames) /\ Len(t) = n /\ \A i \in 1 .. n : t[i] = s[i]
  BY <1>1, <1>2, Prefix
<1> HIDE DEF t, n
<1>4. \A j \in 1 .. Len(cs) : cs[j].buf \in 1 .. n
  BY <1>1, <1>2 DEF Good, Live, Tries
<1>5. Typed(t, cs, ch)
  BY <1>3 DEF Good, Typed
<1>6. Live(t, cs)
  BY <1>1, <1>2, <1>3, <1>4 DEF Good, Live
<1>7. FramesGood(t)
  BY <1>2, <1>3 DEF Good, FramesGood
<1>8. CatchersGood(t, cs)
  BY <1>2, <1>3, <1>4 DEF Good, CatchersGood
<1>9. MarksGood(t, cs, ch)
  <2>1. Agree(s, t, n)
    BY <1>3 DEF Agree
  <2>2. /\ \A k \in 1 .. n : Fits(t, k, t[k].mark)
        /\ \A j \in 1 .. Len(cs) : cs[j].buf - 1 <= n =>
              Fits(t, cs[j].buf - 1, Len(cs[j].saved_cleanup_chain))
    BY <1>1, <1>2, <1>3, <2>1, MarksLocal DEF Good
  <2>3. Fits(s, n, Len(ch))
    <3>1. ~Separator(s[n + 1])
      BY <1>2 DEF Separator, Tries
    <3>2. Fits(s, n + 1, Len(ch))
      BY <1>2 DEF Good, MarksGood
    <3> QED
      BY <1>1, <1>2, <3>1, <3>2, FitsBelow
  <2>4. Fits(t, n, Len(ch))
    <3>1. n \in 0 .. n
      BY <1>2
    <3> QED
      BY <1>1, <1>2, <2>1, <2>3, <3>1, FitsLocal
  <2> QED
    BY <1>2, <1>3, <1>4, <2>2, <2>4 DEF MarksGood
<1> QED
  BY <1>5, <1>6, <1>7, <1>8, <1>9 DEF Good, t

(* A TRY_CATCH is entered. *)
LEMMA GoodOpen ==
  ASSUME NEW s, NEW cs, NEW ch, Good(s, cs, ch),
         NEW f \in Frames, f.at = "outer", f.mark = 0, f.ran = 0,
         f.exception = NoException,
         NEW c \in Catchers, c.state = "CREATED", c.exception = NoException,
         c.buf = Len(s) + 1, c.saved_cleanup_chain = ch,
         IF s = <<>> THEN c.mask = Reasons
                     ELSE s[Len(s)].at \notin {"outer", "inner"}
  PROVE  Good(Append(s, f), Append(cs, c), <<>>)
<1> DEFINE t  == Append(s, f)
           ds == Append(cs, c)
           n  == Len(s)
           k  == Len(cs)
<1>1. /\ s \in Seq(Frames) /\ cs \in Seq(Catchers)
      /\ n \in Nat /\ k \in Nat /\ Len(ch) \in Nat
  BY DEF Good, Typed
<1>2. /\ t \in Seq(Frames) /\ Len(t) = n + 1 /\ t[n + 1] = f
      /\ \A i \in 1 .. n : t[i] = s[i]
  BY <1>1, AppendProperties
<1>3. /\ ds \in Seq(Catchers) /\ Len(ds) = k + 1 /\ ds[k + 1] = c
      /\ \A j \in 1 .. k : ds[j] = cs[j]
  BY <1>1, AppendProperties
<1>4. n = 0 <=> s = <<>>
  BY <1>1, EmptySeq
<1>5. k = 0 => n = 0
  BY <1>1, <1>4, TopCatcher
<1> HIDE DEF t, ds, n, k
<1>6. \A j \in 1 .. k : cs[j].buf \in 1 .. n
  BY DEF Good, Live, n, k
<1>7. Typed(t, ds, <<>>)
  <2>1. \A j \in 1 .. Len(ds) : ds[j].state = "ABORTING" <=>
                               ds[j].exception # NoException
    BY <1>1, <1>3 DEF Good, Typed, k
  <2> QED
    BY <1>2, <1>3, <2>1 DEF Typed
<1>8. Live(t, ds)
  <2>1. \A j \in 1 .. k + 1 : ds[j].buf \in 1 .. n + 1
    BY <1>1, <1>3, <1>6 DEF n
  <2>2. \A i, j \in 1 .. k + 1 : i < j => ds[i].buf < ds[j].buf
    <3> SUFFICES ASSUME NEW i \in 1 .. k + 1, NEW j \in 1 .. k + 1, i < j
                 PROVE  ds[i].buf < ds[j].buf
      OBVIOUS
    <3>1. i \in 1 .. k /\ ds[i] = cs[i] /\ cs[i].buf \in 1 .. n
      BY <1>1, <1>3, <1>6
    <3>2. CASE j = k + 1
      BY <1>1, <1>3, <3>1, <3>2 DEF n
    <3>3. CASE j \in 1 .. k
      BY <1>1, <1>3, <3>1, <3>3 DEF Good, Live, k
    <3> QED
      BY <1>1, <3>2, <3>3
  <2>3. \A i \in 1 .. n + 1 :
           t[i].at \in Tries <=> \E j \in 1 .. k + 1 : ds[j].buf = i
    <3> TAKE i \in 1 .. n + 1
    <3>1. CASE i = n + 1
      <4>1. t[i].at \in Tries
        BY <1>2, <3>1 DEF Tries
      <4>2. ds[k + 1].buf = i /\ k + 1 \in 1 .. k + 1
        BY <1>1, <1>3, <3>1 DEF n
      <4> QED
        BY <4>1, <4>2
    <3>2. CASE i \in 1 .. n
      <4>1. ds[k + 1].buf # i
        BY <1>1, <1>3, <3>2 DEF n
      <4>2. s[i].at \in Tries <=> \E j \in 1 .. k : cs[j].buf = i
        BY <3>2 DEF Good, Live, n, k
      <4> QED
        BY <1>1, <1>2, <1>3, <3>2, <4>1, <4>2
    <3> QED
      BY <1>1, <3>1, <3>2
  <2> QED
    BY <1>2, <1>3, <2>1, <2>2, <2>3 DEF Live
<1>9. FramesGood(t)
  <2>1. t[1].at \in Tries
    BY <1>1, <1>2 DEF Good, FramesGood, n, Tries
  <2> SUFFICES ASSUME NEW i \in 1 .. n + 1
               PROVE  /\ t[i].exception # NoException =>
                            t[i].exception.reason \in Reasons
                      /\ Separator(t[i]) => t[i].mark = 0
                      /\ t[i].at = "function" => t[i].exception = NoException
    BY <1>2, <2>1 DEF FramesGood
  <2>2. CASE i = n + 1
    BY <1>2, <2>2
  <2>3. CASE i \in 1 .. n
    BY <1>2, <2>3 DEF Good, FramesGood, n
  <2> QED
    BY <1>1, <2>2, <2>3
<1>10. CatchersGood(t, ds)
  <2>1. ds[1].mask = Reasons
    <3>1. CASE k = 0
      BY <1>3, <1>4, <1>5, <3>1
    <3>2. CASE k # 0
      BY <1>1, <1>3, <3>2 DEF Good, CatchersGood, k
    <3> QED
      BY <3>1, <3>2
  <2> SUFFICES ASSUME NEW j \in 1 .. k + 1
               PROVE  /\ Paired(ds[j], t[ds[j].buf])
                      /\ ds[j].buf # n + 1 => t[ds[j].buf].at = "body"
    BY <1>2, <1>3, <2>1 DEF CatchersGood
  <2>2. CASE j = k + 1
    BY <1>2, <1>3, <2>2 DEF Paired, n
  <2>3. CASE j \in 1 .. k
    <3>1. /\ ds[j] = cs[j] /\ cs[j].buf \in 1 .. n
          /\ t[cs[j].buf] = s[cs[j].buf]
      BY <1>2, <1>3, <1>6, <2>3
    <3>2. /\ Paired(cs[j], s[cs[j].buf])
          /\ cs[j].buf # n => s[cs[j].buf].at = "body"
      BY <2>3 DEF Good, CatchersGood, n, k
    <3>3. s[cs[j].buf].at \in Tries
      BY <2>3, <3>1 DEF Good, Live, n, k
    <3>4. s # <<>>
      BY <1>1, <1>4, <3>1
    <3> QED
      BY <3>1, <3>2, <3>3, <3>4 DEF n, Tries
  <2> QED
    BY <1>1, <2>2, <2>3
<1>11. MarksGood(t, ds, <<>>)
  <2>1. Agree(s, t, n)
    BY <1>2 DEF Agree
  <2>2. /\ \A i \in 1 .. n : Fits(t, i, t[i].mark)
        /\ \A j \in 1 .. k : cs[j].buf - 1 <= n =>
              Fits(t, cs[j].buf - 1, Len(cs[j].saved_cleanup_chain))
    <3>1. MarksGood(s, cs, ch) /\ Live(s, cs) /\ n <= Len(s)
      BY <1>1 DEF Good, n
    <3> QED
      BY <1>1, <1>2, <2>1, <3>1, MarksLocal DEF k
  <2>3. Fits(t, n + 1, 0)
    <3>1. Separator(t[n + 1])
      BY <1>2 DEF Separator, Tries
    <3> QED
      BY <1>1, <1>2, <3>1, FitsNext
  <2>4. Fits(t, n, Len(ch))
    <3>1. Fits(s, n, Len(ch)) /\ n \in 0 .. n
      BY <1>1 DEF Good, MarksGood, n
    <3> QED
      BY <1>1, <2>1, <3>1, FitsLocal
  <2>5. \A i \in 1 .. n + 1 : Fits(t, i, t[i].mark)
    BY <1>1, <1>2, <2>2, <2>3
  <2>6. \A j \in 1 .. k + 1 :
           Fits(t, ds[j].buf - 1, Len(ds[j].saved_cleanup_chain))
    <3> TAKE j \in 1 .. k + 1
    <3>1. CASE j = k + 1
      <4>1. ds[j].buf - 1 = n /\ ds[j].saved_cleanup_chain = ch
        BY <1>1, <1>3, <3>1 DEF n
      <4> QED
        BY <2>4, <4>1
    <3>2. CASE j \in 1 .. k
      BY <1>1, <1>3, <1>6, <2>2, <3>2
    <3> QED
      BY <1>1, <3>1, <3>2
  <2> QED
    BY <1>2, <1>3, <2>3, <2>5, <2>6 DEF MarksGood
<1> QED
  BY <1>7, <1>8, <1>9, <1>10, <1>11 DEF Good, t, ds

(* A TRY_CATCH ends: its frame and its catcher go, and the chain it saved  *)
(* is back.                                                                *)
LEMMA GoodClose ==
  ASSUME NEW s, NEW cs, NEW ch, Good(s, cs, ch), Len(s) > 0,
         s[Len(s)].at \in Tries
  PROVE  Good(SubSeq(s, 1, Len(s) - 1), SubSeq(cs, 1, Len(cs) - 1),
              cs[Len(cs)].saved_cleanup_chain)
<1> DEFINE t   == SubSeq(s, 1, Len(s) - 1)
           ds  == SubSeq(cs, 1, Len(cs) - 1)
           ch2 == cs[Len(cs)].saved_cleanup_chain
           n   == Len(s) - 1
           k   == Len(cs) - 1
<1>1. /\ s \in Seq(Frames) /\ cs \in Seq(Catchers)
      /\ Len(s) \in Nat /\ Len(cs) \in Nat
  BY DEF Good, Typed
<1>2. Len(cs) > 0 /\ cs[Len(cs)].buf = Len(s)
  BY TopCatcher
<1>3. /\ n \in Nat /\ n \in 0 .. Len(s) /\ Len(s) = n + 1
      /\ k \in Nat /\ k \in 0 .. Len(cs) /\ Len(cs) = k + 1
  BY <1>1, <1>2
<1>4. t \in Seq(Frames) /\ Len(t) = n /\ \A i \in 1 .. n : t[i] = s[i]
  BY <1>1, <1>3, Prefix
<1>5. ds \in Seq(Catchers) /\ Len(ds) = k /\ \A j \in 1 .. k : ds[j] = cs[j]
  BY <1>1, <1>3, Prefix
<1>6. ch2 \in Seq(Cleanups) /\ Len(ch2) \in Nat
  BY <1>1, <1>2, CatcherTypes
<1> HIDE DEF t, ds, ch2, n, k
<1>7. \A j \in 1 .. k : cs[j].buf \in 1 .. n
  <2> TAKE j \in 1 .. k
  <2>1. j \in 1 .. Len(cs) /\ Len(cs) \in 1 .. Len(cs) /\ j < Len(cs)
    BY <1>3
  <2>2. cs[j].buf \in 1 .. Len(s) /\ cs[j].buf < cs[Len(cs)].buf
    BY <2>1 DEF Good, Live
  <2> QED
    BY <1>2, <1>3, <2>2
<1>8. Typed(t, ds, ch2)
  BY <1>3, <1>4, <1>5, <1>6 DEF Good, Typed
<1>9. Live(t, ds)
  <2>1. \A i, j \in 1 .. k : i < j => ds[i].buf < ds[j].buf
    BY <1>3, <1>5 DEF Good, Live
  <2>2. \A i \in 1 .. n :
           t[i].at \in Tries <=> \E j \in 1 .. k : ds[j].buf = i
    <3> TAKE i \in 1 .. n
    <3>1. s[i].at \in Tries <=> \E j \in 1 .. k + 1 : cs[j].buf = i
      BY <1>3 DEF Good, Live
    <3>2. cs[k + 1].buf # i
      BY <1>2, <1>3
    <3> QED
      BY <1>3, <1>4, <1>5, <3>1, <3>2
  <2> QED
    BY <1>4, <1>5, <1>7, <2>1, <2>2 DEF Live
<1>10. FramesGood(t)
  BY <1>3, <1>4 DEF Good, FramesGood
<1>11. CatchersGood(t, ds)
  <2>1. k > 0 => ds[1].mask = Reasons
    BY <1>3, <1>5 DEF Good, CatchersGood
  <2>2. ASSUME NEW j \in 1 .. k
        PROVE  /\ Paired(ds[j], t[ds[j].buf])
               /\ t[ds[j].buf].at = "body"
    BY <1>3, <1>4, <1>5, <1>7 DEF Good, CatchersGood
  <2> QED
    BY <1>5, <2>1, <2>2 DEF CatchersGood
<1>12. MarksGood(t, ds, ch2)
  <2>1. Agree(s, t, n)
    BY <1>4 DEF Agree
  <2>2. MarksGood(s, cs, ch) /\ Live(s, cs) /\ n <= Len(s)
    BY <1>3 DEF Good
  <2>3. /\ \A i \in 1 .. n : Fits(t, i, t[i].mark)
        /\ \A j \in 1 .. Len(cs) : cs[j].buf - 1 <= n =>
              Fits(t, cs[j].buf - 1, Len(cs[j].saved_cleanup_chain))
    BY <1>1, <1>3, <1>4, <2>1, <2>2, MarksLocal
  <2>4. Fits(t, n, Len(ch2))
    <3>1. Len(cs) \in 1 .. Len(cs) /\ cs[Len(cs)].buf - 1 = n
      BY <1>2, <1>3
    <3>2. Fits(t, cs[Len(cs)].buf - 1, Len(cs[Len(cs)].saved_cleanup_chain))
      BY <1>3, <2>3, <3>1
    <3> QED
      BY <3>1, <3>2 DEF ch2
  <2> QED
    BY <1>3, <1>4, <1>5, <1>7, <2>3, <2>4 DEF MarksGood
<1> QED
  BY <1>8, <1>9, <1>10, <1>11, <1>12 DEF Good, t, ds, ch2

(* The loops of a TRY_CATCH go on: its frame and its catcher change.       *)
LEMMA GoodMove ==
  ASSUME NEW s, NEW cs, NEW ch, Good(s, cs, ch), Len(s) > 0,
         s[Len(s)].at \in Tries,
         NEW f, NEW c, Moved(f, s[Len(s)], c, cs[Len(cs)])
  PROVE  Good([s EXCEPT ![Len(s)] = f], [cs EXCEPT ![Len(cs)] = c], ch)
<1> DEFINE t  == [s EXCEPT ![Len(s)] = f]
           ds == [cs EXCEPT ![Len(cs)] = c]
           n  == Len(s)
           k  == Len(cs)
<1>1. /\ s \in Seq(Frames) /\ cs \in Seq(Catchers) /\ Len(ch) \in Nat
      /\ n \in Nat /\ k \in Nat /\ n > 0 /\ k > 0 /\ cs[k].buf = n
      /\ n \in 1 .. n /\ k \in 1 .. k /\ n \in 1 .. Len(s)
  BY TopCatcher DEF Good, Typed
<1>0. /\ f \in Frames /\ f.at \in Tries /\ f.mark = s[n].mark
      /\ f.exception = s[n].exception
      /\ c \in Catchers /\ c.buf = n /\ c.mask = cs[k].mask
      /\ c.saved_cleanup_chain = cs[k].saved_cleanup_chain
      /\ c.state = "ABORTING" <=> c.exception # NoException
      /\ Paired(c, f)
  BY <1>1 DEF Moved
<1>2. /\ t \in Seq(Frames) /\ Len(t) = n
      /\ \A i \in 1 .. n : t[i] = IF i = n THEN f ELSE s[i]
  BY <1>0, <1>1, ExceptSeq
<1>3. /\ ds \in Seq(Catchers) /\ Len(ds) = k
      /\ \A j \in 1 .. k : ds[j] = IF j = k THEN c ELSE cs[j]
  BY <1>0, <1>1, ExceptSeq
<1>4. s[n].at \in Tries
  BY <1>1
<1> HIDE DEF t, ds, n, k
<1>5. /\ \A j \in 1 .. k : ds[j].buf = cs[j].buf /\ ds[j].buf \in 1 .. n
      /\ \A j \in 1 .. k : j # k => cs[j].buf \in 1 .. n /\ cs[j].buf # n
  BY <1>1, <1>3, <1>0, <1>4 DEF Good, Live, n, k
<1>6. Typed(t, ds, ch)
  BY <1>0, <1>1, <1>2, <1>3 DEF Good, Typed, k
<1>7. Live(t, ds)
  <2>1. \A i, j \in 1 .. k : i < j => ds[i].buf < ds[j].buf
    BY <1>5 DEF Good, Live, k
  <2>2. \A i \in 1 .. n : t[i].at \in Tries <=> s[i].at \in Tries
    BY <1>2, <1>0, <1>4
  <2>3. \A i \in 1 .. n :
           t[i].at \in Tries <=> \E j \in 1 .. k : ds[j].buf = i
    BY <1>5, <2>2 DEF Good, Live, n, k
  <2> QED
    BY <1>2, <1>3, <1>5, <2>1, <2>3 DEF Live
<1>8. FramesGood(t)
  <2>1. \A i \in 1 .. n : /\ t[i].exception = s[i].exception
                          /\ t[i].mark = s[i].mark
                          /\ t[i].at \in Tries <=> s[i].at \in Tries
                          /\ t[i].at = "function" <=> s[i].at = "function"
    BY <1>2, <1>0, <1>4 DEF Tries
  <2> QED
    BY <1>1, <1>2, <2>1 DEF Good, FramesGood, Separator, n
<1>9. CatchersGood(t, ds)
  <2>1. ds[1].mask = Reasons
    BY <1>1, <1>3, <1>0, <1>4 DEF Good, CatchersGood, k
  <2>2. ASSUME NEW j \in 1 .. k
        PROVE  /\ Paired(ds[j], t[ds[j].buf])
               /\ ds[j].buf # n => t[ds[j].buf].at = "body"
    <3>1. CASE j = k
      BY <1>1, <1>2, <1>3, <1>0, <1>4, <3>1
    <3>2. CASE j # k
      BY <1>2, <1>3, <1>5, <3>2 DEF Good, CatchersGood, n, k
    <3> QED
      BY <3>1, <3>2
  <2> QED
    BY <1>2, <1>3, <2>1, <2>2 DEF CatchersGood
<1>10. MarksGood(t, ds, ch)
  <2>1. Agree(s, t, n)
    BY <1>2, <1>0, <1>4 DEF Agree, Separator
  <2>2. MarksGood(s, cs, ch) /\ Live(s, cs) /\ n <= Len(s)
    BY <1>1 DEF Good, n
  <2>3. /\ \A i \in 1 .. n : Fits(t, i, t[i].mark)
        /\ \A j \in 1 .. k : cs[j].buf - 1 <= n =>
              Fits(t, cs[j].buf - 1, Len(cs[j].saved_cleanup_chain))
    BY <1>1, <1>2, <2>1, <2>2, MarksLocal DEF k
  <2>4. Fits(t, n, Len(ch))
    <3>1. Fits(s, n, Len(ch)) /\ n \in 0 .. n
      BY <1>1 DEF Good, MarksGood, n
    <3> QED
      BY <1>1, <2>1, <3>1, FitsLocal
  <2>5. ASSUME NEW j \in 1 .. k
        PROVE  Fits(t, ds[j].buf - 1, Len(ds[j].saved_cleanup_chain))
    <3>1. ds[j].buf = cs[j].buf /\ cs[j].buf - 1 <= n
      BY <1>1, <1>5
    <3>2. ds[j].saved_cleanup_chain = cs[j].saved_cleanup_chain
      BY <1>3, <1>0, <1>4
    <3> QED
      BY <2>3, <3>1, <3>2
  <2> QED
    BY <1>2, <1>3, <2>3, <2>4, <2>5 DEF MarksGood
<1> QED
  BY <1>6, <1>7, <1>8, <1>9, <1>10 DEF Good, t, ds

(* A jump: the frames inside the current TRY_CATCH go. *)
LEMMA GoodCut ==
  ASSUME NEW s, NEW cs, NEW ch, Good(s, cs, ch), Len(s) > 0
  PROVE  Good(SubSeq(s, 1, cs[Len(cs)].buf), cs, <<>>)
<1> DEFINE b == cs[Len(cs)].buf
           t == SubSeq(s, 1, b)
           k == Len(cs)
<1>1. /\ s \in Seq(Frames) /\ cs \in Seq(Catchers) /\ Len(s) \in Nat
      /\ k \in Nat /\ k \in 1 .. k /\ b \in 1 .. Len(s)
      /\ s[b].at \in Tries /\ b \in 0 .. Len(s) /\ b \in Nat
  BY TopCatcher DEF Good, Typed
<1>2. t \in Seq(Frames) /\ Len(t) = b /\ \A i \in 1 .. b : t[i] = s[i]
  BY <1>1, Prefix
<1>3. b = cs[k].buf
  OBVIOUS
<1> HIDE DEF t, b, k
<1>4. \A j \in 1 .. k : /\ cs[j].buf \in 1 .. b
                        /\ cs[j].buf # b => cs[j].buf # Len(s)
  <2> TAKE j \in 1 .. k
  <2>1. j = k \/ cs[j].buf < b
    BY <1>1, <1>3 DEF Good, Live, k
  <2>2. cs[j].buf \in 1 .. Len(s)
    BY DEF Good, Live, k
  <2> QED
    BY <1>1, <1>3, <2>1, <2>2
<1>5. Typed(t, cs, <<>>)
  BY <1>2 DEF Good, Typed
<1>6. Live(t, cs)
  <2>1. \A i, j \in 1 .. k : i < j => cs[i].buf < cs[j].buf
    BY DEF Good, Live, k
  <2>2. \A i \in 1 .. b :
           t[i].at \in Tries <=> \E j \in 1 .. k : cs[j].buf = i
    <3> TAKE i \in 1 .. b
    <3>1. i \in 1 .. Len(s) /\ t[i] = s[i]
      BY <1>1, <1>2
    <3> QED
      BY <3>1 DEF Good, Live, k
  <2> QED
    BY <1>2, <1>4, <2>1, <2>2 DEF Live, k
<1>7. FramesGood(t)
  BY <1>1, <1>2 DEF Good, FramesGood
<1>8. CatchersGood(t, cs)
  BY <1>1, <1>2, <1>4 DEF Good, CatchersGood, k
<1>9. MarksGood(t, cs, <<>>)
  <2>1. Agree(s, t, b)
    BY <1>2 DEF Agree
  <2>2. MarksGood(s, cs, ch) /\ Live(s, cs) /\ b <= Len(s)
    BY <1>1 DEF Good
  <2>3. /\ \A i \in 1 .. b : Fits(t, i, t[i].mark)
        /\ \A j \in 1 .. k : cs[j].buf - 1 <= b =>
              Fits(t, cs[j].buf - 1, Len(cs[j].saved_cleanup_chain))
    BY <1>1, <1>2, <2>1, <2>2, MarksLocal DEF k
  <2>4. Fits(t, b, 0)
    <3>1. t[b].mark = 0 /\ b \in 1 .. b
      BY <1>1, <1>2 DEF Good, FramesGood, Separator
    <3> QED
      BY <2>3, <3>1
  <2>5. \A j \in 1 .. k : cs[j].buf - 1 <= b
    BY <1>1, <1>4
  <2> QED
    BY <1>2, <2>3, <2>4, <2>5 DEF MarksGood, k
<1> QED
  BY <1>5, <1>6, <1>7, <1>8, <1>9 DEF Good, t, b

(* throw_it frees a message, wherever it is. *)
LEMMA GoodStale ==
  ASSUME NEW s, NEW cs, NEW ch, Good(s, cs, ch)
  PROVE  Good([i \in DOMAIN s |-> [s[i] EXCEPT !.exception = Stale(@)]],
              [j \in DOMAIN cs |-> [cs[j] EXCEPT !.exception = Stale(@)]], ch)
<1> DEFINE t  == [i \in DOMAIN s |-> [s[i] EXCEPT !.exception = Stale(@)]]
           ds == [j \in DOMAIN cs |-> [cs[j] EXCEPT !.exception = Stale(@)]]
           n  == Len(s)
           k  == Len(cs)
<1>1. /\ s \in Seq(Frames) /\ cs \in Seq(Catchers) /\ Len(ch) \in Nat
      /\ n \in Nat /\ k \in Nat /\ DOMAIN s = 1 .. n /\ DOMAIN cs = 1 .. k
  BY DEF Good, Typed
<1>2. ASSUME NEW e \in Exceptions
      PROVE  /\ Stale(e) \in Exceptions /\ Stale(e).reason = e.reason
             /\ Stale(e) = NoException <=> e = NoException
  BY DEF Stale, Exceptions, NoException
<1>3. ASSUME NEW i \in 1 .. n
      PROVE  /\ t[i] \in Frames
             /\ t[i].at = s[i].at /\ t[i].mark = s[i].mark /\ t[i].ran = s[i].ran
             /\ t[i].exception = NoException <=> s[i].exception = NoException
             /\ t[i].exception.reason = s[i].exception.reason
  <2>1. s[i] \in Frames /\ s[i].exception \in Exceptions
    BY <1>1, FrameTypes
  <2>2. t[i] = [s[i] EXCEPT !.exception = Stale(s[i].exception)]
    BY <1>1
  <2> QED
    BY <1>2, <2>1, <2>2 DEF Frames
<1>4. ASSUME NEW j \in 1 .. k
      PROVE  /\ ds[j] \in Catchers
             /\ ds[j].buf = cs[j].buf /\ ds[j].state = cs[j].state
             /\ ds[j].mask = cs[j].mask
             /\ ds[j].saved_cleanup_chain = cs[j].saved_cleanup_chain
             /\ ds[j].exception = NoException <=> cs[j].exception = NoException
             /\ ds[j].exception.reason = cs[j].exception.reason
  <2>1. cs[j] \in Catchers /\ cs[j].exception \in Exceptions
    BY <1>1, CatcherTypes
  <2>2. ds[j] = [cs[j] EXCEPT !.exception = Stale(cs[j].exception)]
    BY <1>1
  <2>3. /\ Stale(cs[j].exception) \in Exceptions
        /\ Stale(cs[j].exception).reason = cs[j].exception.reason
        /\ Stale(cs[j].exception) = NoException <=> cs[j].exception = NoException
    BY <1>2, <2>1
  <2>4. /\ ds[j] \in Catchers /\ ds[j].exception = Stale(cs[j].exception)
        /\ ds[j].buf = cs[j].buf /\ ds[j].state = cs[j].state
        /\ ds[j].mask = cs[j].mask
        /\ ds[j].saved_cleanup_chain = cs[j].saved_cleanup_chain
    BY <2>1, <2>2, <2>3 DEF Catchers
  <2> QED
    BY <2>3, <2>4
<1>5. t \in Seq(Frames) /\ Len(t) = n
  <2>1. t \in [1 .. n -> Frames]
    BY <1>1, <1>3
  <2> QED
    BY <1>1, <2>1, MadeOf
<1>6. ds \in Seq(Catchers) /\ Len(ds) = k
  <2>1. ds \in [1 .. k -> Catchers]
    BY <1>1, <1>4
  <2> QED
    BY <1>1, <2>1, MadeOf
<1> HIDE DEF t, ds, n, k
<1>7. Typed(t, ds, ch)
  BY <1>4, <1>5, <1>6 DEF Good, Typed, k
<1>8. Live(t, ds)
  <2>1. \A i, j \in 1 .. k : i < j => ds[i].buf < ds[j].buf
    BY <1>4 DEF Good, Live, k
  <2>2. \A i \in 1 .. n :
           t[i].at \in Tries <=> \E j \in 1 .. k : ds[j].buf = i
    BY <1>3, <1>4 DEF Good, Live, n, k
  <2>3. \A j \in 1 .. k : ds[j].buf \in 1 .. n
    BY <1>4 DEF Good, Live, n, k
  <2> QED
    BY <1>5, <1>6, <2>1, <2>2, <2>3 DEF Live
<1>9. FramesGood(t)
  BY <1>1, <1>3, <1>5 DEF Good, FramesGood, Separator, n
<1>10. CatchersGood(t, ds)
  <2>1. k > 0 => ds[1].mask = Reasons
    BY <1>1, <1>4 DEF Good, CatchersGood, k
  <2>2. ASSUME NEW j \in 1 .. k
        PROVE  /\ Paired(ds[j], t[ds[j].buf])
               /\ ds[j].buf # n => t[ds[j].buf].at = "body"
    <3>1. cs[j].buf \in 1 .. n
      BY DEF Good, Live, n, k
    <3>2. /\ Paired(cs[j], s[cs[j].buf])
          /\ cs[j].buf # n => s[cs[j].buf].at = "body"
      BY DEF Good, CatchersGood, n, k
    <3> QED
      BY <1>3, <1>4, <3>1, <3>2 DEF Paired
  <2> QED
    BY <1>5, <1>6, <2>1, <2>2 DEF CatchersGood
<1>11. MarksGood(t, ds, ch)
  <2>1. Agree(s, t, n)
    BY <1>3 DEF Agree, Separator
  <2>2. MarksGood(s, cs, ch) /\ Live(s, cs) /\ n <= Len(s)
    BY <1>1 DEF Good, n
  <2>3. /\ \A i \in 1 .. n : Fits(t, i, t[i].mark)
        /\ \A j \in 1 .. k : cs[j].buf - 1 <= n =>
              Fits(t, cs[j].buf - 1, Len(cs[j].saved_cleanup_chain))
    BY <1>1, <1>5, <2>1, <2>2, MarksLocal DEF k
  <2>4. Fits(t, n, Len(ch))
    <3>1. Fits(s, n, Len(ch)) /\ n \in 0 .. n
      BY <1>1 DEF Good, MarksGood, n
    <3> QED
      BY <1>1, <2>1, <3>1, FitsLocal
  <2>5. \A j \in 1 .. k : cs[j].buf - 1 <= n
    BY <1>1 DEF Good, Live, n, k
  <2> QED
    BY <1>4, <1>5, <1>6, <2>3, <2>4, <2>5 DEF MarksGood
<1> QED
  BY <1>7, <1>8, <1>9, <1>10, <1>11 DEF Good, t, ds

(* The chain changes, above the marks. *)
LEMMA GoodChain ==
  ASSUME NEW s, NEW cs, NEW ch, Good(s, cs, ch),
         NEW ch2 \in Seq(Cleanups), Fits(s, Len(s), Len(ch2))
  PROVE  Good(s, cs, ch2)
BY DEF Good, Typed, MarksGood

-----------------------------------------------------------------------------
(* main has not called anything: nothing to maintain.                      *)
LEMMA InitInv == Init => IInv
<1> SUFFICES ASSUME Init PROVE IInv
  OBVIOUS
<1>1. Typed(stack, catchers, cleanup_chain)
  BY EmptySeq DEF Init, Typed
<1>2. /\ Live(stack, catchers) /\ FramesGood(stack)
      /\ CatchersGood(stack, catchers)
      /\ MarksGood(stack, catchers, cleanup_chain)
  BY EmptySeq DEF Init, Live, FramesGood, CatchersGood, MarksGood, Fits
<1> QED
  BY <1>1, <1>2, ExceptionsAssumption
     DEF Init, IInv, Good, Exceptions, NoException

(* What every step needs of the state it starts in. *)
LEMMA Here ==
  ASSUME IInv, stack # <<>>
  PROVE  /\ stack \in Seq(Frames) /\ catchers \in Seq(Catchers)
         /\ cleanup_chain \in Seq(Cleanups)
         /\ Depth \in Nat /\ Depth > 0 /\ Depth \in 1 .. Depth
         /\ Len(cleanup_chain) \in Nat /\ Len(catchers) \in Nat
         /\ Len(catchers) > 0
         /\ Top \in Frames /\ Top.mark \in Nat /\ Top.exception \in Exceptions
         /\ Current \in Catchers /\ Paired(Current, stack[Current.buf])
         /\ Current.buf \in 1 .. Depth /\ stack[Current.buf].at \in Tries
         /\ Top.at \in Tries => Current.buf = Depth
         /\ Fits(stack, Depth, Top.mark)
         /\ Top.mark <= Len(cleanup_chain)
<1>1. /\ stack \in Seq(Frames) /\ catchers \in Seq(Catchers)
      /\ cleanup_chain \in Seq(Cleanups)
      /\ Depth \in Nat /\ Len(catchers) \in Nat
      /\ Len(cleanup_chain) \in Nat
      /\ Good(stack, catchers, cleanup_chain)
  BY DEF IInv, Good, Typed, Depth
<1>2. Depth > 0 /\ Depth \in 1 .. Depth
  BY <1>1, EmptySeq DEF Depth
<1>3. /\ Len(catchers) > 0 /\ Current \in Catchers /\ Top \in Frames
      /\ Current.buf \in 1 .. Depth /\ stack[Current.buf].at \in Tries
      /\ Top.at \in Tries => Current.buf = Depth
  BY <1>1, <1>2, TopCatcher DEF Depth, Current, Top
<1>4. Paired(Current, stack[Current.buf])
  BY <1>1, <1>3 DEF Good, CatchersGood, Current
<1>5. Top.mark \in Nat /\ Top.exception \in Exceptions
  BY <1>1, <1>2, FrameTypes DEF Top, Depth
<1>6. Fits(stack, Depth, Top.mark)
  BY <1>1, <1>2 DEF Good, MarksGood, Depth, Top
<1>7. Top.mark <= Len(cleanup_chain)
  <2>1. SameScope(stack, Depth, Depth)
    BY <1>1 DEF SameScope
  <2>2. Fits(stack, Depth, Len(cleanup_chain))
    BY <1>1 DEF Good, MarksGood, Depth
  <2> QED
    BY <1>2, <2>1, <2>2 DEF Fits, Top
<1> QED
  BY <1>1, <1>2, <1>3, <1>4, <1>5, <1>6, <1>7

(* The record that Frame builds.                                           *)
LEMMA FrameType ==
  ASSUME NEW at, NEW mark, NEW e, NEW c,
         at \in Tries \union {"loop", "function"}, mark \in Nat,
         e \in Exceptions, c \in Cleanups \union {NoCleanup}
  PROVE  /\ Frame(at, mark, e, c) \in Frames
         /\ Frame(at, mark, e, c).at = at /\ Frame(at, mark, e, c).mark = mark
         /\ Frame(at, mark, e, c).exception = e /\ Frame(at, mark, e, c).ran = 0
         /\ Frame(at, mark, e, c).cleanup = c
BY DEF Frame, Frames

-----------------------------------------------------------------------------
(* The steps on the chain. *)
LEMMA ChainSteps ==
  ASSUME IInv,
         \/ \E c \in Cleanups : MakeCleanup(c)
         \/ \E mark \in 0 .. Len(cleanup_chain) : DiscardCleanups(mark)
  PROVE  Good(stack, catchers, cleanup_chain')
<1>1. stack # <<>> /\ Good(stack, catchers, cleanup_chain)
  BY DEF MakeCleanup, DiscardCleanups, InCode, IInv
<1> USE Here, <1>1
<1>2. ASSUME NEW c \in Cleanups, MakeCleanup(c)
      PROVE  Good(stack, catchers, cleanup_chain')
  <2>1. /\ cleanup_chain' \in Seq(Cleanups)
        /\ Len(cleanup_chain') = Len(cleanup_chain) + 1
    BY <1>2, AppendProperties DEF MakeCleanup
  <2>2. Top.mark <= Len(cleanup_chain') /\ Depth \in 0 .. Len(stack)
    BY <2>1 DEF Depth
  <2>3. Fits(stack, Len(stack), Len(cleanup_chain'))
    BY <2>1, <2>2, FitsMore DEF Depth
  <2> QED
    BY <2>1, <2>3, GoodChain
<1>3. ASSUME NEW mark \in 0 .. Len(cleanup_chain), DiscardCleanups(mark)
      PROVE  Good(stack, catchers, cleanup_chain')
  <2>1. /\ cleanup_chain' \in Seq(Cleanups)
        /\ Len(cleanup_chain') = mark
    BY <1>3, Prefix DEF DiscardCleanups
  <2>2. Top.mark <= Len(cleanup_chain') /\ Depth \in 0 .. Len(stack)
    BY <1>3, <2>1 DEF Depth, DiscardCleanups, Marks
  <2>3. Fits(stack, Len(stack), Len(cleanup_chain'))
    BY <2>1, <2>2, FitsMore DEF Depth
  <2> QED
    BY <2>1, <2>3, GoodChain
<1> QED
  BY <1>2, <1>3

(* The steps that call. *)
LEMMA CallSteps ==
  ASSUME IInv,
         \/ \E mark \in 0 .. Len(cleanup_chain) : DoCleanups(mark)
         \/ RunCleanup
         \/ \E reason \in Reasons : ThrowMessage(reason) \/ ThrowReason(reason)
  PROVE  Good(stack', catchers', cleanup_chain')
<1>1. /\ stack # <<>> /\ Good(stack, catchers, cleanup_chain)
      /\ Top.at \in {"body", "function", "loop"}
      /\ Top = stack[Len(stack)] /\ Len(stack) = Depth
  BY DEF DoCleanups, RunCleanup, ThrowMessage, ThrowReason, InCode, IInv, Top,
         Depth
<1> USE Here, <1>1
<1>2. ASSUME NEW mark \in 0 .. Len(cleanup_chain), DoCleanups(mark)
      PROVE  Good(stack', catchers', cleanup_chain')
  <2> DEFINE f == Frame("loop", mark, NoException, NoCleanup)
  <2>1. f \in Frames /\ f.at = "loop" /\ f.mark = mark /\ f.exception = NoException
    <3>1. NoException \in Exceptions
      BY DEF NoException, Exceptions
    <3>2. mark \in Nat /\ "loop" \in Tries \union {"loop", "function"}
          /\ NoCleanup \in Cleanups \union {NoCleanup}
      OBVIOUS
    <3> QED
      BY <3>1, <3>2, FrameType
  <2>2. Top.mark <= mark /\ mark \in Nat
    BY <1>2 DEF DoCleanups, Marks
  <2>3. Fits(stack, Len(stack), mark)
    <3>1. Depth \in 0 .. Len(stack)
      OBVIOUS
    <3> QED
      BY <2>2, <3>1, FitsMore
  <2>4. /\ stack' = Append(stack, f) /\ catchers' = catchers
        /\ cleanup_chain' = cleanup_chain
    BY <1>2 DEF DoCleanups
  <2> HIDE DEF f
  <2>5. Good(Append(stack, f), catchers, cleanup_chain)
    BY <2>1, <2>2, <2>3, GoodPush
  <2> QED
    BY <2>4, <2>5
<1>3. ASSUME RunCleanup
      PROVE  Good(stack', catchers', cleanup_chain')
  <2> DEFINE n == Len(cleanup_chain) - 1
             f == Frame("function", n, NoException, cleanup_chain[n + 1])
  <2>1. Top.mark <= n /\ n \in Nat /\ n \in 0 .. Len(cleanup_chain)
        /\ n + 1 \in 1 .. Len(cleanup_chain)
    BY <1>3 DEF RunCleanup
  <2>2. /\ SubSeq(cleanup_chain, 1, n) \in Seq(Cleanups)
        /\ Len(SubSeq(cleanup_chain, 1, n)) = n
        /\ cleanup_chain[n + 1] \in Cleanups
    BY <2>1, Prefix, ElementOfSeq
  <2>3. f \in Frames /\ f.at = "function" /\ f.mark = n /\ f.exception = NoException
    <3>1. NoException \in Exceptions
      BY DEF NoException, Exceptions
    <3>2. "function" \in Tries \union {"loop", "function"}
          /\ cleanup_chain[n + 1] \in Cleanups \union {NoCleanup}
      BY <2>2
    <3> QED
      BY <2>1, <3>1, <3>2, FrameType
  <2>4. Fits(stack, Len(stack), n)
    <3>1. Depth \in 0 .. Len(stack)
      OBVIOUS
    <3> QED
      BY <2>1, <3>1, FitsMore
  <2>5. /\ stack' = Append(stack, f) /\ catchers' = catchers
        /\ cleanup_chain' = SubSeq(cleanup_chain, 1, n)
    BY <1>3 DEF RunCleanup
  <2> HIDE DEF f, n
  <2> DEFINE ch2 == SubSeq(cleanup_chain, 1, n)
  <2>6. ch2 \in Seq(Cleanups) /\ f.mark <= Len(ch2)
    BY <2>1, <2>2, <2>3
  <2>7. f.at \in {"loop", "function"} /\ Fits(stack, Len(stack), f.mark)
    BY <2>3, <2>4
  <2> HIDE DEF ch2
  <2>8. Good(Append(stack, f), catchers, ch2)
    BY <2>3, <2>6, <2>7, GoodPush
  <2> QED
    BY <2>5, <2>8 DEF ch2
<1>4. ASSUME NEW e \in Exceptions, e.reason \in Reasons, e # NoException,
             NEW s, NEW cs, Good(s, cs, cleanup_chain), Len(s) = Len(stack),
             s[Len(s)].at = Top.at
      PROVE  Good(Append(s, Frame("loop", 0, e, NoCleanup)), cs, cleanup_chain)
  <2> DEFINE f == Frame("loop", 0, e, NoCleanup)
  <2>1. f \in Frames /\ f.at = "loop" /\ f.mark = 0 /\ f.exception = e
    <3>1. 0 \in Nat /\ "loop" \in Tries \union {"loop", "function"}
          /\ NoCleanup \in Cleanups \union {NoCleanup}
      OBVIOUS
    <3> QED
      BY <3>1, FrameType
  <2> HIDE DEF f
  <2>2. Len(s) > 0 /\ s[Len(s)].at \notin {"outer", "inner"}
    BY <1>4
  <2>3. Good(Append(s, f), cs, cleanup_chain)
    BY <1>4, <2>1, <2>2, GoodPush
  <2> QED
    BY <2>3 DEF f
<1>5. ASSUME NEW reason \in Reasons, ThrowMessage(reason)
      PROVE  Good(stack', catchers', cleanup_chain')
  <2> DEFINE e  == [reason |-> reason, message |-> "live"]
             s  == [i \in DOMAIN stack |->
                      [stack[i] EXCEPT !.exception = Stale(@)]]
             cs == [j \in DOMAIN catchers |->
                      [catchers[j] EXCEPT !.exception = Stale(@)]]
  <2>1. e \in Exceptions /\ e.reason \in Reasons /\ e # NoException
    BY DEF Exceptions, NoException, Reasons
  <2>2. Good(s, cs, cleanup_chain)
    BY GoodStale
  <2>3. Len(s) = Len(stack)
    <3>1. s \in Seq(Frames)
      BY <2>2 DEF Good, Typed
    <3>2. DOMAIN s = 1 .. Len(s) /\ DOMAIN s = 1 .. Len(stack) /\ Len(s) \in Nat
      BY <3>1, LenProperties
    <3> QED
      BY <3>2
  <2>4. s[Len(s)].at = Top.at
    BY <2>3 DEF Frames
  <2>5. /\ stack' = Append(s, Frame("loop", 0, e, NoCleanup))
        /\ catchers' = cs /\ cleanup_chain' = cleanup_chain
    BY <1>5 DEF ThrowMessage
  <2> HIDE DEF e, s, cs
  <2> QED
    BY <1>4, <2>1, <2>2, <2>3, <2>4, <2>5
<1>6. ASSUME NEW reason \in Reasons, ThrowReason(reason)
      PROVE  Good(stack', catchers', cleanup_chain')
  <2> DEFINE e == [reason |-> reason, message |-> "null"]
  <2>1. e \in Exceptions /\ e.reason \in Reasons /\ e # NoException
    BY DEF Exceptions, NoException, Reasons
  <2>2. /\ stack' = Append(stack, Frame("loop", 0, e, NoCleanup))
        /\ catchers' = catchers /\ cleanup_chain' = cleanup_chain
    BY <1>6 DEF ThrowReason
  <2> HIDE DEF e
  <2> QED
    BY <1>4, <2>1, <2>2
<1> QED
  BY <1>2, <1>3, <1>5, <1>6

(* The steps that return. *)
LEMMA ReturnSteps ==
  ASSUME IInv, FunctionReturns \/ LoopReturns
  PROVE  Good(stack', catchers', cleanup_chain')
<1>1. /\ stack # <<>> /\ Good(stack, catchers, cleanup_chain)
      /\ Top = stack[Len(stack)] /\ Len(stack) = Depth
      /\ Top.at \in {"function", "loop"}
  BY DEF FunctionReturns, LoopReturns, IInv, Top, Depth
<1>2. Top.exception = NoException
  <2>1. CASE FunctionReturns
    BY <1>1, <2>1, Here DEF FunctionReturns, Good, FramesGood
  <2>2. CASE LoopReturns
    BY <2>2 DEF LoopReturns
  <2> QED
    BY <2>1, <2>2
<1>3. Good(SubSeq(stack, 1, Len(stack) - 1), catchers, cleanup_chain)
  BY <1>1, <1>2, Here, GoodPop
<1> QED
  BY <1>1, <1>3 DEF FunctionReturns, LoopReturns, PopFrame

(* A TRY_CATCH begins. *)
LEMMA OpenStep ==
  ASSUME IInv, NEW mask \in Masks, NEW ui \in Uis, EnterTry(mask, ui)
  PROVE  Good(stack', catchers', cleanup_chain')
<1> DEFINE f == Frame("outer", 0, NoException, NoCleanup)
           c == [state |-> "CREATED", buf |-> Depth + 1,
                 exception |-> NoException, mask |-> mask,
                 saved_uiout |-> uiout, saved_cleanup_chain |-> cleanup_chain]
<1>1. /\ Good(stack, catchers, cleanup_chain) /\ uiout \in Uis
      /\ cleanup_chain \in Seq(Cleanups) /\ Depth \in Nat
      /\ NoException \in Exceptions
  BY DEF IInv, Good, Typed, Depth, NoException, Exceptions
<1>2. f \in Frames /\ f.at = "outer" /\ f.mark = 0 /\ f.ran = 0
      /\ f.exception = NoException
  <2>1. 0 \in Nat /\ "outer" \in Tries \union {"loop", "function"}
        /\ NoCleanup \in Cleanups \union {NoCleanup}
    BY DEF Tries
  <2> QED
    BY <1>1, <2>1, FrameType
<1>3. c \in Catchers
  BY <1>1 DEF Catchers
<1>4. /\ c.state = "CREATED" /\ c.exception = NoException
      /\ c.buf = Len(stack) + 1 /\ c.saved_cleanup_chain = cleanup_chain
      /\ c.mask = mask
  BY DEF Depth
<1>5. /\ stack' = Append(stack, f) /\ catchers' = Append(catchers, c)
      /\ cleanup_chain' = <<>>
  BY DEF EnterTry, SaveCleanups
<1>6. IF stack = <<>> THEN mask = Reasons
      ELSE stack[Len(stack)].at \notin {"outer", "inner"}
  BY DEF EnterTry, InCode, Top, Depth
<1> HIDE DEF f, c
<1>7. Good(Append(stack, f), Append(catchers, c), <<>>)
  BY <1>1, <1>2, <1>3, <1>4, <1>6, GoodOpen
<1> QED
  BY <1>5, <1>7

(* A TRY_CATCH ends, with or without an exception for its caller. *)
LEMMA CloseSteps ==
  ASSUME IInv, IterDone \/ Catch \/ Relay
  PROVE  Good(stack', catchers', cleanup_chain')
<1>1. /\ stack # <<>> /\ Good(stack, catchers, cleanup_chain)
      /\ Top = stack[Len(stack)] /\ Len(stack) = Depth /\ Top.at = "outer"
      /\ Current = catchers[Len(catchers)]
  BY DEF IterDone, Catch, Relay, AtOuter, IInv, Top, Depth, Current
<1> DEFINE s  == SubSeq(stack, 1, Len(stack) - 1)
           cs == SubSeq(catchers, 1, Len(catchers) - 1)
           ch == Current.saved_cleanup_chain
<1>2. Good(s, cs, ch)
  <2>1. stack[Len(stack)].at \in Tries /\ Len(stack) > 0
    BY <1>1, Here DEF Tries
  <2> QED
    BY <1>1, <2>1, GoodClose
<1>3. catchers' = cs /\ cleanup_chain' = ch
  BY DEF IterDone, Catch, Relay, CatcherPop
<1>4. CASE IterDone \/ Catch
  <2>1. stack' = s
    BY <1>1, <1>4 DEF IterDone, Catch, PopFrame
  <2> HIDE DEF s, cs, ch
  <2> QED
    BY <1>2, <1>3, <2>1
<1>5. CASE Relay
  <2> DEFINE e == Current.exception
             f == Frame("loop", 0, e, NoCleanup)
  <2>1. /\ Current.state = "ABORTING" /\ e.reason \notin Current.mask
        /\ stack' = Append(s, f)
    BY <1>1, <1>5 DEF Relay, AtOuter, PopFrame
  <2>2. e # NoException /\ e.reason \in Reasons /\ e \in Exceptions
    <3>1. Current.exception \in Exceptions
      BY <1>1, Here, CatcherTypes
    <3>2. Current.exception # NoException
      BY <1>1, <2>1, Here DEF Good, Typed
    <3> QED
      BY <1>1, <3>1, <3>2, Here DEF Paired
  <2>3. f \in Frames /\ f.at = "loop" /\ f.mark = 0 /\ f.exception = e
    <3>1. 0 \in Nat /\ "loop" \in Tries \union {"loop", "function"}
          /\ NoCleanup \in Cleanups \union {NoCleanup}
      OBVIOUS
    <3> QED
      BY <2>2, <3>1, FrameType
  <2>4. Depth > 1
    <3> SUFFICES ASSUME Depth = 1 PROVE FALSE
      BY <1>1, Here
    <3>1. Current.buf = 1
      BY <1>1, Here DEF Tries
    <3>2. Len(catchers) = 1
      <4> SUFFICES ASSUME Len(catchers) > 1 PROVE FALSE
        BY <1>1, Here
      <4>1. 1 \in 1 .. Len(catchers) /\ Len(catchers) \in 1 .. Len(catchers)
        BY <1>1, Here
      <4>2. catchers[1].buf \in 1 .. Len(stack)
            /\ catchers[1].buf < catchers[Len(catchers)].buf
        BY <1>1, <4>1 DEF Good, Live
      <4> QED
        BY <1>1, <3>1, <4>2
    <3>3. Current.mask = Reasons
      BY <1>1, <3>2 DEF Good, CatchersGood
    <3> QED
      BY <2>1, <2>2, <3>3
  <2>5. Len(s) = Depth - 1 /\ Len(s) > 0 /\ s[Len(s)] = stack[Depth - 1]
    <3>1. Depth - 1 \in 0 .. Len(stack) /\ Depth - 1 \in 1 .. Depth - 1
      BY <1>1, <2>4, Here
    <3> QED
      BY <1>1, <2>4, <3>1, Here, Prefix
  <2>6. stack[Depth - 1].at \notin {"outer", "inner"}
    <3> SUFFICES ASSUME stack[Depth - 1].at \in Tries
                 PROVE  stack[Depth - 1].at = "body"
      BY DEF Tries
    <3>1. Depth - 1 \in 1 .. Len(stack) /\ Depth - 1 # Len(stack)
      BY <1>1, <2>4, Here
    <3>2. PICK j \in 1 .. Len(catchers) : catchers[j].buf = Depth - 1
      BY <1>1, <3>1 DEF Good, Live
    <3> QED
      BY <1>1, <3>1, <3>2 DEF Good, CatchersGood
  <2>7. ch \in Seq(Cleanups) /\ 0 <= Len(ch)
    BY <1>2, LenProperties DEF Good, Typed
  <2> HIDE DEF s, cs, ch, e, f
  <2>8. Good(Append(s, f), cs, ch)
    <3>1. f.mark <= Len(ch) /\ f.at \in {"loop", "function"}
      BY <2>3, <2>7
    <3>2. s[Len(s)].at \notin {"outer", "inner"}
      BY <2>5, <2>6
    <3> QED
      BY <1>2, <2>2, <2>3, <2>5, <2>7, <3>1, <3>2, GoodPush
  <2> QED
    BY <1>3, <2>1, <2>8
<1> QED
  BY <1>4, <1>5

(* The loops of the macro, and the jump into the outer one. *)
LEMMA LoopSteps ==
  ASSUME IInv, \/ IterCreated \/ EnterBody \/ LeaveBody \/ BodyEnds \/ Break
               \/ Longjmp
  PROVE  Good(stack', catchers', cleanup_chain')
<1>1. /\ stack # <<>> /\ Good(stack, catchers, cleanup_chain)
      /\ Top = stack[Len(stack)] /\ Len(stack) = Depth
      /\ Current = catchers[Len(catchers)]
  BY DEF IterCreated, EnterBody, LeaveBody, BodyEnds, Break, Longjmp, AtOuter,
         IInv, Top, Depth, Current
<1> USE Here, <1>1
<1>2. /\ Current.state = "CREATED" =>
            stack[Current.buf].at = "outer" /\ stack[Current.buf].ran = 0
      /\ stack[Current.buf].at = "inner" =>
            \/ Current.state = "RUNNING" /\ stack[Current.buf].ran = 0
            \/ Current.state = "RUNNING_1"
      /\ stack[Current.buf].at = "body" => Current.state = "RUNNING_1"
      /\ Current.exception # NoException => Current.exception.reason \in Reasons
      /\ Current.state = "ABORTING" <=> Current.exception # NoException
  BY DEF Paired, Good, Typed
<1>3. ASSUME NEW f, NEW c, Moved(f, Top, c, Current), Top.at \in Tries,
             stack' = [stack EXCEPT ![Len(stack)] = f],
             catchers' = [catchers EXCEPT ![Len(catchers)] = c],
             cleanup_chain' = cleanup_chain
      PROVE  Good(stack', catchers', cleanup_chain')
  BY <1>3, GoodMove
<1>4. catchers = [catchers EXCEPT ![Len(catchers)] = Current]
  BY DEF Current
<1>5. CASE IterCreated
  <2> DEFINE f == [Top EXCEPT !.at = "inner"]
             c == [Current EXCEPT !.state = "RUNNING"]
  <2>1. Top.at = "outer" /\ Current.state = "CREATED" /\ Top.ran = 0
    BY <1>2, <1>5 DEF IterCreated, AtOuter, Tries
  <2>2. Moved(f, Top, c, Current)
    <3>1. /\ f \in Frames /\ f.at = "inner" /\ f.ran = 0 /\ f.mark = Top.mark
          /\ f.exception = Top.exception
      BY <2>1 DEF Frames, Tries
    <3>2. /\ c \in Catchers /\ c.state = "RUNNING"
          /\ c.buf = Current.buf /\ c.mask = Current.mask
          /\ c.exception = Current.exception
          /\ c.saved_cleanup_chain = Current.saved_cleanup_chain
      BY DEF Catchers
    <3> HIDE DEF f, c
    <3> QED
      BY <1>2, <2>1, <3>1, <3>2 DEF Moved, Paired, Tries
  <2>3. /\ stack' = [stack EXCEPT ![Len(stack)] = f]
        /\ catchers' = [catchers EXCEPT ![Len(catchers)] = c]
        /\ cleanup_chain' = cleanup_chain
    BY <1>5 DEF IterCreated, MoveTo, SetState
  <2> HIDE DEF f, c
  <2> QED
    BY <1>3, <2>1, <2>2, <2>3 DEF Tries
<1>6. CASE EnterBody
  <2> DEFINE e == [Top EXCEPT !.at = "body"]
             f == [e EXCEPT !.ran = 1]
             c == [Current EXCEPT !.state = "RUNNING_1"]
  <2>1. Top.at = "inner" /\ Current.state = "RUNNING" /\ Top.ran = 0
    BY <1>2, <1>6 DEF EnterBody, Tries
  <2>2. Moved(f, Top, c, Current)
    <3>3. /\ e \in Frames /\ e.at = "body" /\ e.mark = Top.mark
          /\ e.exception = Top.exception
      BY DEF Frames, Tries
    <3>1. /\ f \in Frames /\ f.at = "body" /\ f.mark = Top.mark
          /\ f.exception = Top.exception
      <4>1. 1 \in 0 .. 1
        OBVIOUS
      <4> HIDE DEF e
      <4> QED
        BY <3>3, <4>1 DEF Frames
    <3>2. /\ c \in Catchers /\ c.state = "RUNNING_1"
          /\ c.buf = Current.buf /\ c.mask = Current.mask
          /\ c.exception = Current.exception
          /\ c.saved_cleanup_chain = Current.saved_cleanup_chain
      BY DEF Catchers
    <3> HIDE DEF e, f, c
    <3> QED
      BY <1>2, <2>1, <3>1, <3>2 DEF Moved, Paired, Tries
  <2>3. /\ stack' = [stack EXCEPT ![Len(stack)] = f]
        /\ catchers' = [catchers EXCEPT ![Len(catchers)] = c]
        /\ cleanup_chain' = cleanup_chain
    <3>1. stack' = [stack EXCEPT ![Depth].at = "body", ![Depth].ran = @ + 1]
      BY <1>6 DEF EnterBody
    <3>2. stack' = [stack EXCEPT ![Len(stack)] =
                       [e EXCEPT !.ran = Top.ran + 1]]
      BY <3>1 DEF Frames
    <3>3. stack' = [stack EXCEPT ![Len(stack)] = f]
      <4>1. Top.ran + 1 = 1
        BY <2>1
      <4> QED
        BY <3>2, <4>1, Zenon
    <3> QED
      BY <1>6, <3>3 DEF EnterBody, SetState
  <2> HIDE DEF e, f, c
  <2> QED
    BY <1>3, <2>1, <2>2, <2>3 DEF Tries
<1>7. CASE LeaveBody
  <2> DEFINE f == [Top EXCEPT !.at = "outer"]
             c == [Current EXCEPT !.state = "RUNNING"]
  <2>1. Top.at = "inner" /\ Current.state = "RUNNING_1"
    BY <1>7 DEF LeaveBody
  <2>2. Moved(f, Top, c, Current)
    <3>1. /\ f \in Frames /\ f.at = "outer" /\ f.mark = Top.mark
          /\ f.exception = Top.exception
      BY <2>1 DEF Frames, Tries
    <3>2. /\ c \in Catchers /\ c.state = "RUNNING"
          /\ c.buf = Current.buf /\ c.mask = Current.mask
          /\ c.exception = Current.exception
          /\ c.saved_cleanup_chain = Current.saved_cleanup_chain
      BY DEF Catchers
    <3> HIDE DEF f, c
    <3> QED
      BY <1>2, <2>1, <3>1, <3>2 DEF Moved, Paired, Tries
  <2>3. /\ stack' = [stack EXCEPT ![Len(stack)] = f]
        /\ catchers' = [catchers EXCEPT ![Len(catchers)] = c]
        /\ cleanup_chain' = cleanup_chain
    BY <1>7 DEF LeaveBody, MoveTo, SetState
  <2> HIDE DEF f, c
  <2> QED
    BY <1>3, <2>1, <2>2, <2>3 DEF Tries
<1>8. CASE BodyEnds \/ Break
  <2>1. PICK at \in {"inner", "outer"} : MoveTo(at)
    BY <1>8 DEF BodyEnds, Break
  <2> DEFINE f == [Top EXCEPT !.at = at]
  <2>2. Top.at = "body" /\ Current.state = "RUNNING_1"
    BY <1>2, <1>8 DEF BodyEnds, Break, Tries
  <2>3. Moved(f, Top, Current, Current)
    <3>1. /\ f \in Frames /\ f.at = at /\ f.mark = Top.mark
          /\ f.exception = Top.exception
      BY DEF Frames, Tries
    <3> HIDE DEF f
    <3> QED
      BY <1>2, <2>2, <3>1 DEF Moved, Paired, Tries
  <2>4. /\ stack' = [stack EXCEPT ![Len(stack)] = f]
        /\ catchers' = catchers /\ cleanup_chain' = cleanup_chain
    BY <1>8, <2>1 DEF BodyEnds, Break, MoveTo
  <2> HIDE DEF f
  <2> QED
    BY <1>3, <1>4, <2>2, <2>3, <2>4 DEF Tries
<1>9. CASE Longjmp
  <2> DEFINE b == Current.buf
             s == SubSeq(stack, 1, b)
             f == [s[b] EXCEPT !.at = "outer"]
             c == [Current EXCEPT !.state = "ABORTING",
                                  !.exception = Top.exception]
  <2>1. Good(s, catchers, <<>>)
    BY GoodCut
  <2>2. Len(s) = b /\ s[b] = stack[b] /\ s[b] \in Frames /\ b > 0
    <3>1. b \in 0 .. Len(stack) /\ b \in 1 .. b /\ b \in 1 .. Len(stack)
      OBVIOUS
    <3> QED
      BY <3>1, Prefix, FrameTypes
  <2>3. /\ Top.exception # NoException /\ cleanup_chain' = <<>>
        /\ stack' = [s EXCEPT ![b] = f]
        /\ catchers' = [catchers EXCEPT ![Len(catchers)] = c]
    BY <1>9 DEF Longjmp
  <2>4. Top.exception.reason \in Reasons
    BY <2>3 DEF Good, FramesGood
  <2>5. Moved(f, s[b], c, Current)
    <3>1. /\ f \in Frames /\ f.at = "outer" /\ f.mark = s[b].mark
          /\ f.exception = s[b].exception
      BY <2>2 DEF Frames, Tries
    <3>2. /\ c \in Catchers /\ c.state = "ABORTING"
          /\ c.buf = Current.buf /\ c.mask = Current.mask
          /\ c.exception = Top.exception
          /\ c.saved_cleanup_chain = Current.saved_cleanup_chain
      BY DEF Catchers
    <3> HIDE DEF f, c, b, s
    <3> QED
      BY <2>3, <2>4, <3>1, <3>2 DEF Moved, Paired, Tries
  <2>6. s[Len(s)].at \in Tries /\ Len(s) > 0
    BY <2>2
  <2> HIDE DEF f, c, b, s
  <2>7. Good([s EXCEPT ![Len(s)] = f],
             [catchers EXCEPT ![Len(catchers)] = c], <<>>)
    BY <2>1, <2>2, <2>5, <2>6, GoodMove
  <2> QED
    BY <2>2, <2>3, <2>7
<1> QED
  BY <1>5, <1>6, <1>7, <1>8, <1>9

-----------------------------------------------------------------------------
(* Every step keeps the invariant, an action and a lemma at a time.        *)
LEMMA StepInv == IInv /\ [Next]_vars => IInv'
<1> SUFFICES ASSUME IInv, [Next]_vars PROVE IInv'
  OBVIOUS
<1>1. Good(stack', catchers', cleanup_chain')
  <2>1. CASE Next
    <3>1. CASE \/ \E c \in Cleanups : MakeCleanup(c)
               \/ \E mark \in 0 .. Len(cleanup_chain) : DiscardCleanups(mark)
      <4>1. stack' = stack /\ catchers' = catchers
        BY <3>1 DEF MakeCleanup, DiscardCleanups
      <4> QED
        BY <3>1, <4>1, ChainSteps
    <3>2. CASE \E mask \in Masks, ui \in Uis : EnterTry(mask, ui)
      BY <3>2, OpenStep
    <3> QED
      BY <2>1, <3>1, <3>2, CallSteps, ReturnSteps, CloseSteps, LoopSteps DEF Next
  <2>2. CASE UNCHANGED vars
    BY <2>2 DEF vars, IInv
  <2> QED
    BY <2>1, <2>2
<1>2. uiout' \in Uis /\ caught' \in Exceptions
  <2>1. uiout \in Uis /\ caught \in Exceptions /\ NoException \in Exceptions
    BY DEF IInv, Exceptions, NoException
  <2>2. CASE IterDone \/ Catch \/ Relay
    <3>1. stack # <<>>
      BY <2>2 DEF IterDone, Catch, Relay, AtOuter
    <3>2. Current \in Catchers
      BY <3>1, Here
    <3>3. Current.saved_uiout \in Uis /\ Current.exception \in Exceptions
      BY <3>2 DEF Catchers
    <3> QED
      BY <2>1, <2>2, <3>3 DEF IterDone, Catch, Relay, CatcherPop
  <2>3. CASE \E mask \in Masks, ui \in Uis : EnterTry(mask, ui)
    BY <2>1, <2>3 DEF EnterTry
  <2>4. CASE UNCHANGED vars
    BY <2>1, <2>4 DEF vars
  <2>5. CASE /\ uiout' = uiout
             /\ caught' = caught \/ caught' = NoException
    BY <2>1, <2>5
  <2>6. CASE Next /\ ~(IterDone \/ Catch \/ Relay)
                  /\ ~\E mask \in Masks, ui \in Uis : EnterTry(mask, ui)
    BY <2>5, <2>6
       DEF Next, MakeCleanup, DiscardCleanups, DoCleanups, RunCleanup,
           FunctionReturns, LoopReturns, ThrowMessage, ThrowReason, Longjmp,
           IterCreated, EnterBody, LeaveBody, BodyEnds, Break
  <2> QED
    BY <2>2, <2>3, <2>4, <2>6
<1> QED
  BY <1>1, <1>2 DEF IInv

(* IInv is an invariant. *)
LEMMA IInvHolds == Spec => []IInv
<1> QED
  BY InitInv, StepInv, PTL DEF Spec

(* The state is well typed; in particular the body of a TRY_CATCH runs at  *)
(* most once, whatever its code and its cleanups throw or break out of.    *)
THEOREM ExceptionTypes == Spec => []TypeOK
<1>1. IInv => TypeOK
  <2> SUFFICES ASSUME IInv PROVE TypeOK
    OBVIOUS
  <2>1. DOMAIN catchers = 1 .. Len(catchers)
    BY LenProperties DEF IInv, Good, Typed
  <2> QED
    BY <2>1 DEF IInv, Good, Typed, TypeOK
<1> QED
  BY <1>1, IInvHolds, PTL

(* A throw has a live frame to jump to, for any nesting of TRY_CATCH,      *)
(* cleanup functions and throws.                                           *)
THEOREM JumpsLive == Spec => []JumpTargetsLive
<1>1. IInv => JumpTargetsLive
  <2> SUFFICES ASSUME IInv PROVE JumpTargetsLive
    OBVIOUS
  <2>1. /\ DOMAIN catchers = 1 .. Len(catchers)
        /\ DOMAIN stack = 1 .. Len(stack)
    BY LenProperties DEF IInv, Good, Typed
  <2>2. stack # <<>> => catchers # <<>>
    <3> SUFFICES ASSUME stack # <<>> PROVE catchers # <<>>
      OBVIOUS
    <3> QED
      BY Here, EmptySeq
  <2> QED
    BY <2>1, <2>2 DEF IInv, Good, Live, JumpTargetsLive
<1> QED
  BY <1>1, IInvHolds, PTL

-----------------------------------------------------------------------------
(* The chains of the scopes, the innermost being the one in use. *)
ChainAt(cs, ch, j) == IF j <= Len(cs) THEN cs[j].saved_cleanup_chain ELSE ch
Places(cs, ch) == {p \in (1 .. Len(cs) + 1) \X Nat :
                      p[2] \in 1 .. Len(ChainAt(cs, ch, p[1]))}
At(cs, ch, p) == ChainAt(cs, ch, p[1])[p[2]]
Running(s) == {s[i].cleanup : i \in 1 .. Len(s)} \ {NoCleanup}

(* The pending cleanups ds and dh are all where they were in cs and ch.    *)
NoneNew(cs, ch, ds, dh) ==
    \A p \in Places(ds, dh) : /\ p \in Places(cs, ch)
                             /\ At(ds, dh, p) = At(cs, ch, p)

Once(cs, ch, run) ==
    /\ \A p, q \in Places(cs, ch) : At(cs, ch, p) = At(cs, ch, q) => p = q
    /\ \A p \in Places(cs, ch) : At(cs, ch, p) \notin run

(* Where a place is still one of the old places, nothing is pending twice. *)
LEMMA Fewer ==
  ASSUME NEW cs, NEW ch, NEW run, Once(cs, ch, run),
         NEW ds, NEW dh, NEW run2 \in SUBSET run, NoneNew(cs, ch, ds, dh)
  PROVE  Once(ds, dh, run2)
BY DEF Once, NoneNew

(* CleanupsOnce as a fact of the places of the chains; and a cleanup       *)
(* that does not exist is at none of them.                                 *)
LEMMA OnceIs ==
  ASSUME Good(stack, catchers, cleanup_chain)
  PROVE  /\ CleanupsOnce <=> Once(catchers, cleanup_chain, Running(stack))
         /\ RunningFunctions = Running(stack)
         /\ \A c : c \notin Existing =>
               /\ c \notin Running(stack)
               /\ \A p \in Places(catchers, cleanup_chain) :
                     At(catchers, cleanup_chain, p) # c
<1> DEFINE k   == Len(catchers)
           all == Append(Chains, cleanup_chain)
<1>1. /\ stack \in Seq(Frames) /\ catchers \in Seq(Catchers)
      /\ cleanup_chain \in Seq(Cleanups) /\ k \in Nat
      /\ DOMAIN stack = 1 .. Len(stack) /\ DOMAIN catchers = 1 .. k
  BY LenProperties DEF Good, Typed
<1>2. \A j \in 1 .. k : catchers[j].saved_cleanup_chain \in Seq(Cleanups)
  BY <1>1, CatcherTypes
<1>3. Chains \in Seq(Seq(Cleanups)) /\ Len(Chains) = k
      /\ \A j \in 1 .. k : Chains[j] = catchers[j].saved_cleanup_chain
  <2>1. Chains \in [1 .. k -> Seq(Cleanups)]
    BY <1>1, <1>2 DEF Chains
  <2>2. Chains \in Seq(Seq(Cleanups)) /\ Len(Chains) = k
    BY <1>1, <2>1, MadeOf
  <2> QED
    BY <1>1, <2>2 DEF Chains
<1>4. /\ all \in Seq(Seq(Cleanups)) /\ Len(all) = k + 1
      /\ \A j \in 1 .. k + 1 : all[j] = ChainAt(catchers, cleanup_chain, j)
  <2>1. /\ all \in Seq(Seq(Cleanups)) /\ Len(all) = k + 1
        /\ all[k + 1] = cleanup_chain
        /\ \A j \in 1 .. k : all[j] = Chains[j]
    BY <1>1, <1>3, AppendProperties
  <2> HIDE DEF all
  <2> QED
    BY <1>1, <1>3, <2>1 DEF ChainAt
<1>5. DOMAIN all = 1 .. k + 1 /\ \A j \in 1 .. k + 1 :
         DOMAIN all[j] = 1 .. Len(ChainAt(catchers, cleanup_chain, j))
  <2>1. DOMAIN all = 1 .. k + 1
    BY <1>4, LenProperties
  <2>2. ASSUME NEW j \in 1 .. k + 1
        PROVE  DOMAIN all[j] = 1 .. Len(ChainAt(catchers, cleanup_chain, j))
    <3>1. all[j] \in Seq(Cleanups)
      BY <1>4, ElementOfSeq
    <3> QED
      BY <1>4, <3>1, LenProperties
  <2> QED
    BY <2>1, <2>2
<1>6. RunningFunctions = Running(stack)
  BY <1>1 DEF RunningFunctions, Running
<1> HIDE DEF all
<1>7. \A j \in 1 .. k + 1 : Len(ChainAt(catchers, cleanup_chain, j)) \in Nat
  BY <1>1, <1>2, LenProperties DEF ChainAt
<1>8. \A p : p \in Places(catchers, cleanup_chain) <=>
             \E j \in DOMAIN all : \E m \in DOMAIN all[j] : p = <<j, m>>
  BY <1>4, <1>5, <1>7 DEF Places
<1>9. \A j \in DOMAIN all : \A m \in DOMAIN all[j] :
         At(catchers, cleanup_chain, <<j, m>>) = all[j][m]
  BY <1>4, <1>5 DEF At
<1>10. CleanupsOnce <=>
          /\ \A j, i \in DOMAIN all : \A m \in DOMAIN all[j], n \in DOMAIN all[i] :
                all[j][m] = all[i][n] => j = i /\ m = n
          /\ \A j \in DOMAIN all : \A m \in DOMAIN all[j] :
                all[j][m] \notin RunningFunctions
  BY DEF CleanupsOnce, Held, all
<1>11. CleanupsOnce <=> Once(catchers, cleanup_chain, Running(stack))
  <2>1. ASSUME CleanupsOnce
        PROVE  Once(catchers, cleanup_chain, Running(stack))
    <3>1. ASSUME NEW p \in Places(catchers, cleanup_chain),
                 NEW q \in Places(catchers, cleanup_chain),
                 At(catchers, cleanup_chain, p) = At(catchers, cleanup_chain, q)
          PROVE  p = q
      <4>1. PICK j \in DOMAIN all : \E m \in DOMAIN all[j] : p = <<j, m>>
        BY <1>8
      <4>2. PICK m \in DOMAIN all[j] : p = <<j, m>>
        BY <4>1
      <4>3. PICK i \in DOMAIN all : \E n \in DOMAIN all[i] : q = <<i, n>>
        BY <1>8
      <4>4. PICK n \in DOMAIN all[i] : q = <<i, n>>
        BY <4>3
      <4>5. all[j][m] = all[i][n]
        BY <1>9, <3>1, <4>2, <4>4
      <4> QED
        BY <1>10, <2>1, <4>2, <4>4, <4>5
    <3>2. ASSUME NEW p \in Places(catchers, cleanup_chain)
          PROVE  At(catchers, cleanup_chain, p) \notin Running(stack)
      <4>1. PICK j \in DOMAIN all : \E m \in DOMAIN all[j] : p = <<j, m>>
        BY <1>8
      <4> QED
        BY <1>6, <1>9, <1>10, <2>1, <4>1
    <3> QED
      BY <3>1, <3>2 DEF Once
  <2>2. ASSUME Once(catchers, cleanup_chain, Running(stack))
        PROVE  CleanupsOnce
    <3>1. ASSUME NEW j \in DOMAIN all, NEW i \in DOMAIN all,
                 NEW m \in DOMAIN all[j], NEW n \in DOMAIN all[i],
                 all[j][m] = all[i][n]
          PROVE  j = i /\ m = n
      <4>1. /\ <<j, m>> \in Places(catchers, cleanup_chain)
            /\ <<i, n>> \in Places(catchers, cleanup_chain)
        BY <1>8
      <4>2. /\ At(catchers, cleanup_chain, <<j, m>>) = all[j][m]
            /\ At(catchers, cleanup_chain, <<i, n>>) = all[i][n]
        BY <1>9
      <4>3. <<j, m>> = <<i, n>>
        BY <2>2, <3>1, <4>1, <4>2 DEF Once
      <4> QED
        BY <4>3
    <3>2. ASSUME NEW j \in DOMAIN all, NEW m \in DOMAIN all[j]
          PROVE  all[j][m] \notin RunningFunctions
      <4>1. /\ <<j, m>> \in Places(catchers, cleanup_chain)
            /\ At(catchers, cleanup_chain, <<j, m>>) = all[j][m]
        BY <1>8, <1>9
      <4> QED
        BY <1>6, <2>2, <4>1 DEF Once
    <3> QED
      BY <1>10, <3>1, <3>2
  <2> QED
    BY <2>1, <2>2
<1>12. ASSUME NEW c, c \notin Existing
       PROVE  /\ c \notin Running(stack)
              /\ \A p \in Places(catchers, cleanup_chain) :
                    At(catchers, cleanup_chain, p) # c
  <2>1. c \notin Running(stack) /\ c \notin Held(cleanup_chain)
        /\ \A j \in 1 .. k : c \notin Held(catchers[j].saved_cleanup_chain)
    BY <1>1, <1>6, <1>12 DEF Existing
  <2>2. ASSUME NEW j \in DOMAIN all, NEW m \in DOMAIN all[j] PROVE all[j][m] # c
    <3>1. c \notin Held(ChainAt(catchers, cleanup_chain, j))
      BY <1>5, <2>1 DEF ChainAt
    <3> QED
      BY <1>4, <1>5, <3>1 DEF Held
  <2> QED
    BY <1>8, <1>9, <2>1, <2>2
<1> QED
  BY <1>6, <1>11, <1>12

(* The frames of a state and of the next one: what runs. *)
LEMMA RunningFewer ==
  ASSUME NEW s, NEW t, \A i \in 1 .. Len(t) :
            t[i].cleanup = NoCleanup \/ \E j \in 1 .. Len(s) :
                                          t[i].cleanup = s[j].cleanup
  PROVE  Running(t) \in SUBSET Running(s)
BY DEF Running

(* The same scopes, with fewer cleanups pending in the innermost.          *)
LEMMA ChainCut ==
  ASSUME NEW cs, NEW ch, NEW ds, NEW dh, Len(cs) \in Nat, Len(ds) = Len(cs),
         \A j \in 1 .. Len(cs) : ds[j].saved_cleanup_chain =
                                cs[j].saved_cleanup_chain,
         Len(dh) \in Nat, Len(ch) \in Nat, Len(dh) <= Len(ch),
         \A m \in 1 .. Len(dh) : dh[m] = ch[m]
  PROVE  NoneNew(cs, ch, ds, dh)
<1> SUFFICES ASSUME NEW j \in 1 .. Len(ds) + 1, NEW m \in Nat,
                    m \in 1 .. Len(ChainAt(ds, dh, j))
             PROVE  /\ j \in 1 .. Len(cs) + 1
                    /\ m \in 1 .. Len(ChainAt(cs, ch, j))
                    /\ ChainAt(ds, dh, j)[m] = ChainAt(cs, ch, j)[m]
  BY DEF NoneNew, Places, At
<1> QED
  BY DEF ChainAt

(* One scope less.                                                         *)
LEMMA ChainClosed ==
  ASSUME NEW cs, NEW ch, NEW ds, NEW dh, Len(cs) \in Nat, Len(cs) > 0,
         Len(ds) = Len(cs) - 1, \A j \in 1 .. Len(ds) : ds[j] = cs[j],
         dh = cs[Len(cs)].saved_cleanup_chain
  PROVE  NoneNew(cs, ch, ds, dh)
<1> SUFFICES ASSUME NEW j \in 1 .. Len(ds) + 1, NEW m \in Nat,
                    m \in 1 .. Len(ChainAt(ds, dh, j))
             PROVE  /\ j \in 1 .. Len(cs) + 1
                    /\ m \in 1 .. Len(ChainAt(cs, ch, j))
                    /\ ChainAt(ds, dh, j)[m] = ChainAt(cs, ch, j)[m]
  BY DEF NoneNew, Places, At
<1>1. ChainAt(ds, dh, j) = ChainAt(cs, ch, j)
  BY DEF ChainAt
<1> QED
  BY <1>1

(* One scope more, with nothing pending.                                   *)
LEMMA ChainOpened ==
  ASSUME NEW cs, NEW ch, NEW ds, Len(cs) \in Nat, Len(ds) = Len(cs) + 1,
         \A j \in 1 .. Len(cs) : ds[j] = cs[j],
         ds[Len(cs) + 1].saved_cleanup_chain = ch
  PROVE  NoneNew(cs, ch, ds, <<>>)
<1> SUFFICES ASSUME NEW j \in 1 .. Len(ds) + 1, NEW m \in Nat,
                    m \in 1 .. Len(ChainAt(ds, <<>>, j))
             PROVE  /\ j \in 1 .. Len(cs) + 1
                    /\ m \in 1 .. Len(ChainAt(cs, ch, j))
                    /\ ChainAt(ds, <<>>, j)[m] = ChainAt(cs, ch, j)[m]
  BY DEF NoneNew, Places, At
<1>1. CASE j = Len(ds) + 1
  BY <1>1 DEF ChainAt
<1>2. CASE j <= Len(ds)
  <2>1. ChainAt(ds, <<>>, j) = ChainAt(cs, ch, j)
    BY <1>2 DEF ChainAt
  <2> QED
    BY <1>2, <2>1
<1> QED
  BY <1>1, <1>2

(* A cleanup is made that does not exist yet.                              *)
LEMMA OnceMake ==
  ASSUME IInv, Once(catchers, cleanup_chain, Running(stack)),
         NEW c \in Cleanups, MakeCleanup(c)
  PROVE  Once(catchers', cleanup_chain', Running(stack'))
<1> DEFINE k  == Len(catchers)
           n  == Len(cleanup_chain)
           ch == cleanup_chain'
<1>1. /\ stack' = stack /\ catchers' = catchers /\ c \notin Existing
      /\ ch = Append(cleanup_chain, c)
      /\ Good(stack, catchers, cleanup_chain)
      /\ cleanup_chain \in Seq(Cleanups) /\ k \in Nat /\ n \in Nat
  BY DEF MakeCleanup, IInv, Good, Typed
<1>2. /\ Len(ch) = n + 1 /\ ch[n + 1] = c
      /\ \A i \in 1 .. n : ch[i] = cleanup_chain[i]
  BY <1>1, AppendProperties
<1>3. /\ c \notin Running(stack)
      /\ \A p \in Places(catchers, cleanup_chain) :
            At(catchers, cleanup_chain, p) # c
  BY <1>1, OnceIs
<1> HIDE DEF ch
<1>4. ASSUME NEW p \in Places(catchers, ch), p # <<k + 1, n + 1>>
      PROVE  /\ p \in Places(catchers, cleanup_chain)
             /\ At(catchers, ch, p) = At(catchers, cleanup_chain, p)
  <2>1. PICK j \in 1 .. k + 1, m \in Nat : p = <<j, m>>
    BY DEF Places
  <2>2. m \in 1 .. Len(ChainAt(catchers, ch, j))
    BY <2>1 DEF Places
  <2>3. CASE j = k + 1
    BY <1>1, <1>2, <1>4, <2>1, <2>2, <2>3 DEF Places, At, ChainAt
  <2>4. CASE j <= k
    BY <1>1, <2>1, <2>2, <2>4 DEF Places, At, ChainAt
  <2> QED
    BY <1>1, <2>3, <2>4
<1>5. At(catchers, ch, <<k + 1, n + 1>>) = c
  BY <1>1, <1>2 DEF At, ChainAt
<1>6. \A p \in Places(catchers, ch) : At(catchers, ch, p) = c <=>
                                     p = <<k + 1, n + 1>>
  BY <1>3, <1>4, <1>5
<1>7. Once(catchers, ch, Running(stack))
  <2>1. \A p \in Places(catchers, ch) : At(catchers, ch, p) \notin Running(stack)
    BY <1>3, <1>4, <1>5 DEF Once
  <2>2. ASSUME NEW p \in Places(catchers, ch), NEW q \in Places(catchers, ch),
               At(catchers, ch, p) = At(catchers, ch, q)
        PROVE  p = q
    BY <1>4, <1>6, <2>2 DEF Once
  <2> QED
    BY <2>1, <2>2 DEF Once
<1> QED
  BY <1>1, <1>7 DEF ch

(* A cleanup leaves the chain and runs.                                    *)
LEMMA OnceRun ==
  ASSUME IInv, Once(catchers, cleanup_chain, Running(stack)), RunCleanup
  PROVE  Once(catchers', cleanup_chain', Running(stack'))
<1> DEFINE k == Len(catchers)
           n == Len(cleanup_chain)
           c == cleanup_chain[n]
           ch == cleanup_chain'
<1>1. /\ cleanup_chain \in Seq(Cleanups) /\ stack \in Seq(Frames)
      /\ k \in Nat /\ n \in Nat /\ n > 0 /\ n - 1 \in 0 .. n
      /\ catchers' = catchers /\ catchers \in Seq(Catchers)
  <2>1. stack # <<>>
    BY DEF RunCleanup
  <2>2. n # Top.mark
    BY DEF RunCleanup
  <2> QED
    BY <2>1, <2>2, Here DEF RunCleanup
<1>2. /\ ch = SubSeq(cleanup_chain, 1, n - 1)
      /\ stack' = Append(stack, Frame("function", n - 1, NoException, c))
  BY <1>1 DEF RunCleanup
<1>3. /\ Len(ch) = n - 1
      /\ \A i \in 1 .. n - 1 : ch[i] = cleanup_chain[i]
  BY <1>1, <1>2, Prefix
<1>4. /\ c \in Cleanups
      /\ Len(stack') = Len(stack) + 1 /\ Len(stack) \in Nat
      /\ \A i \in 1 .. Len(stack) : stack'[i] = stack[i]
      /\ stack'[Len(stack) + 1].cleanup = c
  <2>1. c \in Cleanups
    BY <1>1, ElementOfSeq
  <2>2. NoException \in Exceptions /\ n - 1 \in Nat
        /\ "function" \in Tries \union {"loop", "function"}
        /\ c \in Cleanups \union {NoCleanup}
    BY <1>1, <2>1 DEF NoException, Exceptions
  <2>3. Frame("function", n - 1, NoException, c) \in Frames
        /\ Frame("function", n - 1, NoException, c).cleanup = c
    BY <2>2, FrameType
  <2> QED
    BY <1>1, <1>2, <2>1, <2>3, AppendProperties, LenProperties
<1> HIDE DEF ch, c
<1>5. Running(stack') \subseteq Running(stack) \union {c}
  BY <1>4 DEF Running
<1>6. NoneNew(catchers, cleanup_chain, catchers, ch)
  <2>1. Len(ch) \in Nat /\ Len(ch) <= n /\ Len(catchers) \in Nat
        /\ \A m \in 1 .. Len(ch) : ch[m] = cleanup_chain[m]
    BY <1>1, <1>3
  <2> QED
    BY <1>1, <2>1, ChainCut
<1>7. /\ <<k + 1, n>> \in Places(catchers, cleanup_chain)
      /\ <<k + 1, n>> \notin Places(catchers, ch)
      /\ At(catchers, cleanup_chain, <<k + 1, n>>) = c
  BY <1>1, <1>3 DEF Places, At, ChainAt, c
<1>8. \A p \in Places(catchers, ch) : At(catchers, ch, p) # c
  BY <1>6, <1>7 DEF Once, NoneNew
<1>9. Once(catchers, ch, Running(stack'))
  BY <1>5, <1>6, <1>8 DEF Once, NoneNew
<1> QED
  BY <1>1, <1>9 DEF ch

(* Frames of cleanup functions only go, or stay. *)
FunctionsStay == \A i \in 1 .. Len(stack') :
    \/ stack'[i].cleanup = NoCleanup
    \/ i \in 1 .. Len(stack) /\ stack'[i].cleanup = stack[i].cleanup

(* Nothing new is pending or running.                                      *)
LEMMA OnceFewer ==
  ASSUME Once(catchers, cleanup_chain, Running(stack)), FunctionsStay,
         NoneNew(catchers, cleanup_chain, catchers', cleanup_chain')
  PROVE  Once(catchers', cleanup_chain', Running(stack'))
<1>1. Running(stack') \in SUBSET Running(stack)
  BY RunningFewer DEF FunctionsStay
<1> QED
  BY <1>1, Fewer

(* Every step keeps each cleanup in one place.                             *)
LEMMA OnceStep ==
  ASSUME IInv, Once(catchers, cleanup_chain, Running(stack)), Next
  PROVE  Once(catchers', cleanup_chain', Running(stack'))
<1> DEFINE k == Len(catchers)
           n == Len(cleanup_chain)
<1>0. /\ stack \in Seq(Frames) /\ catchers \in Seq(Catchers)
      /\ cleanup_chain \in Seq(Cleanups) /\ k \in Nat /\ n \in Nat
      /\ Len(stack) \in Nat /\ Len(stack) = Depth
      /\ DOMAIN stack = 1 .. Len(stack) /\ DOMAIN catchers = 1 .. k
      /\ NoException \in Exceptions
  BY LenProperties DEF IInv, Good, Typed, Depth, NoException, Exceptions
(* A frame that runs no function, on top of frames that were there. *)
<1>1. ASSUME NEW s \in Seq(Frames), NEW mark \in Nat, NEW e \in Exceptions,
             NEW at \in {"loop", "outer"}, Len(s) <= Len(stack),
             \A i \in 1 .. Len(s) : s[i].cleanup = stack[i].cleanup,
             stack' = Append(s, Frame(at, mark, e, NoCleanup))
      PROVE  FunctionsStay
  <2>1. /\ at \in Tries \union {"loop", "function"}
        /\ NoCleanup \in Cleanups \union {NoCleanup}
    BY DEF Tries
  <2>2. /\ Frame(at, mark, e, NoCleanup) \in Frames
        /\ Frame(at, mark, e, NoCleanup).cleanup = NoCleanup
    BY <2>1, FrameType
  <2>3. /\ Len(stack') = Len(s) + 1 /\ Len(s) \in Nat
        /\ \A i \in 1 .. Len(s) : stack'[i] = s[i]
        /\ stack'[Len(s) + 1].cleanup = NoCleanup
    BY <1>1, <2>2, AppendProperties, LenProperties
  <2> QED
    BY <1>0, <1>1, <2>3 DEF FunctionsStay
<1>2. UNCHANGED <<catchers, cleanup_chain>> =>
         NoneNew(catchers, cleanup_chain, catchers', cleanup_chain')
  BY DEF NoneNew
<1>3. (UNCHANGED stack) => FunctionsStay
  BY DEF FunctionsStay
<1>4. stack # <<>> /\ stack' = PopFrame => FunctionsStay
  <2> SUFFICES ASSUME stack # <<>>, stack' = PopFrame PROVE FunctionsStay
    OBVIOUS
  <2>1. Depth - 1 \in 0 .. Len(stack)
    BY <1>0, Here
  <2>2. /\ Len(stack') = Depth - 1
        /\ \A i \in 1 .. Depth - 1 : stack'[i] = stack[i]
    BY <1>0, <2>1, Prefix DEF PopFrame
  <2> QED
    BY <1>0, <2>1, <2>2 DEF FunctionsStay
<1>5. /\ NoneNew(catchers, cleanup_chain, catchers', cleanup_chain')
      /\ FunctionsStay
      => Once(catchers', cleanup_chain', Running(stack'))
  BY OnceFewer
<1>6. CASE \E mark \in 0 .. n : DiscardCleanups(mark)
  <2>1. PICK mark \in 0 .. n : DiscardCleanups(mark)
    BY <1>6
  <2>2. /\ stack' = stack /\ catchers' = catchers
        /\ Len(cleanup_chain') = mark
        /\ \A m \in 1 .. mark : cleanup_chain'[m] = cleanup_chain[m]
    BY <1>0, <2>1, Prefix DEF DiscardCleanups
  <2>3. NoneNew(catchers, cleanup_chain, catchers', cleanup_chain')
    <3>1. Len(cleanup_chain') \in Nat /\ Len(cleanup_chain') <= n
      BY <1>0, <2>2
    <3> QED
      BY <1>0, <2>2, <3>1, ChainCut
  <2> QED
    BY <1>3, <1>5, <2>2, <2>3
<1>7. CASE \E mark \in 0 .. n : DoCleanups(mark)
  <2>1. PICK mark \in 0 .. n : DoCleanups(mark)
    BY <1>7
  <2>2. FunctionsStay
    <3>1. stack' = Append(stack, Frame("loop", mark, NoException, NoCleanup))
          /\ mark \in Nat /\ Len(stack) <= Len(stack)
      BY <1>0, <2>1 DEF DoCleanups
    <3> QED
      BY <1>0, <1>1, <3>1
  <2> QED
    BY <1>2, <1>5, <2>1, <2>2 DEF DoCleanups
<1>8. CASE \E reason \in Reasons : ThrowReason(reason)
  <2>1. PICK reason \in Reasons : ThrowReason(reason)
    BY <1>8
  <2> DEFINE e == [reason |-> reason, message |-> "null"]
  <2>2. FunctionsStay
    <3>1. stack' = Append(stack, Frame("loop", 0, e, NoCleanup))
          /\ Len(stack) <= Len(stack) /\ e \in Exceptions
      BY <1>0, <2>1 DEF ThrowReason, Exceptions
    <3> HIDE DEF e
    <3> QED
      BY <1>0, <1>1, <3>1
  <2> QED
    BY <1>2, <1>5, <2>1, <2>2 DEF ThrowReason
<1>9. CASE \E reason \in Reasons : ThrowMessage(reason)
  <2>1. PICK reason \in Reasons : ThrowMessage(reason)
    BY <1>9
  <2> DEFINE e == [reason |-> reason, message |-> "live"]
             s == [i \in DOMAIN stack |->
                     [stack[i] EXCEPT !.exception = Stale(@)]]
             cs == [j \in DOMAIN catchers |->
                     [catchers[j] EXCEPT !.exception = Stale(@)]]
  <2>2. Good(s, cs, cleanup_chain)
    BY GoodStale DEF IInv
  <2>3. /\ s \in Seq(Frames) /\ Len(s) = Len(stack)
        /\ cs \in Seq(Catchers) /\ Len(cs) = k
    <3>1. s \in Seq(Frames) /\ cs \in Seq(Catchers)
      BY <2>2 DEF Good, Typed
    <3>2. /\ DOMAIN s = 1 .. Len(s) /\ DOMAIN s = 1 .. Len(stack)
          /\ Len(s) \in Nat
          /\ DOMAIN cs = 1 .. Len(cs) /\ DOMAIN cs = 1 .. k /\ Len(cs) \in Nat
      BY <1>0, <3>1, LenProperties
    <3> QED
      BY <1>0, <3>1, <3>2
  <2>4. /\ \A i \in 1 .. Len(s) : s[i].cleanup = stack[i].cleanup
        /\ \A j \in 1 .. k : cs[j].saved_cleanup_chain =
                             catchers[j].saved_cleanup_chain
    <3>1. ASSUME NEW i \in 1 .. Len(s) PROVE s[i].cleanup = stack[i].cleanup
      <4>1. stack[i] \in Frames
        BY <1>0, <2>3, FrameTypes
      <4> QED
        BY <1>0, <2>3, <4>1 DEF Frames
    <3>2. ASSUME NEW j \in 1 .. k
          PROVE  cs[j].saved_cleanup_chain = catchers[j].saved_cleanup_chain
      <4>1. catchers[j] \in Catchers
        BY <1>0, CatcherTypes
      <4> QED
        BY <1>0, <4>1 DEF Catchers
    <3> QED
      BY <3>1, <3>2
  <2>5. /\ stack' = Append(s, Frame("loop", 0, e, NoCleanup))
        /\ catchers' = cs /\ cleanup_chain' = cleanup_chain /\ e \in Exceptions
    BY <2>1 DEF ThrowMessage, Exceptions
  <2> HIDE DEF e, s, cs
  <2>6. FunctionsStay
    <3>1. Len(s) <= Len(stack)
      BY <1>0, <2>3
    <3> QED
      BY <1>1, <2>3, <2>4, <2>5, <3>1
  <2>7. NoneNew(catchers, cleanup_chain, catchers', cleanup_chain')
    <3>1. n <= n
      BY <1>0
    <3> QED
      BY <1>0, <2>3, <2>4, <2>5, <3>1, ChainCut
  <2> QED
    BY <1>5, <2>6, <2>7
<1>10. CASE FunctionReturns \/ LoopReturns
  BY <1>2, <1>4, <1>5, <1>10 DEF FunctionReturns, LoopReturns
<1>11. CASE \E mask \in Masks, ui \in Uis : EnterTry(mask, ui)
  <2>1. PICK mask \in Masks, ui \in Uis : EnterTry(mask, ui)
    BY <1>11
  <2> DEFINE c == [state |-> "CREATED", buf |-> Depth + 1,
                   exception |-> NoException, mask |-> mask,
                   saved_uiout |-> uiout, saved_cleanup_chain |-> cleanup_chain]
  <2>2. /\ stack' = Append(stack, Frame("outer", 0, NoException, NoCleanup))
        /\ catchers' = Append(catchers, c) /\ cleanup_chain' = <<>>
    BY <2>1 DEF EnterTry, SaveCleanups
  <2>3. c \in Catchers /\ c.saved_cleanup_chain = cleanup_chain
    <3>1. Depth + 1 \in Nat /\ uiout \in Uis /\ mask \in Masks
      BY <1>0 DEF IInv
    <3> QED
      BY <1>0, <3>1 DEF Catchers
  <2> HIDE DEF c
  <2>4. FunctionsStay
    <3>1. Len(stack) <= Len(stack) /\ "outer" \in {"loop", "outer"} /\ 0 \in Nat
      BY <1>0
    <3> QED
      BY <1>0, <1>1, <2>2, <3>1
  <2>5. NoneNew(catchers, cleanup_chain, catchers', cleanup_chain')
    <3>1. /\ Len(catchers') = k + 1 /\ catchers'[k + 1] = c
          /\ \A j \in 1 .. k : catchers'[j] = catchers[j]
      BY <1>0, <2>2, <2>3, AppendProperties
    <3> QED
      BY <1>0, <2>2, <2>3, <3>1, ChainOpened
  <2> QED
    BY <1>5, <2>4, <2>5
<1>12. ASSUME stack # <<>>, CatcherPop
       PROVE  NoneNew(catchers, cleanup_chain, catchers', cleanup_chain')
  <2>1. k > 0 /\ k - 1 \in 0 .. k
    BY <1>0, <1>12, Here
  <2>2. /\ Len(catchers') = k - 1
        /\ \A j \in 1 .. k - 1 : catchers'[j] = catchers[j]
        /\ cleanup_chain' = catchers[k].saved_cleanup_chain
    BY <1>0, <1>12, <2>1, Prefix DEF CatcherPop, Current
  <2> QED
    BY <1>0, <2>1, <2>2, ChainClosed
<1>13. CASE IterDone \/ Catch
  <2>1. stack # <<>> /\ CatcherPop /\ stack' = PopFrame
    BY <1>13 DEF IterDone, Catch, AtOuter
  <2> QED
    BY <1>4, <1>5, <1>12, <2>1
<1>14. CASE Relay
  <2> DEFINE s == SubSeq(stack, 1, Len(stack) - 1)
             e == Current.exception
  <2>1. /\ stack # <<>> /\ CatcherPop
        /\ stack' = Append(s, Frame("loop", 0, e, NoCleanup))
    BY <1>0, <1>14 DEF Relay, AtOuter, PopFrame
  <2>2. e \in Exceptions
    BY <2>1, Here DEF Catchers
  <2>3. /\ s \in Seq(Frames) /\ Len(s) <= Len(stack)
        /\ \A i \in 1 .. Len(s) : s[i].cleanup = stack[i].cleanup
    <3>1. Len(stack) - 1 \in 0 .. Len(stack)
      BY <1>0, <2>1, Here
    <3> QED
      BY <1>0, <3>1, Prefix
  <2> HIDE DEF s, e
  <2>4. FunctionsStay
    <3>1. "loop" \in {"loop", "outer"} /\ 0 \in Nat
      OBVIOUS
    <3> QED
      BY <1>1, <2>1, <2>2, <2>3, <3>1
  <2> QED
    BY <1>5, <1>12, <2>1, <2>4
(* What the loops of the macro and the jump change holds no cleanup. *)
<1>15. ASSUME stack # <<>>,
              NEW s \in Seq(Frames), Len(s) > 0, Len(s) <= Len(stack),
              \A i \in 1 .. Len(s) : s[i] = stack[i],
              NEW f, f.cleanup = s[Len(s)].cleanup,
              NEW c, c.saved_cleanup_chain = Current.saved_cleanup_chain,
              stack' = [s EXCEPT ![Len(s)] = f],
              catchers' = [catchers EXCEPT ![k] = c],
              cleanup_chain' = cleanup_chain \/ cleanup_chain' = <<>>
       PROVE  Once(catchers', cleanup_chain', Running(stack'))
  <2>1. FunctionsStay
    <3>1. /\ DOMAIN s = 1 .. Len(s) /\ Len(s) \in Nat
          /\ stack' = [i \in 1 .. Len(s) |-> IF i = Len(s) THEN f ELSE s[i]]
      BY <1>15, LenProperties
    <3>2. Len(stack') = Len(s)
      <4>1. stack' \in [1 .. Len(s) -> {stack'[i] : i \in 1 .. Len(s)}]
        BY <3>1
      <4> QED
        BY <3>1, <4>1, MadeOf
    <3>3. \A i \in 1 .. Len(s) : stack'[i].cleanup = stack[i].cleanup
      BY <1>15, <3>1
    <3>4. ASSUME NEW i \in 1 .. Len(stack')
          PROVE  i \in 1 .. Len(stack) /\ stack'[i].cleanup = stack[i].cleanup
      <4>0. /\ Len(s) <= Len(stack) /\ Len(s) \in Nat /\ Len(stack) \in Nat
            /\ Len(stack') = Len(s)
        <5>1. Len(s) <= Len(stack)
          BY <1>15
        <5>2. Len(stack) \in Nat
          BY <1>0
        <5> QED
          BY <3>1, <3>2, <5>1, <5>2
      <4>1. i \in 1 .. Len(s) /\ i \in 1 .. Len(stack)
        <5>1. i \in 1 .. Len(s)
          BY <4>0
        <5> QED
          BY <4>0, <5>1
      <4> QED
        BY <3>3, <4>1
    <3> QED
      BY <3>4 DEF FunctionsStay
  <2>2. NoneNew(catchers, cleanup_chain, catchers', cleanup_chain')
    <3>1. k > 0
      BY <1>15, Here
    <3>2. catchers' = [j \in 1 .. k |-> IF j = k THEN c ELSE catchers[j]]
      BY <1>0, <1>15
    <3>3. Len(catchers') = k
      <4>1. catchers' \in [1 .. k -> {catchers'[j] : j \in 1 .. k}]
        BY <3>2
      <4> QED
        BY <1>0, <4>1, MadeOf
    <3>4. \A j \in 1 .. k : catchers'[j].saved_cleanup_chain =
                            catchers[j].saved_cleanup_chain
      BY <1>0, <1>15, <3>2 DEF Current
    <3>5. /\ Len(cleanup_chain') \in Nat /\ Len(cleanup_chain') <= n
          /\ \A m \in 1 .. Len(cleanup_chain') :
                cleanup_chain'[m] = cleanup_chain[m]
      BY <1>0, <1>15, EmptySeq
    <3> QED
      BY <1>0, <3>3, <3>4, <3>5, ChainCut
  <2> QED
    BY <1>5, <2>1, <2>2
<1>16. CASE IterCreated \/ EnterBody \/ LeaveBody \/ BodyEnds \/ Break
  <2>1. /\ stack # <<>> /\ Len(stack) > 0 /\ Len(stack) <= Len(stack)
        /\ Top = stack[Len(stack)] /\ Top \in Frames /\ Current \in Catchers
        /\ cleanup_chain' = cleanup_chain
    <3>1. stack # <<>>
      BY <1>16 DEF IterCreated, AtOuter, EnterBody, LeaveBody, BodyEnds, Break
    <3> QED
      BY <1>0, <1>16, <3>1, Here
         DEF IterCreated, EnterBody, LeaveBody, BodyEnds, Break, Top
  <2>2. PICK f : stack' = [stack EXCEPT ![Len(stack)] = f]
                 /\ f.cleanup = stack[Len(stack)].cleanup
    <3>1. CASE EnterBody
      <4> DEFINE e == [Top EXCEPT !.at = "body"]
                 f == [e EXCEPT !.ran = Top.ran + 1]
      <4>1. stack' = [stack EXCEPT ![Depth].at = "body", ![Depth].ran = @ + 1]
        BY <3>1 DEF EnterBody
      <4>2. stack' = [stack EXCEPT ![Len(stack)] = f]
        BY <1>0, <2>1, <4>1 DEF Frames
      <4>3. e.cleanup = Top.cleanup /\ f.cleanup = e.cleanup
        BY <2>1 DEF Frames
      <4> QED
        BY <2>1, <4>2, <4>3
    <3>2. CASE ~EnterBody
      <4>1. PICK at : MoveTo(at)
        BY <1>16, <3>2 DEF IterCreated, LeaveBody, BodyEnds, Break
      <4> DEFINE f == [Top EXCEPT !.at = at]
      <4>2. stack' = [stack EXCEPT ![Len(stack)] = f]
        BY <1>0, <2>1, <4>1 DEF MoveTo
      <4>3. f.cleanup = Top.cleanup
        BY <2>1 DEF Frames
      <4> QED
        BY <2>1, <4>2, <4>3
    <3> QED
      BY <3>1, <3>2
  <2>3. PICK c : catchers' = [catchers EXCEPT ![k] = c]
                 /\ c.saved_cleanup_chain = Current.saved_cleanup_chain
    <3>1. CASE BodyEnds \/ Break
      <4>1. catchers' = [catchers EXCEPT ![k] = Current]
        BY <1>0, <3>1 DEF BodyEnds, Break, Current
      <4> QED
        BY <4>1
    <3>2. CASE ~(BodyEnds \/ Break)
      <4>1. PICK st : SetState(st)
        BY <1>16, <3>2 DEF IterCreated, EnterBody, LeaveBody
      <4> DEFINE c == [Current EXCEPT !.state = st]
      <4>2. catchers' = [catchers EXCEPT ![k] = c]
        BY <4>1 DEF SetState, Current
      <4>3. c.saved_cleanup_chain = Current.saved_cleanup_chain
        BY <2>1 DEF Catchers
      <4> QED
        BY <4>2, <4>3
    <3> QED
      BY <3>1, <3>2
  <2> QED
    BY <1>0, <1>15, <2>1, <2>2, <2>3
<1>17. CASE Longjmp
  <2> DEFINE b == Current.buf
             s == SubSeq(stack, 1, b)
             f == [s[b] EXCEPT !.at = "outer"]
             c == [Current EXCEPT !.state = "ABORTING",
                                  !.exception = Top.exception]
  <2>1. /\ stack # <<>> /\ cleanup_chain' = <<>>
        /\ stack' = [s EXCEPT ![b] = f]
        /\ catchers' = [catchers EXCEPT ![k] = c]
    <3>1. stack # <<>> /\ cleanup_chain' = <<>>
      BY <1>17 DEF Longjmp
    <3>2. stack' = [s EXCEPT ![b] = f]
      BY <1>17 DEF Longjmp
    <3>3. catchers' = [catchers EXCEPT ![k] = c]
      BY <1>17 DEF Longjmp, Current
    <3> QED
      BY <3>1, <3>2, <3>3
  <2>2. /\ b \in 1 .. Len(stack) /\ b \in 0 .. Len(stack) /\ b \in 1 .. b
        /\ Current \in Catchers
    BY <1>0, <2>1, Here
  <2>3. /\ s \in Seq(Frames) /\ Len(s) = b
        /\ \A i \in 1 .. b : s[i] = stack[i]
    BY <1>0, <2>2, Prefix
  <2>4. s[b] \in Frames
    BY <2>2, <2>3, FrameTypes
  <2>5. f.cleanup = s[b].cleanup
    BY <2>4 DEF Frames
  <2>6. c.saved_cleanup_chain = Current.saved_cleanup_chain
    BY <2>2 DEF Catchers
  <2>7. Len(s) > 0 /\ Len(s) <= Len(stack)
    BY <1>0, <2>2, <2>3
  <2> HIDE DEF b, s, f, c
  <2> QED
    BY <1>15, <2>1, <2>3, <2>5, <2>6, <2>7
<1> QED
  BY <1>6, <1>7, <1>8, <1>9, <1>10, <1>11, <1>13, <1>14, <1>16, <1>17,
     OnceMake, OnceRun DEF Next

(* The inductive invariant of CleanupsOnce. *)
OInv == IInv /\ Once(catchers, cleanup_chain, Running(stack))

(* OInv is an invariant.                                                   *)
LEMMA OInvHolds == Spec => []OInv
<1>1. Init => OInv
  <2> SUFFICES ASSUME Init PROVE OInv
    OBVIOUS
  <2>1. Places(catchers, cleanup_chain) = {}
    <3>1. Len(catchers) = 0 /\ cleanup_chain = <<>>
      BY EmptySeq DEF Init
    <3> QED
      BY <3>1, EmptySeq DEF Places, ChainAt
  <2> QED
    BY <2>1, InitInv DEF OInv, Once
<1>2. OInv /\ [Next]_vars => OInv'
  <2> SUFFICES ASSUME OInv, [Next]_vars PROVE OInv'
    OBVIOUS
  <2>1. IInv' /\ IInv
    BY StepInv DEF OInv
  <2>2. CASE Next
    BY <2>1, <2>2, OnceStep DEF OInv
  <2>3. CASE UNCHANGED vars
    BY <2>1, <2>3 DEF OInv, vars
  <2> QED
    BY <2>2, <2>3
<1> QED
  BY <1>1, <1>2, PTL DEF Spec

(* No cleanup is pending twice, or pending while it runs: its function     *)
(* runs, and its argument is freed, at most once, for any nesting of       *)
(* TRY_CATCH, do_cleanups and throws out of cleanup functions.             *)
THEOREM CleanupsRunOnce == Spec => []CleanupsOnce
<1>1. OInv => CleanupsOnce
  BY OnceIs DEF OInv, IInv
<1> QED
  BY <1>1, OInvHolds, PTL

-----------------------------------------------------------------------------
(***************************************************************************)
(* Exceptions implements CleanupScopes: a scope is a saved chain and the   *)
(* output builder saved with it, or the chain in use.                      *)
(***************************************************************************)

(* The scopes of a list of catchers, a chain and an output builder. *)
ScopesOf(cs, ch, ui) ==
    [j \in 1 .. Len(cs) + 1 |->
        IF j <= Len(cs)
        THEN [pending |-> cs[j].saved_cleanup_chain, ui |-> cs[j].saved_uiout]
        ELSE [pending |-> ch, ui |-> ui]]
ThrownIn(cs) == cs # <<>> /\ cs[Len(cs)].state = "ABORTING"

AScope == [pending : Seq(Cleanups), ui : Uis]

(* The mapping of Exceptions, in these terms. *)
Mapped == ScopesOf(catchers, cleanup_chain, uiout)

(* The actions of CleanupScopes, and its tuple of variables, in terms of   *)
(* Mapped and ThrownIn.                                                    *)
LEMMA MapPush ==
  ASSUME NEW c, ~ThrownIn(catchers), Len(Mapped) > 1,
         \A j \in 1 .. Len(Mapped) : \A i \in DOMAIN Mapped[j].pending :
            Mapped[j].pending[i] # c,
         Mapped' = [Mapped EXCEPT ![Len(Mapped)].pending = Append(@, c)],
         ThrownIn(catchers') = ThrownIn(catchers)
  PROVE  Scopes!Push(c)
BY DEF Scopes!Push, Scopes!Depth, Mapped, ScopesOf, ThrownIn, Current

(* Cleanups leave the innermost scope. *)
LEMMA MapLeave ==
  ASSUME NEW n, ~ThrownIn(catchers), n < Len(Mapped[Len(Mapped)].pending),
         Mapped' = [Mapped EXCEPT ![Len(Mapped)].pending = SubSeq(@, 1, n)],
         ThrownIn(catchers') = ThrownIn(catchers)
  PROVE  Scopes!Leave(n)
BY DEF Scopes!Leave, Scopes!Depth, Mapped, ScopesOf, ThrownIn, Current

(* A scope opens. *)
LEMMA MapOpen ==
  ASSUME NEW ui, ~ThrownIn(catchers),
         Mapped' = Append(Mapped, [pending |-> <<>>, ui |-> ui]),
         ThrownIn(catchers') = ThrownIn(catchers)
  PROVE  Scopes!Open(ui)
BY DEF Scopes!Open, Scopes!Depth, Mapped, ScopesOf, ThrownIn, Current

(* An exception reaches the innermost scope. *)
LEMMA MapArrive ==
  ASSUME Len(Mapped) > 1, Mapped[Len(Mapped)].pending = <<>>,
         Mapped' = Mapped, ThrownIn(catchers')
  PROVE  Scopes!Arrive
BY DEF Scopes!Arrive, Scopes!Depth, Mapped, ScopesOf, ThrownIn, Current

(* The innermost scope closes. *)
LEMMA MapClose ==
  ASSUME Len(Mapped) > 1, Mapped' = SubSeq(Mapped, 1, Len(Mapped) - 1),
         ~ThrownIn(catchers')
  PROVE  Scopes!CloseScope
BY DEF Scopes!CloseScope, Scopes!Depth, Mapped, ScopesOf, ThrownIn, Current

(* Nothing happens to the scopes. *)
LEMMA MapNothing ==
  ASSUME Mapped' = Mapped, ThrownIn(catchers') = ThrownIn(catchers)
  PROVE  UNCHANGED Scopes!svars
BY DEF Scopes!svars, Mapped, ScopesOf, ThrownIn, Current

(* The scope gdb starts with. *)
LEMMA MapInit ==
  ASSUME Mapped = <<[pending |-> <<>>, ui |-> StdUi]>>, ~ThrownIn(catchers)
  PROVE  Scopes!SInit
BY DEF Scopes!SInit, Mapped, ScopesOf, ThrownIn, Current

(* Any of the steps. *)
LEMMA MapNext ==
  ASSUME \/ \E c \in Cleanups : Scopes!Push(c)
         \/ \E n \in 0 .. Len(Mapped[Len(Mapped)].pending) : Scopes!Leave(n)
         \/ \E ui \in Uis : Scopes!Open(ui)
         \/ Scopes!Arrive \/ Scopes!CloseScope
  PROVE  Scopes!SNext
BY DEF Scopes!SNext, Scopes!Depth, Mapped, ScopesOf

-----------------------------------------------------------------------------
(* What the scopes of a state are. *)
LEMMA ScopesAre ==
  ASSUME NEW cs \in Seq(Catchers), NEW ch \in Seq(Cleanups), NEW ui \in Uis
  PROVE  /\ ScopesOf(cs, ch, ui) \in Seq(AScope)
         /\ Len(ScopesOf(cs, ch, ui)) = Len(cs) + 1 /\ Len(cs) \in Nat
         /\ ScopesOf(cs, ch, ui)[Len(cs) + 1] = [pending |-> ch, ui |-> ui]
         /\ \A j \in 1 .. Len(cs) :
               ScopesOf(cs, ch, ui)[j] = [pending |-> cs[j].saved_cleanup_chain,
                                          ui |-> cs[j].saved_uiout]
<1> DEFINE k == Len(cs)
           s == ScopesOf(cs, ch, ui)
<1>1. k \in Nat
  BY LenProperties
<1>2. s \in [1 .. k + 1 -> AScope]
  <2>1. ASSUME NEW j \in 1 .. k + 1 PROVE s[j] \in AScope
    <3>1. CASE j <= k
      <4>1. /\ cs[j].saved_cleanup_chain \in Seq(Cleanups)
            /\ cs[j].saved_uiout \in Uis
        BY <1>1, <3>1, CatcherTypes
      <4> QED
        BY <1>1, <3>1, <4>1 DEF ScopesOf, AScope
    <3>2. CASE ~(j <= k)
      BY <3>2 DEF ScopesOf, AScope
    <3> QED
      BY <3>1, <3>2
  <2> QED
    BY <2>1 DEF ScopesOf
<1>3. s \in Seq(AScope) /\ Len(s) = k + 1
  <2>1. k + 1 \in Nat
    BY <1>1
  <2> HIDE DEF s, k
  <2> QED
    BY <1>2, <2>1, MadeOf
<1> QED
  BY <1>1, <1>3 DEF ScopesOf

(* Two lists of scopes are the same when their parts are. *)
LEMMA SameScopes ==
  ASSUME NEW cs \in Seq(Catchers), NEW ds, Len(ds) = Len(cs),
         NEW ch, NEW ui,
         \A j \in 1 .. Len(cs) :
            /\ ds[j].saved_cleanup_chain = cs[j].saved_cleanup_chain
            /\ ds[j].saved_uiout = cs[j].saved_uiout
  PROVE  ScopesOf(ds, ch, ui) = ScopesOf(cs, ch, ui)
<1>1. Len(cs) \in Nat
  BY LenProperties
<1>2. \A j \in 1 .. Len(cs) + 1 : ScopesOf(ds, ch, ui)[j] = ScopesOf(cs, ch, ui)[j]
  BY <1>1 DEF ScopesOf
<1> QED
  BY <1>2 DEF ScopesOf

(* Only a TRY_CATCH that is at its outer condition has an exception thrown *)
(* to it.                                                                  *)
LEMMA CodeNotThrown ==
  ASSUME IInv
  PROVE  /\ stack = <<>> => catchers = <<>>
         /\ stack # <<>> => (ThrownIn(catchers) <=> Current.state = "ABORTING")
         /\ stack # <<>> /\ Top.at # "outer" => ~ThrownIn(catchers)
<1>1. /\ stack \in Seq(Frames) /\ catchers \in Seq(Catchers)
      /\ Good(stack, catchers, cleanup_chain)
  BY DEF IInv, Good, Typed
<1>2. ASSUME stack = <<>> PROVE catchers = <<>>
  <2>1. Len(stack) = 0 /\ Len(catchers) \in Nat
    BY <1>1, <1>2, EmptySeq
  <2>2. \A j \in 1 .. Len(catchers) : catchers[j].buf \in 1 .. 0
    BY <1>1, <2>1 DEF Good, Live
  <2>3. Len(catchers) = 0
    BY <2>1, <2>2
  <2> QED
    BY <1>1, <2>3, EmptySeq
<1>3. ASSUME stack # <<>>
      PROVE  /\ ThrownIn(catchers) <=> Current.state = "ABORTING"
             /\ Top.at # "outer" => ~ThrownIn(catchers)
  <2>1. /\ Len(catchers) > 0 /\ Len(catchers) \in Nat /\ catchers # <<>>
        /\ Paired(Current, stack[Current.buf])
        /\ Current.buf \in 1 .. Depth /\ stack[Current.buf].at \in Tries
        /\ Top.at \in Tries => Current.buf = Depth
    BY <1>3, Here, EmptySeq
  <2>2. ThrownIn(catchers) <=> Current.state = "ABORTING"
    BY <2>1 DEF ThrownIn, Current
  <2>3. ASSUME Top.at # "outer" PROVE Current.state # "ABORTING"
    <3>1. CASE Current.buf = Depth
      BY <2>1, <2>3, <3>1 DEF Paired, Tries, Top
    <3>2. CASE Current.buf # Depth
      <4>1. Len(catchers) \in 1 .. Len(catchers)
        BY <2>1
      <4>2. stack[Current.buf].at = "body"
        BY <1>1, <3>2, <4>1 DEF Good, CatchersGood, Current, Depth
      <4> QED
        BY <2>1, <4>2 DEF Paired
    <3> QED
      BY <3>1, <3>2
  <2> QED
    BY <2>2, <2>3
<1> QED
  BY <1>2, <1>3

-----------------------------------------------------------------------------
(* gdb starts with the scope of the code outside every TRY_CATCH. *)
LEMMA InitMaps == Init => Scopes!SInit
<1> SUFFICES ASSUME Init PROVE Scopes!SInit
  OBVIOUS
<1>1. catchers = <<>> /\ cleanup_chain = <<>> /\ uiout = StdUi
  BY DEF Init
<1>2. Mapped = <<[pending |-> <<>>, ui |-> StdUi]>>
  <2>1. Len(catchers) = 0
    BY <1>1, EmptySeq
  <2>2. Mapped = [j \in 1 .. 1 |-> [pending |-> <<>>, ui |-> StdUi]]
    BY <1>1, <2>1 DEF Mapped, ScopesOf
  <2> QED
    BY <2>2
<1>3. ~ThrownIn(catchers)
  BY <1>1 DEF ThrownIn
<1> QED
  BY <1>2, <1>3, MapInit

-----------------------------------------------------------------------------
(* The scopes of this state and what is known of its parts. *)
LEMMA MappedIs ==
  ASSUME IInv
  PROVE  /\ Mapped \in Seq(AScope) /\ Len(catchers) \in Nat
         /\ Len(Mapped) = Len(catchers) + 1
         /\ Mapped[Len(Mapped)] = [pending |-> cleanup_chain, ui |-> uiout]
         /\ \A j \in 1 .. Len(catchers) :
               Mapped[j] = [pending |-> catchers[j].saved_cleanup_chain,
                            ui |-> catchers[j].saved_uiout]
         /\ cleanup_chain \in Seq(Cleanups) /\ Len(cleanup_chain) \in Nat
         /\ catchers \in Seq(Catchers) /\ uiout \in Uis
         /\ stack # <<>> => Len(Mapped) > 1
<1>1. /\ cleanup_chain \in Seq(Cleanups) /\ Len(cleanup_chain) \in Nat
      /\ catchers \in Seq(Catchers) /\ uiout \in Uis
  BY LenProperties DEF IInv, Good, Typed
<1>2. stack # <<>> => Len(catchers) > 0
  BY Here
<1> QED
  BY <1>1, <1>2, ScopesAre DEF Mapped

(* The chain in use changes and nothing else that belongs to a scope. *)
LEMMA MappedChain ==
  ASSUME IInv, catchers' = catchers, uiout' = uiout,
         cleanup_chain' \in Seq(Cleanups)
  PROVE  Mapped' = [Mapped EXCEPT ![Len(Mapped)].pending = cleanup_chain']
<1> DEFINE k == Len(catchers)
           top == [pending |-> cleanup_chain, ui |-> uiout]
<1>1. /\ Len(Mapped) = k + 1 /\ k \in Nat
      /\ Mapped[Len(Mapped)] = top
  BY MappedIs
<1>2. Mapped = [j \in 1 .. k + 1 |-> Mapped[j]]
  BY DEF Mapped, ScopesOf
<1>3. Mapped' = [j \in 1 .. k + 1 |->
                   IF j <= k THEN Mapped[j]
                   ELSE [pending |-> cleanup_chain', ui |-> uiout]]
  BY <1>1 DEF Mapped, ScopesOf
<1>4. [top EXCEPT !.pending = cleanup_chain'] =
         [pending |-> cleanup_chain', ui |-> uiout]
  OBVIOUS
<1>5. [Mapped EXCEPT ![Len(Mapped)] =
          [pending |-> cleanup_chain', ui |-> uiout]] = Mapped'
  <2>1. ASSUME NEW j \in 1 .. k + 1 PROVE j = Len(Mapped) <=> ~(j <= k)
    BY <1>1
  <2> HIDE DEF k
  <2> QED
    BY <1>2, <1>3, <2>1
<1>6. [Mapped EXCEPT ![Len(Mapped)].pending = cleanup_chain'] =
      [Mapped EXCEPT ![Len(Mapped)] = [top EXCEPT !.pending = cleanup_chain']]
  <2> HIDE DEF top
  <2> QED
    BY <1>1
<1> QED
  BY <1>4, <1>5, <1>6

(* The cleanups come and go. *)
LEMMA ChainMaps ==
  ASSUME IInv,
         \/ \E c \in Cleanups : MakeCleanup(c)
         \/ \E mark \in 0 .. Len(cleanup_chain) : DiscardCleanups(mark)
         \/ RunCleanup
  PROVE  Scopes!SNext
<1>1. /\ stack # <<>> /\ ~ThrownIn(catchers)
      /\ catchers' = catchers /\ uiout' = uiout
  BY CodeNotThrown
     DEF MakeCleanup, DiscardCleanups, RunCleanup, InCode
<1>2. /\ Len(Mapped) > 1 /\ Len(Mapped) = Len(catchers) + 1
      /\ Mapped[Len(Mapped)] = [pending |-> cleanup_chain, ui |-> uiout]
      /\ Mapped[Len(Mapped)].pending = cleanup_chain
      /\ cleanup_chain \in Seq(Cleanups) /\ Len(cleanup_chain) \in Nat
      /\ Mapped \in Seq(AScope) /\ Len(catchers) \in Nat
  BY <1>1, MappedIs
<1>3. ASSUME NEW c \in Cleanups, MakeCleanup(c) PROVE Scopes!Push(c)
  <2>1. cleanup_chain' = Append(cleanup_chain, c) /\ c \notin Existing
    BY <1>3 DEF MakeCleanup
  <2>2. cleanup_chain' \in Seq(Cleanups)
    BY <1>2, <2>1, AppendProperties
  <2>3. Mapped' = [Mapped EXCEPT ![Len(Mapped)].pending = Append(@, c)]
    <3>1. Mapped' = [Mapped EXCEPT ![Len(Mapped)].pending =
                                      Append(cleanup_chain, c)]
      BY <1>1, <2>1, <2>2, MappedChain
    <3> QED
      BY <1>2, <3>1
  <2>4. ASSUME NEW j \in 1 .. Len(Mapped), NEW i \in DOMAIN Mapped[j].pending
        PROVE  Mapped[j].pending[i] # c
    <3>1. c \notin Held(cleanup_chain) /\
          \A l \in DOMAIN catchers : c \notin Held(catchers[l].saved_cleanup_chain)
      BY <2>1 DEF Existing
    <3>2. CASE j = Len(catchers) + 1
      BY <1>2, <3>1, <3>2 DEF Held
    <3>3. CASE j # Len(catchers) + 1
      <4>1. j \in 1 .. Len(catchers) /\ DOMAIN catchers = 1 .. Len(catchers)
        BY <1>2, <3>3, MappedIs, LenProperties
      <4>2. Mapped[j].pending = catchers[j].saved_cleanup_chain
        <5>1. Mapped[j] = [pending |-> catchers[j].saved_cleanup_chain,
                           ui |-> catchers[j].saved_uiout]
          BY <4>1, MappedIs
        <5> QED
          BY <5>1
      <4> QED
        BY <3>1, <4>1, <4>2 DEF Held
    <3> QED
      BY <3>2, <3>3
  <2> QED
    BY <1>1, <1>2, <2>3, <2>4, MapPush
<1>4. ASSUME NEW n \in 0 .. Len(cleanup_chain), n < Len(cleanup_chain),
             cleanup_chain' = SubSeq(cleanup_chain, 1, n)
      PROVE  Scopes!SNext
  <2>1. cleanup_chain' \in Seq(Cleanups)
    BY <1>2, <1>4, Prefix
  <2>2. Mapped' = [Mapped EXCEPT ![Len(Mapped)].pending = SubSeq(@, 1, n)]
    <3>1. Mapped' = [Mapped EXCEPT ![Len(Mapped)].pending =
                                      SubSeq(cleanup_chain, 1, n)]
      BY <1>1, <1>4, <2>1, MappedChain
    <3> QED
      BY <1>2, <3>1
  <2>3. Scopes!Leave(n)
    BY <1>1, <1>2, <1>4, <2>2, MapLeave
  <2> QED
    BY <1>2, <1>4, <2>3, MapNext
<1>5. ASSUME NEW mark \in 0 .. Len(cleanup_chain), DiscardCleanups(mark)
      PROVE  Scopes!SNext
  <2>1. mark < Len(cleanup_chain)
    BY <1>1, <1>2, <1>5, Here DEF DiscardCleanups, Marks
  <2> QED
    BY <1>4, <1>5, <2>1 DEF DiscardCleanups
<1>6. ASSUME RunCleanup PROVE Scopes!SNext
  <2> DEFINE n == Len(cleanup_chain) - 1
  <2>1. n \in 0 .. Len(cleanup_chain) /\ n < Len(cleanup_chain)
    <3>1. Top.mark <= Len(cleanup_chain) /\ Top.mark \in Nat
          /\ Len(cleanup_chain) # Top.mark
      BY <1>1, <1>6, Here DEF RunCleanup
    <3> QED
      BY <1>2, <3>1
  <2>2. cleanup_chain' = SubSeq(cleanup_chain, 1, n)
    BY <1>6 DEF RunCleanup
  <2> HIDE DEF n
  <2> QED
    BY <1>4, <2>1, <2>2
<1> QED
  BY <1>3, <1>5, <1>6, MapNext

(* A TRY_CATCH begins. *)
LEMMA OpenMaps ==
  ASSUME IInv, NEW mask \in Masks, NEW ui \in Uis, EnterTry(mask, ui)
  PROVE  Scopes!SNext
<1> DEFINE c == [state |-> "CREATED", buf |-> Depth + 1,
                 exception |-> NoException, mask |-> mask,
                 saved_uiout |-> uiout, saved_cleanup_chain |-> cleanup_chain]
           k == Len(catchers)
           b == [pending |-> <<>>, ui |-> ui]
<1>1. /\ catchers' = Append(catchers, c) /\ cleanup_chain' = <<>>
      /\ uiout' = ui
      /\ stack # <<>> => Top.at # "outer"
  BY DEF EnterTry, SaveCleanups, InCode
<1>2. ~ThrownIn(catchers)
  BY <1>1, CodeNotThrown DEF ThrownIn
<1>3. /\ k \in Nat /\ catchers \in Seq(Catchers) /\ stack \in Seq(Frames)
      /\ uiout \in Uis /\ cleanup_chain \in Seq(Cleanups)
  BY LenProperties DEF IInv, Good, Typed
<1>4. c \in Catchers
  <2>1. Depth + 1 \in Nat /\ NoException \in Exceptions
    BY <1>3, LenProperties DEF Depth, Exceptions, NoException
  <2> QED
    BY <1>3, <2>1 DEF Catchers
<1>5. /\ c.saved_uiout = uiout /\ c.saved_cleanup_chain = cleanup_chain
      /\ c.state # "ABORTING"
  OBVIOUS
<1> HIDE DEF c
<1>6. /\ Len(catchers') = k + 1 /\ catchers'[k + 1] = c
      /\ \A j \in 1 .. k : catchers'[j] = catchers[j]
      /\ catchers' \in Seq(Catchers) /\ catchers' # <<>>
  BY <1>1, <1>3, <1>4, AppendProperties, EmptySeq
<1>7. ~ThrownIn(catchers')
  BY <1>5, <1>6 DEF ThrownIn
<1>8. Mapped' = Append(Mapped, b)
  <2>1. /\ Mapped \in Seq(AScope) /\ Len(Mapped) = k + 1
        /\ b \in AScope
    BY MappedIs, EmptySeq DEF AScope
  <2>2. /\ Append(Mapped, b) \in Seq(AScope)
        /\ Len(Append(Mapped, b)) = k + 2
        /\ Append(Mapped, b)[k + 2] = b
        /\ \A j \in 1 .. k + 1 : Append(Mapped, b)[j] = Mapped[j]
    <3>1. Len(Mapped) + 1 = k + 2
      BY <1>3, <2>1
    <3> HIDE DEF b, k
    <3> QED
      BY <2>1, <3>1, AppendProperties
  <2>3. DOMAIN Append(Mapped, b) = 1 .. k + 2
    BY <2>2, LenProperties
  <2>4. Mapped' = [j \in 1 .. k + 2 |->
                     IF j <= k + 1
                     THEN [pending |-> catchers'[j].saved_cleanup_chain,
                           ui |-> catchers'[j].saved_uiout]
                     ELSE b]
    <3>1. Len(catchers') + 1 = k + 2
      BY <1>3, <1>6
    <3> QED
      BY <1>1, <1>3, <1>6, <3>1 DEF Mapped, ScopesOf
  <2>5. ASSUME NEW j \in 1 .. k + 2 PROVE Mapped'[j] = Append(Mapped, b)[j]
    <3>1. CASE j = k + 2
      BY <1>3, <2>2, <2>4, <3>1
    <3>2. CASE j = k + 1
      <4>1. Mapped[k + 1] = [pending |-> cleanup_chain, ui |-> uiout]
        BY <2>1, MappedIs
      <4>2. Mapped'[k + 1] = [pending |-> c.saved_cleanup_chain,
                              ui |-> c.saved_uiout]
        BY <1>3, <1>6, <2>4
      <4>3. Append(Mapped, b)[k + 1] = Mapped[k + 1]
        BY <1>3, <2>2
      <4> QED
        BY <1>5, <3>2, <4>1, <4>2, <4>3
    <3>3. CASE j <= k
      <4>1. j \in 1 .. k
        BY <1>3, <3>3
      <4>2. Mapped[j] = [pending |-> catchers[j].saved_cleanup_chain,
                         ui |-> catchers[j].saved_uiout]
        BY <4>1, MappedIs
      <4>3. Mapped'[j] = [pending |-> catchers'[j].saved_cleanup_chain,
                          ui |-> catchers'[j].saved_uiout]
        BY <1>3, <2>4, <4>1
      <4>4. Append(Mapped, b)[j] = Mapped[j] /\ catchers'[j] = catchers[j]
        BY <1>3, <1>6, <2>2, <4>1
      <4> QED
        BY <4>2, <4>3, <4>4
    <3>4. j = k + 2 \/ j = k + 1 \/ j <= k
      BY <1>3
    <3> QED
      BY <3>1, <3>2, <3>3, <3>4
  <2>6. Append(Mapped, b) = [j \in 1 .. k + 2 |-> Append(Mapped, b)[j]]
    BY <2>2, <2>3, SeqDef
  <2> QED
    BY <2>4, <2>5, <2>6
<1>9. Scopes!Open(ui)
  BY <1>2, <1>7, <1>8, MapOpen DEF ThrownIn
<1> QED
  BY <1>9, MapNext

(* A TRY_CATCH ends. *)
LEMMA CloseMaps ==
  ASSUME IInv, IterDone \/ Catch \/ Relay
  PROVE  Scopes!SNext
<1> DEFINE k  == Len(catchers)
           cs == SubSeq(catchers, 1, k - 1)
<1>1. /\ stack # <<>> /\ catchers' = cs
      /\ cleanup_chain' = Current.saved_cleanup_chain
      /\ uiout' = Current.saved_uiout /\ Current = catchers[k]
  BY DEF IterDone, Catch, Relay, AtOuter, CatcherPop, Current
<1>2. /\ Mapped \in Seq(AScope) /\ k \in Nat /\ k > 0 /\ Len(Mapped) = k + 1
      /\ catchers \in Seq(Catchers) /\ k - 1 \in 0 .. k
  BY <1>1, MappedIs
<1>3. /\ cs \in Seq(Catchers) /\ Len(cs) = k - 1
      /\ \A j \in 1 .. k - 1 : cs[j] = catchers[j]
  BY <1>2, Prefix
<1> HIDE DEF cs
<1>4. ~ThrownIn(catchers')
  <2>1. CASE k = 1
    BY <1>1, <1>3, <2>1, EmptySeq DEF ThrownIn
  <2>2. CASE k > 1
    <3>1. k - 1 \in 1 .. k /\ k \in 1 .. k /\ k - 1 < k /\ k - 1 \in 1 .. k - 1
      BY <1>2, <2>2
    <3>2. /\ catchers[k - 1].buf < catchers[k].buf
          /\ catchers[k - 1].buf \in 1 .. Len(stack)
          /\ catchers[k].buf \in 1 .. Len(stack) /\ Len(stack) \in Nat
      BY <3>1, LenProperties DEF IInv, Good, Live, Typed
    <3>3. catchers[k - 1].buf # Len(stack)
      BY <3>2
    <3>4. /\ stack[catchers[k - 1].buf].at = "body"
          /\ Paired(catchers[k - 1], stack[catchers[k - 1].buf])
      BY <3>1, <3>3 DEF IInv, Good, CatchersGood
    <3>5. cs[k - 1].state = "RUNNING_1"
      BY <1>3, <3>1, <3>4 DEF Paired
    <3> QED
      <4>1. Len(catchers') = k - 1 /\ catchers' = cs
        BY <1>1, <1>3
      <4>2. catchers'[Len(catchers')].state = "RUNNING_1"
        BY <3>5, <4>1
      <4> HIDE DEF k
      <4> QED
        BY <4>2 DEF ThrownIn
  <2>3. k = 1 \/ k > 1
    <3>1. k \in Nat /\ k > 0
      BY <1>2
    <3> HIDE DEF k
    <3> QED
      BY <3>1
  <2> QED
    BY <2>1, <2>2, <2>3
<1>5. Mapped' = SubSeq(Mapped, 1, k)
  <2>1. /\ SubSeq(Mapped, 1, k) \in Seq(AScope)
        /\ Len(SubSeq(Mapped, 1, k)) = k
        /\ \A j \in 1 .. k : SubSeq(Mapped, 1, k)[j] = Mapped[j]
    <3>1. k \in 0 .. Len(Mapped)
      BY <1>2
    <3> HIDE DEF k
    <3> QED
      BY <1>2, <3>1, Prefix
  <2>2. SubSeq(Mapped, 1, k) = [j \in 1 .. k |-> SubSeq(Mapped, 1, k)[j]]
    BY <2>1, SeqDef, LenProperties
  <2>3. Mapped' = [j \in 1 .. k |->
                     IF j <= k - 1
                     THEN [pending |-> catchers'[j].saved_cleanup_chain,
                           ui |-> catchers'[j].saved_uiout]
                     ELSE [pending |-> cleanup_chain', ui |-> uiout']]
    <3>1. Len(catchers') = k - 1 /\ Len(catchers') + 1 = k
      BY <1>1, <1>2, <1>3
    <3> QED
      BY <3>1 DEF Mapped, ScopesOf
  <2>4. ASSUME NEW j \in 1 .. k PROVE Mapped'[j] = Mapped[j]
    <3>1. Mapped[j] = [pending |-> catchers[j].saved_cleanup_chain,
                       ui |-> catchers[j].saved_uiout]
      BY MappedIs
    <3>2. CASE j = k
      BY <1>1, <1>2, <2>3, <3>1, <3>2
    <3>3. CASE j # k
      <4>1. j \in 1 .. k - 1 /\ j <= k - 1
        BY <1>2, <3>3
      <4>2. Mapped'[j] = [pending |-> catchers'[j].saved_cleanup_chain,
                          ui |-> catchers'[j].saved_uiout]
        BY <2>3, <4>1
      <4> QED
        BY <1>1, <1>3, <3>1, <4>1, <4>2
    <3> QED
      BY <3>2, <3>3
  <2> QED
    BY <2>1, <2>2, <2>3, <2>4
<1>6. Len(Mapped) > 1 /\ Len(Mapped) - 1 = k
  BY <1>2
<1> QED
  BY <1>4, <1>5, <1>6, MapClose, MapNext

(* What belongs to no scope changes. *)
LEMMA InsideMaps ==
  ASSUME IInv, NEW ds, Len(ds) = Len(catchers),
         \A j \in 1 .. Len(catchers) :
            /\ ds[j].saved_cleanup_chain = catchers[j].saved_cleanup_chain
            /\ ds[j].saved_uiout = catchers[j].saved_uiout,
         catchers' = ds, cleanup_chain' = cleanup_chain, uiout' = uiout
  PROVE  Mapped' = Mapped
<1>1. catchers \in Seq(Catchers)
  BY DEF IInv, Good, Typed
<1>2. ScopesOf(ds, cleanup_chain, uiout) = ScopesOf(catchers, cleanup_chain, uiout)
  BY <1>1, SameScopes
<1> QED
  BY <1>2 DEF Mapped

(* The current catcher alone changes. *)
LEMMA CurrentMaps ==
  ASSUME IInv, stack # <<>>,
         NEW c, c.saved_cleanup_chain = Current.saved_cleanup_chain,
         c.saved_uiout = Current.saved_uiout,
         catchers' = [catchers EXCEPT ![Len(catchers)] = c],
         cleanup_chain' = cleanup_chain, uiout' = uiout
  PROVE  /\ Mapped' = Mapped
         /\ ThrownIn(catchers') <=> c.state = "ABORTING"
<1> DEFINE k  == Len(catchers)
           ds == [catchers EXCEPT ![k] = c]
<1>1. /\ catchers \in Seq(Catchers) /\ k \in Nat /\ k > 0
      /\ DOMAIN catchers = 1 .. k /\ Current = catchers[k]
  BY Here, LenProperties DEF Current
<1>2. ds = [j \in 1 .. k |-> IF j = k THEN c ELSE catchers[j]]
  BY <1>1
<1>3. Len(ds) = k
  <2>1. ds \in [1 .. k -> {ds[j] : j \in 1 .. k}]
    BY <1>2
  <2> HIDE DEF ds
  <2> QED
    BY <1>1, <2>1, MadeOf
<1>4. /\ ds[k] = c /\ ds # <<>>
      /\ \A j \in 1 .. k :
            /\ ds[j].saved_cleanup_chain = catchers[j].saved_cleanup_chain
            /\ ds[j].saved_uiout = catchers[j].saved_uiout
  <2>1. ds[k] = c
    <3>1. k \in 1 .. k
      BY <1>1
    <3> HIDE DEF ds, k
    <3> QED
      BY <1>2, <3>1
  <2>2. ASSUME NEW j \in 1 .. k
        PROVE  /\ ds[j].saved_cleanup_chain = catchers[j].saved_cleanup_chain
               /\ ds[j].saved_uiout = catchers[j].saved_uiout
    BY <1>1, <1>2
  <2>3. ds # <<>>
    <3> HIDE DEF ds
    <3> QED
      BY <1>1, <1>3, EmptySeq
  <2> QED
    BY <2>1, <2>2, <2>3
<1> HIDE DEF ds
<1>5. catchers' = ds
  BY DEF ds
<1>6. Mapped' = Mapped
  BY <1>3, <1>4, <1>5, InsideMaps
<1> QED
  BY <1>3, <1>4, <1>5, <1>6 DEF ThrownIn

(* The exception reaches the scope. *)
LEMMA ArriveMaps ==
  ASSUME IInv, Longjmp
  PROVE  Scopes!SNext
<1> DEFINE c == [Current EXCEPT !.state = "ABORTING",
                                !.exception = Top.exception]
<1>1. /\ stack # <<>> /\ cleanup_chain = <<>>
      /\ cleanup_chain' = cleanup_chain /\ uiout' = uiout
      /\ catchers' = [catchers EXCEPT ![Len(catchers)] = c]
  BY DEF Longjmp, Current
<1>2. Current \in Catchers
  BY <1>1, Here
<1>3. /\ c.saved_cleanup_chain = Current.saved_cleanup_chain
      /\ c.saved_uiout = Current.saved_uiout /\ c.state = "ABORTING"
  BY <1>2 DEF Catchers
<1> HIDE DEF c
<1>4. Mapped' = Mapped /\ ThrownIn(catchers')
  BY <1>1, <1>3, CurrentMaps
<1>5. Len(Mapped) > 1 /\ Mapped[Len(Mapped)].pending = <<>>
  BY <1>1, MappedIs
<1> QED
  BY <1>4, <1>5, MapArrive, MapNext

(* The loops of the macro: the state of a catcher, never to ABORTING. *)
LEMMA LoopMaps ==
  ASSUME IInv, IterCreated \/ EnterBody \/ LeaveBody
  PROVE  UNCHANGED Scopes!svars
<1>1. PICK st \in {"RUNNING", "RUNNING_1"} : SetState(st)
  BY DEF IterCreated, EnterBody, LeaveBody
<1> DEFINE c == [Current EXCEPT !.state = st]
<1>2. /\ stack # <<>> /\ cleanup_chain' = cleanup_chain /\ uiout' = uiout
      /\ Current.state # "ABORTING"
  BY DEF IterCreated, EnterBody, LeaveBody, AtOuter
<1>3. Current \in Catchers
  BY <1>2, Here
<1>4. /\ c.saved_cleanup_chain = Current.saved_cleanup_chain
      /\ c.saved_uiout = Current.saved_uiout /\ c.state # "ABORTING"
  BY <1>3 DEF Catchers
<1>5. catchers' = [catchers EXCEPT ![Len(catchers)] = c]
  BY <1>1 DEF SetState, Current
<1> HIDE DEF c
<1>6. Mapped' = Mapped /\ ~ThrownIn(catchers')
  BY <1>2, <1>4, <1>5, CurrentMaps
<1>7. ~ThrownIn(catchers)
  BY <1>2, CodeNotThrown
<1> QED
  BY <1>6, <1>7, MapNothing DEF ThrownIn

(* A throw of a message makes the older one stale, wherever it is kept. *)
LEMMA ThrowMaps ==
  ASSUME IInv, NEW reason \in Reasons, ThrowMessage(reason)
  PROVE  UNCHANGED Scopes!svars
<1> DEFINE k  == Len(catchers)
           ds == [j \in DOMAIN catchers |->
                    [catchers[j] EXCEPT !.exception = Stale(@)]]
<1>1. /\ catchers' = ds /\ cleanup_chain' = cleanup_chain /\ uiout' = uiout
      /\ stack # <<>>
  BY DEF ThrowMessage, InCode
<1>2. /\ catchers \in Seq(Catchers) /\ k \in Nat /\ k > 0
      /\ DOMAIN catchers = 1 .. k
  BY <1>1, Here, LenProperties
<1>3. ds = [j \in 1 .. k |-> [catchers[j] EXCEPT !.exception = Stale(@)]]
  BY <1>2
<1>4. Len(ds) = k
  <2>1. ds \in [1 .. k -> {ds[j] : j \in 1 .. k}]
    BY <1>3
  <2> HIDE DEF ds
  <2> QED
    BY <1>2, <2>1, MadeOf
<1>5. ASSUME NEW j \in 1 .. k
      PROVE  /\ ds[j].saved_cleanup_chain = catchers[j].saved_cleanup_chain
             /\ ds[j].saved_uiout = catchers[j].saved_uiout
             /\ ds[j].state = catchers[j].state
  <2>1. catchers[j] \in Catchers
    BY <1>2, CatcherTypes
  <2> QED
    BY <1>3, <2>1 DEF Catchers
<1> HIDE DEF ds
<1>6. Mapped' = Mapped
  BY <1>1, <1>4, <1>5, InsideMaps
<1>7. ThrownIn(catchers') = ThrownIn(catchers)
  <2>1. ds # <<>> /\ catchers # <<>> /\ ds[k].state = catchers[k].state
    BY <1>2, <1>4, <1>5, EmptySeq
  <2> QED
    BY <1>1, <1>4, <2>1 DEF ThrownIn
<1> QED
  BY <1>6, <1>7, MapNothing

-----------------------------------------------------------------------------
(* Every step is a step of the scopes, or changes nothing of theirs. *)
LEMMA StepMaps == IInv /\ [Next]_vars => [Scopes!SNext]_(Scopes!svars)
<1> SUFFICES ASSUME IInv, [Next]_vars
             PROVE  Scopes!SNext \/ UNCHANGED Scopes!svars
  OBVIOUS
<1>1. ASSUME UNCHANGED <<catchers, cleanup_chain, uiout>>
      PROVE  UNCHANGED Scopes!svars
  BY <1>1, MapNothing DEF Mapped, ThrownIn
<1>2. CASE UNCHANGED vars
  BY <1>1, <1>2 DEF vars
<1>3. CASE \/ \E mark \in 0 .. Len(cleanup_chain) : DoCleanups(mark)
           \/ FunctionReturns \/ LoopReturns \/ BodyEnds \/ Break
           \/ \E reason \in Reasons : ThrowReason(reason)
  BY <1>1, <1>3 DEF DoCleanups, FunctionReturns, LoopReturns, BodyEnds, Break,
                    ThrowReason
<1> QED
  BY <1>2, <1>3, ChainMaps, OpenMaps, CloseMaps, ArriveMaps, LoopMaps, ThrowMaps
     DEF Next

(* The catchers and the cleanup chain implement the scopes: cleanups leave *)
(* a scope last in, first out, an exception arrives when none is left, and *)
(* a scope that closes leaves the one around it as it was.                 *)
THEOREM ScopesImplemented == Spec => ImplementsScopes
<1> QED
  BY InitMaps, StepMaps, IInvHolds, PTL DEF Spec, ImplementsScopes, Scopes!SSpec
=============================================================================
