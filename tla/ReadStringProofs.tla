-------------------------- MODULE ReadStringProofs --------------------------
(***************************************************************************)
(* Proofs about ReadString for every word size, memory, start, length and  *)
(* character size.                                                         *)
(***************************************************************************)
EXTENDS ReadString, SequenceTheorems, TLAPS

(* From the first pass on the buffer holds a word at least, and while a    *)
(* word is being scanned there is room for the rest of it; the bytes of it *)
(* that are used are within LEN.                                           *)
RoomInv == /\ pc \in {"loop", "scan"} =>
                buffer_allocated >= Word /\ charsize \in 1 .. Word
           /\ pc = "scan" => /\ Len(buffer) + (tlen - i) <= buffer_allocated
                             /\ tlen <= len
           /\ pc = "loop" => nbytes_read = Len(buffer)
           /\ pc = "scan" => nbytes_read + i = Len(buffer)
           /\ pc = "enter" => buffer = <<>> /\ nbytes_read = 0
           /\ pc = "done" => nbytes_read = Len(buffer)

IInv == TypeOK /\ BufferFits /\ RoomInv

(* A stored byte lengthens the buffer by one. *)
LEMMA OneByte ==
  ASSUME NEW s \in Seq(BOOLEAN), NEW b \in BOOLEAN
  PROVE  Append(s, b) \in Seq(BOOLEAN) /\ Len(Append(s, b)) = Len(s) + 1
BY AppendProperties

(* What one pass takes is at least nothing and at most a word or LEN. *)
LEMMA TakenBound ==
  ASSUME TypeOK, len > 0
  PROVE  Taken \in 0 .. Word /\ Taken <= len
<1>1. memaddr % Word \in 0 .. Word - 1
  BY ReadAssumption DEF TypeOK
<1> QED
  BY <1>1, ReadAssumption DEF TypeOK, Taken, Smaller

LEMMA InitInv == Init => IInv
BY ReadAssumption DEF Init, IInv, TypeOK, BufferFits, RoomInv

(* Every step preserves the invariant. *)
LEMMA NextInv == IInv /\ [Next]_vars => IInv'
<1> SUFFICES ASSUME IInv, [Next]_vars PROVE IInv'
  OBVIOUS
<1> USE ReadAssumption DEF IInv, TypeOK, BufferFits, RoomInv, input, scan, EIO
<1>1. CASE BadCharSize
  BY <1>1 DEF BadCharSize
<1>2. CASE Allocate
  BY <1>2 DEF Allocate
<1>3. CASE Exhausted \/ CannotRead
  BY <1>3 DEF Exhausted, CannotRead
<1>4. CASE ReadWord
  <2>1. Taken \in 0 .. Word /\ Taken <= len
    BY <1>4, TakenBound DEF ReadWord
  <2>2. Len(buffer) + Taken <= buffer_allocated'
    BY <1>4, <2>1 DEF ReadWord
  <2> QED
    BY <1>4, <2>1, <2>2 DEF ReadWord
<1>5. CASE Terminator
  <2>1. buffer' \in Seq(BOOLEAN) /\ Len(buffer') = Len(buffer) + 1
    BY <1>5, OneByte DEF Terminator, Byte
  <2> QED
    BY <1>5, <2>1 DEF Terminator
<1>6. CASE StoreByte
  <2>1. buffer' \in Seq(BOOLEAN) /\ Len(buffer') = Len(buffer) + 1
    BY <1>6, OneByte DEF StoreByte, Byte
  <2> QED
    BY <1>6, <2>1 DEF StoreByte
<1>7. CASE NextWord
  BY <1>7 DEF NextWord
<1>8. CASE PluginReturns
  BY <1>8, EmptySeq DEF PluginReturns
<1>9. CASE UNCHANGED vars
  BY <1>9 DEF vars
<1> QED
  BY <1>1, <1>2, <1>3, <1>4, <1>5, <1>6, <1>7, <1>8, <1>9 DEF Next

LEMMA Inductive == Spec => []IInv
BY InitInv, NextInv, PTL DEF Spec

(* The loop's variables stay within their types: in particular the bytes   *)
(* still wanted never become negative.                                     *)
THEOREM ReadTypes == Spec => []TypeOK
<1>1. IInv => TypeOK
  BY DEF IInv
<1> QED
  BY <1>1, Inductive, PTL

(* target_read_string_multibyte never stores past the end of its buffer.   *)
THEOREM NoOverflow == Spec => []BufferFits
<1>1. IInv => BufferFits
  BY DEF IInv
<1> QED
  BY <1>1, Inductive, PTL

-----------------------------------------------------------------------------
(* What the loop has done so far, in terms of the call's own arguments.    *)
Stored  == Len(buffer)
Reading == pc \in {"loop", "scan"}

(* The next byte is that after the bytes counted in nbytes_read, the bytes *)
(* still wanted are the rest of LEN, and what is stored is the debuggee's. *)
CopyInv == /\ Reading => /\ memaddr = start + nbytes_read
                         /\ origlen = nbytes_read + len
                         /\ errcode = 0
           /\ \A n \in DOMAIN buffer : buffer[n] <=> start + n - 1 \in nulls
           /\ pc = "enter" => /\ memaddr = start /\ len = origlen
                              /\ nullcount = 0 /\ charbytecount = 0
                              /\ errcode = 0

(* charbytecount is the place within a character, nullcount the length of  *)
(* the run of null bytes that ends here and began in this character; and   *)
(* no character that is complete is a terminator.                          *)
CharInv ==
    Reading => /\ charbytecount = Stored % charsize
               /\ nullcount <= charbytecount
               /\ \A j \in 1 .. nullcount : start + Stored - j \in nulls
               /\ nullcount < charbytecount
                    => start + Stored - nullcount - 1 \notin nulls
               /\ \A n \in Ends : Stored < n

(* What is stored, and the word being scanned, can be read. *)
ReachInv ==
    Reading => /\ Stored > 0 => base <= start /\ start + Stored <= limit
               /\ pc = "scan" => base <= start /\ memaddr + tlen <= limit

ResultInv == CopyInv /\ CharInv /\ ReachInv /\ ResultCorrect

(* The remainder of a division is the only one in its range. *)
LEMMA ModUnique ==
  ASSUME NEW k \in Int, NEW c \in Nat \ {0}, NEW q \in Int, NEW r \in Int,
         0 <= r, r < c, k = c * q + r
  PROVE  r = k % c
OBVIOUS

(* Counting bytes within a character is counting modulo its size. *)
LEMMA ModStep ==
  ASSUME NEW k \in Nat, NEW c \in Nat \ {0}
  PROVE  /\ k % c \in 0 .. c - 1
         /\ (k + 1) % c = IF (k % c) + 1 = c THEN 0 ELSE (k % c) + 1
<1> DEFINE q == k \div c
           r == k % c
<1>1. q \in Int /\ r \in 0 .. c - 1 /\ k = c * q + r
  OBVIOUS
<1>2. c * (q + 1) = c * q + c
  BY <1>1
<1> HIDE DEF q, r
<1>3. CASE r + 1 = c
  <2>1. k + 1 = c * (q + 1) + 0
    BY <1>1, <1>2, <1>3
  <2>2. 0 = (k + 1) % c
    BY <1>1, <2>1, ModUnique
  <2> QED
    BY <1>1, <1>3, <2>2 DEF r
<1>4. CASE r + 1 # c
  <2>1. k + 1 = c * q + (r + 1)
    BY <1>1
  <2>2. r + 1 = (k + 1) % c
    BY <1>1, <1>4, <2>1, ModUnique
  <2> QED
    BY <1>1, <1>4, <2>2 DEF r
<1> QED
  BY <1>3, <1>4

(* The byte about to be stored is the one after those stored, within LEN   *)
(* and within what can be read.                                            *)
LEMMA NextByte ==
  ASSUME IInv, ResultInv, pc = "scan", i < tlen
  PROVE  /\ Stored \in Nat /\ memaddr + i = start + Stored
         /\ Byte <=> start + Stored \in nulls
         /\ Stored + 1 <= origlen
         /\ base <= start /\ start + Stored + 1 <= limit
         /\ charsize \in Nat \ {0}
         /\ (Stored + 1) % charsize = IF charbytecount + 1 = charsize
                                      THEN 0 ELSE charbytecount + 1
         /\ charbytecount < charsize
<1>1. /\ memaddr = start + nbytes_read /\ Stored = nbytes_read + i
      /\ origlen = nbytes_read + len /\ tlen <= len
      /\ charsize \in 1 .. Word /\ charbytecount = Stored % charsize
      /\ base <= start /\ memaddr + tlen <= limit
  BY DEF IInv, RoomInv, ResultInv, CopyInv, CharInv, ReachInv, Reading, Stored
<1>2. /\ Stored \in Nat /\ charsize \in Nat \ {0}
      /\ memaddr + i = start + Stored
      /\ Stored + 1 <= origlen /\ start + Stored + 1 <= limit
  BY <1>1, ReadAssumption DEF IInv, TypeOK, Stored
<1>3. /\ charbytecount \in 0 .. charsize - 1
      /\ (Stored + 1) % charsize = IF charbytecount + 1 = charsize
                                   THEN 0 ELSE charbytecount + 1
  BY <1>1, <1>2, ModStep
<1> QED
  BY <1>1, <1>2, <1>3 DEF Byte

(* A byte that is not found to end the string does not end it. *)
LEMMA NoEndHere ==
  ASSUME IInv, ResultInv, pc = "scan", i < tlen,
         ~(Byte /\ nullcount + 1 = charsize)
  PROVE  \A n \in Ends : Stored + 1 < n
<1> SUFFICES ASSUME NEW n \in Ends, ~(Stored + 1 < n) PROVE FALSE
  OBVIOUS
<1>1. /\ n \in Nat /\ n % charsize = 0
      /\ \A j \in 1 .. charsize : start + n - j \in nulls
  BY DEF Ends, IInv, TypeOK
<1>2. /\ Stored < n /\ nullcount <= charbytecount
      /\ nullcount < charbytecount => start + Stored - nullcount - 1 \notin nulls
      /\ nullcount \in Nat /\ charbytecount \in Nat /\ start \in Nat
  BY DEF ResultInv, CharInv, Reading, IInv, TypeOK
<1>3. n = Stored + 1
  BY <1>1, <1>2, NextByte
<1>4. charbytecount + 1 = charsize
  BY <1>1, <1>2, <1>3, NextByte
<1>5. Byte
  <2>1. start + n - 1 \in nulls
    BY <1>1, NextByte
  <2>2. start + n - 1 = start + Stored
    BY <1>2, <1>3, NextByte
  <2> QED
    BY <2>1, <2>2, NextByte
<1>6. nullcount < charbytecount
  BY <1>2, <1>4, <1>5
<1>7. start + n - (nullcount + 2) \in nulls
  <2>1. nullcount + 2 \in 1 .. charsize
    BY <1>2, <1>4, <1>6, NextByte
  <2> QED
    BY <1>1, <2>1
<1>8. start + n - (nullcount + 2) = start + Stored - nullcount - 1
  BY <1>2, <1>3, NextByte
<1> QED
  BY <1>2, <1>6, <1>7, <1>8

(* One that is found to end it is the last byte of a null character. *)
LEMMA EndHere ==
  ASSUME IInv, ResultInv, pc = "scan", i < tlen,
         Byte, nullcount + 1 = charsize
  PROVE  Stored + 1 \in Ends
<1>1. /\ nullcount <= charbytecount
      /\ \A j \in 1 .. nullcount : start + Stored - j \in nulls
      /\ nullcount \in Nat /\ charbytecount \in Nat /\ start \in Nat
  BY DEF ResultInv, CharInv, Reading, IInv, TypeOK
<1>2. charbytecount + 1 = charsize
  BY <1>1, NextByte
<1>3. ASSUME NEW j \in 1 .. charsize PROVE start + (Stored + 1) - j \in nulls
  <2>1. CASE j = 1
    <3>1. start + (Stored + 1) - j = start + Stored
      BY <1>1, <2>1, NextByte
    <3> QED
      BY <3>1, NextByte
  <2>2. CASE j # 1
    <3>1. j - 1 \in 1 .. nullcount
      BY <1>1, <2>2, NextByte
    <3>2. start + (Stored + 1) - j = start + Stored - (j - 1)
      BY <1>1, NextByte
    <3> QED
      BY <1>1, <3>1, <3>2
  <2> QED
    BY <2>1, <2>2
<1>4. Stored + 1 \in 1 .. origlen
  BY NextByte DEF IInv, TypeOK
<1> QED
  BY <1>2, <1>3, <1>4, NextByte DEF Ends

-----------------------------------------------------------------------------
(* Storing the next byte keeps the buffer a copy. *)
LEMMA StoreCopies ==
  ASSUME IInv, ResultInv, pc = "scan", i < tlen,
         buffer' = Append(buffer, Byte)
  PROVE  /\ Len(buffer') = Stored + 1
         /\ \A n \in DOMAIN buffer' : buffer'[n] <=> start + n - 1 \in nulls
<1>1. buffer \in Seq(BOOLEAN) /\ Byte \in BOOLEAN /\ start \in Nat
  BY DEF IInv, TypeOK, Byte
<1>2. /\ Len(buffer') = Stored + 1
      /\ \A n \in 1 .. Stored : buffer'[n] = buffer[n]
      /\ buffer'[Stored + 1] = Byte
      /\ DOMAIN buffer' = 1 .. Stored + 1 /\ DOMAIN buffer = 1 .. Stored
  BY <1>1, AppendProperties DEF Stored
<1>3. ASSUME NEW n \in 1 .. Stored + 1
      PROVE  buffer'[n] <=> start + n - 1 \in nulls
  <2>1. CASE n = Stored + 1
    <3>1. start + n - 1 = start + Stored
      BY <1>1, <2>1, NextByte
    <3> QED
      BY <1>2, <2>1, <3>1, NextByte
  <2>2. CASE n # Stored + 1
    <3>1. n \in DOMAIN buffer /\ buffer'[n] = buffer[n]
      BY <1>2, <2>2, NextByte
    <3> QED
      BY <3>1 DEF ResultInv, CopyInv
  <2> QED
    BY <2>1, <2>2
<1> QED
  BY <1>2, <1>3

(* A byte that does not end the string leads to the next one. *)
LEMMA StoreResult ==
  ASSUME IInv, ResultInv, StoreByte
  PROVE  ResultInv'
<1>0. /\ pc = "scan" /\ i < tlen /\ ~(Byte /\ nullcount + 1 = charsize)
      /\ pc' = pc /\ start' = start /\ nulls' = nulls /\ base' = base
      /\ limit' = limit /\ memaddr' = memaddr /\ len' = len /\ tlen' = tlen
      /\ origlen' = origlen /\ nbytes_read' = nbytes_read
      /\ errcode' = errcode /\ charsize' = charsize
      /\ charbytecount' = IF charbytecount + 1 = charsize
                          THEN 0 ELSE charbytecount + 1
      /\ nullcount' = IF charbytecount + 1 = charsize \/ ~Byte
                      THEN 0 ELSE nullcount + 1
      /\ buffer' = Append(buffer, Byte)
  BY DEF StoreByte, input
<1>1. /\ Stored' = Stored + 1
      /\ \A n \in DOMAIN buffer' : buffer'[n] <=> start + n - 1 \in nulls
  BY <1>0, StoreCopies DEF Stored
<1>2. /\ nullcount <= charbytecount
      /\ \A j \in 1 .. nullcount : start + Stored - j \in nulls
      /\ nullcount < charbytecount => start + Stored - nullcount - 1 \notin nulls
      /\ nullcount \in Nat /\ charbytecount \in Nat /\ start \in Nat
  BY <1>0 DEF ResultInv, CharInv, Reading, IInv, TypeOK
<1>3. CopyInv'
  BY <1>0, <1>1 DEF ResultInv, CopyInv, Reading
<1>4. CharInv'
  <2>1. charbytecount' = Stored' % charsize' /\ nullcount' <= charbytecount'
    BY <1>0, <1>1, <1>2, NextByte
  <2>2. ASSUME NEW j \in 1 .. nullcount'
        PROVE  start + (Stored + 1) - j \in nulls
    <3>1. Byte /\ nullcount' = nullcount + 1
      BY <1>0, <1>2
    <3>2. CASE j = 1
      <4>1. start + (Stored + 1) - j = start + Stored
        BY <1>0, <1>2, <3>2, NextByte
      <4> QED
        BY <1>0, <3>1, <4>1, NextByte
    <3>3. CASE j # 1
      <4>1. j - 1 \in 1 .. nullcount
        BY <1>2, <3>1, <3>3
      <4>2. start + (Stored + 1) - j = start + Stored - (j - 1)
        BY <1>0, <1>2, NextByte
      <4> QED
        BY <1>2, <4>1, <4>2
    <3> QED
      BY <3>2, <3>3
  <2>3. ASSUME nullcount' < charbytecount'
        PROVE  start + (Stored + 1) - nullcount' - 1 \notin nulls
    <3>1. CASE ~Byte /\ nullcount' = 0
      <4>1. start + (Stored + 1) - nullcount' - 1 = start + Stored
        BY <1>0, <1>2, <3>1, NextByte
      <4> QED
        BY <1>0, <3>1, <4>1, NextByte
    <3>2. CASE nullcount' = nullcount + 1 /\ charbytecount' = charbytecount + 1
      <4>1. start + (Stored + 1) - nullcount' - 1
              = start + Stored - nullcount - 1
        BY <1>0, <1>2, <3>2, NextByte
      <4>2. nullcount < charbytecount
        BY <1>2, <2>3, <3>2
      <4> QED
        BY <1>2, <4>1, <4>2
    <3> QED
      BY <1>0, <1>2, <2>3, <3>1, <3>2
  <2>4. Ends' = Ends
    BY <1>0 DEF Ends
  <2>5. \A n \in Ends : Stored + 1 < n
    BY <1>0, NoEndHere
  <2> QED
    BY <1>0, <1>1, <2>1, <2>2, <2>3, <2>4, <2>5 DEF CharInv
<1>5. ReachInv'
  BY <1>0, <1>1, <1>2, NextByte DEF ResultInv, ReachInv, Reading
<1> QED
  BY <1>0, <1>3, <1>4, <1>5 DEF ResultInv, ResultCorrect

(* The last byte of the terminator ends the call with the string. *)
LEMMA TerminatorResult ==
  ASSUME IInv, ResultInv, Terminator
  PROVE  ResultInv'
<1>0. /\ pc = "scan" /\ i < tlen /\ Byte /\ nullcount + 1 = charsize
      /\ pc' = "done" /\ start' = start /\ nulls' = nulls /\ base' = base
      /\ limit' = limit /\ origlen' = origlen /\ errcode' = errcode
      /\ charsize' = charsize /\ nbytes_read' = nbytes_read + i + 1
      /\ buffer' = Append(buffer, Byte)
  BY DEF Terminator, input
<1>1. /\ Len(buffer') = Stored + 1
      /\ \A n \in DOMAIN buffer' : buffer'[n] <=> start + n - 1 \in nulls
  BY <1>0, StoreCopies
<1>2. Stored + 1 \in Ends
  BY <1>0, EndHere
<1>3. \A n \in Ends : Stored + 1 <= n
  <2>1. \A n \in Ends : n \in Nat /\ Stored < n
    BY <1>0 DEF ResultInv, CharInv, Reading, Ends, IInv, TypeOK
  <2> QED
    BY <1>0, <2>1, NextByte
<1>4. Ends' = Ends /\ ReadableBytes' = ReadableBytes
  BY <1>0 DEF Ends, ReadableBytes, Readable
<1>5. Stored + 1 <= ReadableBytes
  BY <1>0, NextByte DEF ReadableBytes, Readable, Smaller, IInv, TypeOK
<1>6. nbytes_read' = Stored + 1 /\ errcode' = 0
  BY <1>0 DEF IInv, TypeOK, RoomInv, Stored, ResultInv, CopyInv, Reading
<1>7. ResultCorrect'
  BY <1>0, <1>1, <1>2, <1>3, <1>4, <1>5, <1>6 DEF ResultCorrect
<1> QED
  BY <1>0, <1>1, <1>7
     DEF ResultInv, CopyInv, CharInv, ReachInv, Reading

-----------------------------------------------------------------------------
(* The loop ends at LEN: there is no terminator and LEN bytes are read.    *)
LEMMA ExhaustedResult ==
  ASSUME IInv, ResultInv, Exhausted
  PROVE  ResultInv'
<1>0. /\ pc = "loop" /\ len <= 0 /\ pc' = "done"
      /\ start' = start /\ nulls' = nulls /\ base' = base /\ limit' = limit
      /\ origlen' = origlen /\ errcode' = errcode /\ charsize' = charsize
      /\ nbytes_read' = nbytes_read /\ buffer' = buffer
  BY DEF Exhausted, input
<1>1. /\ Stored = nbytes_read /\ nbytes_read = origlen /\ origlen \in Nat
      /\ errcode = 0 /\ start \in Nat /\ limit \in Nat /\ base \in Nat
      /\ \A n \in Ends : Stored < n /\ n <= origlen /\ n \in Nat
      /\ Stored > 0 => base <= start /\ start + Stored <= limit
  BY <1>0 DEF IInv, TypeOK, RoomInv, ResultInv, CopyInv, CharInv, ReachInv,
              Reading, Stored, Ends
<1>2. Ends = {}
  BY <1>1
<1>3. ReadableBytes = origlen
  BY <1>1 DEF ReadableBytes, Readable, Smaller
<1>4. Ends' = Ends /\ ReadableBytes' = ReadableBytes
  BY <1>0 DEF Ends, ReadableBytes, Readable
<1>5. CopyInv'
  BY <1>0 DEF ResultInv, CopyInv, Reading
<1>6. ResultCorrect'
  BY <1>0, <1>1, <1>2, <1>3, <1>4
     DEF ResultCorrect, Stored, ResultInv, CopyInv
<1> QED
  BY <1>0, <1>5, <1>6 DEF ResultInv, CharInv, ReachInv, Reading

(* It ends with an error at the first byte that cannot be read. *)
LEMMA CannotReadResult ==
  ASSUME IInv, ResultInv, CannotRead
  PROVE  ResultInv'
<1>0. /\ pc = "loop" /\ len > 0 /\ ~Readable(memaddr) /\ pc' = "done"
      /\ start' = start /\ nulls' = nulls /\ base' = base /\ limit' = limit
      /\ origlen' = origlen /\ errcode' = EIO /\ charsize' = charsize
      /\ nbytes_read' = nbytes_read /\ buffer' = buffer
  BY DEF CannotRead, input
<1>1. /\ Stored = nbytes_read /\ nbytes_read < origlen /\ origlen \in Nat
      /\ nbytes_read \in Nat /\ memaddr = start + nbytes_read
      /\ start \in Nat /\ limit \in Nat /\ base \in Nat
      /\ \A n \in Ends : Stored < n /\ n \in Nat
      /\ Stored > 0 => base <= start /\ start + Stored <= limit
  BY <1>0 DEF IInv, TypeOK, RoomInv, ResultInv, CopyInv, CharInv, ReachInv,
              Reading, Stored, Ends
<1>2. ReadableBytes = nbytes_read
  BY <1>0, <1>1 DEF ReadableBytes, Readable, Smaller
<1>3. ~\E n \in Ends : n <= ReadableBytes
  BY <1>1, <1>2
<1>4. Ends' = Ends /\ ReadableBytes' = ReadableBytes
  BY <1>0 DEF Ends, ReadableBytes, Readable
<1>5. CopyInv'
  BY <1>0 DEF ResultInv, CopyInv, Reading
<1>6. ResultCorrect'
  BY <1>0, <1>1, <1>2, <1>3, <1>4
     DEF ResultCorrect, Stored, ResultInv, CopyInv
<1> QED
  BY <1>0, <1>5, <1>6 DEF ResultInv, CharInv, ReachInv, Reading

(* The word that is read, or the byte, is readable up to where it is used. *)
LEMMA ReadWordResult ==
  ASSUME IInv, ResultInv, ReadWord
  PROVE  ResultInv'
<1>0. /\ pc = "loop" /\ pc' = "scan" /\ tlen' = Taken /\ len > 0
      /\ WordReadable \/ Readable(memaddr)
      /\ start' = start /\ nulls' = nulls /\ base' = base /\ limit' = limit
      /\ origlen' = origlen /\ errcode' = errcode /\ charsize' = charsize
      /\ nbytes_read' = nbytes_read /\ buffer' = buffer /\ memaddr' = memaddr
      /\ len' = len /\ nullcount' = nullcount
      /\ charbytecount' = charbytecount
  BY DEF ReadWord, input, scan
<1>1. /\ Stored = nbytes_read /\ nbytes_read \in Nat /\ memaddr \in Nat
      /\ memaddr = start + nbytes_read /\ len \in Nat
      /\ start \in Nat /\ limit \in Nat /\ base \in Nat
      /\ Stored > 0 => base <= start /\ start + Stored <= limit
  BY <1>0 DEF IInv, TypeOK, RoomInv, ResultInv, CopyInv, ReachInv, Reading,
              Stored
<1>2. memaddr % Word \in 0 .. Word - 1
  BY <1>1, ReadAssumption
<1>3. base <= memaddr /\ memaddr + Taken <= limit
  BY <1>0, <1>1, <1>2, ReadAssumption
     DEF Taken, WordReadable, Readable, Aligned, Smaller
<1>4. base <= start
  BY <1>1, <1>3
<1>5. Ends' = Ends /\ Stored' = Stored
  BY <1>0 DEF Ends, Stored
<1>6. CopyInv'
  BY <1>0 DEF ResultInv, CopyInv, Reading
<1>7. CharInv'
  BY <1>0, <1>5 DEF ResultInv, CharInv, Reading
<1>8. ReachInv'
  BY <1>0, <1>1, <1>3, <1>4, <1>5 DEF ReachInv
<1> QED
  BY <1>0, <1>6, <1>7, <1>8 DEF ResultInv, ResultCorrect

(* A word that was scanned to its end is behind the loop. *)
LEMMA NextWordResult ==
  ASSUME IInv, ResultInv, NextWord
  PROVE  ResultInv'
<1>0. /\ pc = "scan" /\ pc' = "loop" /\ i = tlen /\ memaddr' = memaddr + tlen
      /\ len' = len - tlen /\ nbytes_read' = nbytes_read + tlen
      /\ start' = start /\ nulls' = nulls /\ base' = base /\ limit' = limit
      /\ origlen' = origlen /\ errcode' = errcode /\ charsize' = charsize
      /\ buffer' = buffer /\ nullcount' = nullcount
      /\ charbytecount' = charbytecount
  BY DEF NextWord, input, scan
<1>1. Ends' = Ends /\ Stored' = Stored
  BY <1>0 DEF Ends, Stored
<1>2. CopyInv'
  BY <1>0 DEF ResultInv, CopyInv, Reading, IInv, TypeOK
<1>3. CharInv'
  BY <1>0, <1>1 DEF ResultInv, CharInv, Reading
<1>4. ReachInv'
  BY <1>0, <1>1 DEF ResultInv, ReachInv, Reading
<1> QED
  BY <1>0, <1>2, <1>3, <1>4 DEF ResultInv, ResultCorrect

(* The loop starts with nothing stored. *)
LEMMA AllocateResult ==
  ASSUME IInv, ResultInv, Allocate
  PROVE  ResultInv'
<1>0. /\ pc = "enter" /\ pc' = "loop" /\ ~(charsize < 1 \/ charsize > Word)
      /\ start' = start /\ nulls' = nulls /\ base' = base /\ limit' = limit
      /\ origlen' = origlen /\ errcode' = errcode /\ charsize' = charsize
      /\ nbytes_read' = nbytes_read /\ buffer' = buffer /\ memaddr' = memaddr
      /\ len' = len /\ nullcount' = nullcount
      /\ charbytecount' = charbytecount
  BY DEF Allocate, input, scan
<1>1. /\ buffer = <<>> /\ nbytes_read = 0 /\ charsize \in Nat \ {0}
      /\ Stored = 0 /\ memaddr = start /\ len = origlen /\ errcode = 0
      /\ nullcount = 0 /\ charbytecount = 0 /\ start \in Nat
      /\ origlen \in Nat
  BY <1>0, EmptySeq
     DEF IInv, TypeOK, RoomInv, ResultInv, CopyInv, Stored
<1>2. 0 % charsize = 0
  <2>1. 0 = charsize * 0 + 0
    BY <1>1
  <2> QED
    BY <1>1, <2>1, ModUnique
<1>3. Ends' = Ends /\ Stored' = Stored
  BY <1>0 DEF Ends, Stored
<1>4. \A n \in Ends : 0 < n
  BY <1>1 DEF Ends
<1>5. CopyInv'
  BY <1>0, <1>1 DEF ResultInv, CopyInv
<1>6. CharInv'
  BY <1>0, <1>1, <1>2, <1>3, <1>4 DEF CharInv
<1>7. ReachInv'
  BY <1>0, <1>1, <1>3 DEF ReachInv
<1> QED
  BY <1>0, <1>5, <1>6, <1>7 DEF ResultInv, ResultCorrect

(* Every step preserves the account of what was read. *)
LEMMA ResultStep ==
  ASSUME IInv, ResultInv, [Next]_vars
  PROVE  ResultInv'
<1>1. CASE BadCharSize
  <2>1. /\ pc' = "done" /\ charsize \notin 1 .. Word /\ charsize' = charsize
        /\ buffer' = buffer /\ start' = start /\ nulls' = nulls
    BY <1>1, ReadAssumption DEF BadCharSize, input, IInv, TypeOK
  <2> QED
    BY <2>1 DEF ResultInv, CopyInv, CharInv, ReachInv, ResultCorrect, Reading
<1>2. CASE PluginReturns
  <2>1. /\ pc' = "returned" /\ buffer' = buffer /\ start' = start
        /\ nulls' = nulls
    BY <1>2 DEF PluginReturns, input
  <2> QED
    BY <2>1 DEF ResultInv, CopyInv, CharInv, ReachInv, ResultCorrect, Reading
<1>3. CASE UNCHANGED vars
  <2> USE <1>3 DEF vars
  <2>1. Ends' = Ends /\ ReadableBytes' = ReadableBytes /\ Stored' = Stored
    BY DEF Ends, ReadableBytes, Readable, Stored
  <2>2. CopyInv' /\ ReachInv'
    BY <2>1 DEF ResultInv, CopyInv, ReachInv, Reading
  <2>3. CharInv'
    BY <2>1 DEF ResultInv, CharInv, Reading
  <2>4. ResultCorrect'
    BY <2>1 DEF ResultInv, ResultCorrect
  <2> QED
    BY <2>2, <2>3, <2>4 DEF ResultInv
<1> QED
  BY <1>1, <1>2, <1>3, AllocateResult, ExhaustedResult, CannotReadResult,
     ReadWordResult, TerminatorResult, StoreResult, NextWordResult DEF Next

(* The call returns the string: it stops at the first character of null    *)
(* bytes, reads to the last readable byte although it reads whole words,   *)
(* fails only if that byte comes first, and copies the debuggee's bytes.   *)
THEOREM StringIsRight == Spec => []ResultCorrect
<1>1. Init => ResultInv
  BY ReadAssumption DEF Init, ResultInv, CopyInv, CharInv, ReachInv, Reading,
                        ResultCorrect
<1>2. IInv /\ ResultInv /\ [Next]_vars => ResultInv'
  BY ResultStep
<1>3. ResultInv => ResultCorrect
  BY DEF ResultInv
<1> QED
  BY <1>1, <1>2, <1>3, Inductive, PTL DEF Spec
=============================================================================
