---------------------------- MODULE ReadString ----------------------------
(***************************************************************************)
(* target_read_string_multibyte of gdb/target.c, called for a plugin by    *)
(* dataplugin_read_string of gdb/printcmd.c: a string of characters of     *)
(* charsize bytes is read from the debuggee in aligned words, byte by byte *)
(* where a word runs into unreadable memory, into a buffer that doubles.   *)
(* One behaviour is one call.                                              *)
(***************************************************************************)
EXTENDS Integers, Sequences

CONSTANTS Word,      \* bytes read at a time, sizeof (buf): 8
          Top,       \* addresses are 0 .. Top - 1
          Bases,     \* where the readable memory may begin
          Starts,    \* the values of MEMADDR,
          Lengths,   \*   LEN
          CharSizes  \*   and CHARSIZE a call is made with

ASSUME ReadAssumption ==
    /\ Word \in Nat \ {0}
    /\ Top \in Nat
    /\ Bases \subseteq Nat
    /\ Starts \subseteq Nat
    /\ Lengths \subseteq Nat
    /\ CharSizes \subseteq Int

EIO == 5

VARIABLES nulls,     \* the debuggee's memory: the addresses of null bytes
          base,      \* the first address that can be read, and
          limit,     \*   the first after it that cannot
          start,     \* MEMADDR at the call
          origlen,   \* LEN at the call
          charsize,
          pc,
          memaddr,   \* the next byte to read
          len,       \* bytes still wanted
          tlen,      \* bytes used of the word just read
          i,         \* those looked at so far
          buffer,    \* bytes stored, TRUE for a null byte
          buffer_allocated,
          nullcount,
          charbytecount,
          nbytes_read,
          errcode,
          string     \* what the plugin is given, or <<>> for NULL

input == <<nulls, base, limit, start, origlen, charsize>>
scan  == <<nullcount, charbytecount>>
vars  == <<nulls, base, limit, start, origlen, charsize, pc, memaddr, len,
           tlen, i, buffer, buffer_allocated, nullcount, charbytecount, nbytes_read,
           errcode, string>>

Init == /\ nulls \in SUBSET (0 .. Top - 1)
        /\ base \in Bases
        /\ limit \in base .. Top
        /\ start \in Starts
        /\ origlen \in Lengths
        /\ charsize \in CharSizes
        /\ pc = "enter"
        /\ memaddr = start
        /\ len = origlen
        /\ tlen = 0
        /\ i = 0
        /\ buffer = <<>>
        /\ buffer_allocated = 0
        /\ nullcount = 0
        /\ charbytecount = 0
        /\ nbytes_read = 0
        /\ errcode = 0
        /\ string = <<>>

-----------------------------------------------------------------------------
Aligned == memaddr - (memaddr % Word)                 \* memaddr & ~7
Smaller(a, b) == IF a <= b THEN a ELSE b             \* MIN

(* A character size the word cannot hold is refused. *)
BadCharSize == /\ pc = "enter"
               /\ charsize < 1 \/ charsize > Word
               /\ errcode' = EIO
               /\ pc' = "done"
               /\ UNCHANGED <<input, memaddr, len, tlen, i, buffer,
                              buffer_allocated, scan, nbytes_read, string>>

Allocate == /\ pc = "enter"
            /\ ~(charsize < 1 \/ charsize > Word)
            /\ buffer_allocated' = Word
            /\ pc' = "loop"
            /\ UNCHANGED <<input, memaddr, len, tlen, i, buffer, scan,
                           nbytes_read, errcode, string>>

(* The loop's condition fails: LEN bytes are read. *)
Exhausted == /\ pc = "loop"
             /\ len <= 0
             /\ pc' = "done"
             /\ UNCHANGED <<input, memaddr, len, tlen, i, buffer,
                            buffer_allocated, scan, nbytes_read, errcode,
                            string>>

Readable(a) == base <= a /\ a < limit
WordReadable == Readable(Aligned) /\ Readable(Aligned + Word - 1)

(* Mutant: the last word is taken whole, beyond LEN. *)
TakenBeyondLength == IF WordReadable THEN Word - (memaddr % Word) ELSE 1

(* The bytes one pass takes: what is left of the aligned word if all of it *)
(* can be read, otherwise a single byte.                                   *)
Taken == IF WordReadable
         THEN Smaller(len, Word - (memaddr % Word)) ELSE 1

CannotRead == /\ pc = "loop"
              /\ len > 0
              /\ ~WordReadable /\ ~Readable(memaddr)
              /\ errcode' = EIO
              /\ pc' = "done"
              /\ UNCHANGED <<input, memaddr, len, tlen, i, buffer,
                             buffer_allocated, scan, nbytes_read, string>>

(* Mutant: the buffer grows when it is full, not when it would overflow. *)
ReadWordLateGrowth ==
    /\ pc = "loop"
    /\ len > 0
    /\ WordReadable \/ Readable(memaddr)
    /\ tlen' = Taken
    /\ i' = 0
    /\ buffer_allocated' = IF Len(buffer) >= buffer_allocated
                           THEN 2 * buffer_allocated ELSE buffer_allocated
    /\ pc' = "scan"
    /\ UNCHANGED <<input, memaddr, len, buffer, scan, nbytes_read, errcode,
                   string>>

(* A word, or a byte, is read and the buffer has room for it. *)
ReadWord == /\ pc = "loop"
            /\ len > 0
            /\ WordReadable \/ Readable(memaddr)
            /\ tlen' = Taken
            /\ i' = 0
            /\ buffer_allocated' =
                  IF Len(buffer) + Taken > buffer_allocated
                  THEN 2 * buffer_allocated ELSE buffer_allocated
            /\ pc' = "scan"
            /\ UNCHANGED <<input, memaddr, len, buffer, scan, nbytes_read,
                           errcode, string>>

(* The next byte is stored and counted: charsize null bytes within one     *)
(* character end the string.                                               *)
Byte == memaddr + i \in nulls

Terminator == /\ pc = "scan" /\ i < tlen
              /\ Byte /\ nullcount + 1 = charsize
              /\ buffer' = Append(buffer, Byte)
              /\ nullcount' = nullcount + 1
              /\ nbytes_read' = nbytes_read + i + 1
              /\ pc' = "done"
              /\ UNCHANGED <<input, memaddr, len, tlen, i, buffer_allocated,
                             charbytecount, errcode, string>>

(* Mutant: the null bytes of one character count towards the next. *)
StoreByteNoReset ==
    /\ pc = "scan" /\ i < tlen
    /\ ~(Byte /\ nullcount + 1 = charsize)
    /\ buffer' = Append(buffer, Byte)
    /\ i' = i + 1
    /\ charbytecount' = (charbytecount + 1) % charsize
    /\ nullcount' = IF Byte THEN nullcount + 1 ELSE 0
    /\ UNCHANGED <<input, pc, memaddr, len, tlen, buffer_allocated,
                   nbytes_read, errcode, string>>

StoreByte == /\ pc = "scan" /\ i < tlen
             /\ ~(Byte /\ nullcount + 1 = charsize)
             /\ buffer' = Append(buffer, Byte)
             /\ i' = i + 1
             /\ charbytecount' = IF charbytecount + 1 = charsize
                                 THEN 0 ELSE charbytecount + 1
             /\ nullcount' = IF charbytecount + 1 = charsize \/ ~Byte
                             THEN 0 ELSE nullcount + 1
             /\ UNCHANGED <<input, pc, memaddr, len, tlen, buffer_allocated,
                            nbytes_read, errcode, string>>

NextWord == /\ pc = "scan" /\ i = tlen
            /\ memaddr' = memaddr + tlen
            /\ len' = len - tlen
            /\ nbytes_read' = nbytes_read + tlen
            /\ pc' = "loop"
            /\ UNCHANGED <<input, tlen, i, buffer, buffer_allocated, scan,
                           errcode, string>>

(* dataplugin_read_string frees the buffer of a failed read and returns    *)
(* NULL, else it returns the buffer; the plugin is not told its length.    *)
PluginReturns == /\ pc = "done"
                 /\ string' = IF errcode # 0 THEN <<>> ELSE buffer
                 /\ pc' = "returned"
                 /\ UNCHANGED <<input, memaddr, len, tlen, i, buffer,
                                buffer_allocated, scan, nbytes_read, errcode>>

Next == \/ BadCharSize \/ Allocate \/ Exhausted \/ CannotRead \/ ReadWord
        \/ Terminator \/ StoreByte \/ NextWord \/ PluginReturns

Spec == Init /\ [][Next]_vars

-----------------------------------------------------------------------------
TypeOK == /\ start \in Nat /\ origlen \in Nat /\ charsize \in Int
          /\ base \in Nat /\ limit \in Nat
          /\ pc \in {"enter", "loop", "scan", "done", "returned"}
          /\ memaddr \in Nat /\ len \in Nat
          /\ tlen \in 0 .. Word /\ i \in 0 .. tlen
          /\ buffer \in Seq(BOOLEAN)
          /\ buffer_allocated \in Nat
          /\ nullcount \in Nat /\ charbytecount \in Nat
          /\ nbytes_read \in Nat
          /\ errcode \in {0, EIO}
          /\ string \in Seq(BOOLEAN)

(* No byte is stored past the end of the buffer: one doubling is always    *)
(* enough for the next word, whatever the alignment and the word size.     *)
BufferFits == Len(buffer) <= buffer_allocated

(* What a reader of the string would write down: the first character that  *)
(* is all null bytes, as the number of bytes up to its end.                *)
Ends == {n \in 1 .. origlen :
           n % charsize = 0 /\ \A j \in 1 .. charsize : start + n - j \in nulls}
ReadableBytes == IF ~Readable(start) THEN 0 ELSE Smaller(limit - start, origlen)

(* The call returns exactly the string: it stops at the first terminator   *)
(* that lies on a character boundary, reads up to the last readable byte   *)
(* although it reads whole words, fails only if that byte comes first, and *)
(* copies the debuggee's bytes.                                            *)
ResultCorrect ==
    pc = "done" /\ charsize \in 1 .. Word =>
      /\ nbytes_read = Len(buffer)
      /\ \A n \in DOMAIN buffer : buffer[n] <=> start + n - 1 \in nulls
      /\ IF \E n \in Ends : n <= ReadableBytes
         THEN errcode = 0 /\ nbytes_read \in Ends
                 /\ \A n \in Ends : nbytes_read <= n
         ELSE /\ nbytes_read = ReadableBytes
              /\ errcode = (IF ReadableBytes < origlen THEN EIO ELSE 0)

(* The plugin's string is null-terminated, as the header says of the       *)
(* callback.                                                               *)
PluginStringTerminated ==
    pc = "returned" /\ errcode = 0 /\ charsize \in 1 .. Word =>
      /\ Len(string) >= charsize
      /\ \A j \in 0 .. charsize - 1 : string[Len(string) - j]
=============================================================================
