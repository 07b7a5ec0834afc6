-------------------------- MODULE DataPluginProofs --------------------------
(***************************************************************************)
(* Proofs about DataPlugin for every set of types and libraries.           *)
(*                                                                         *)
(* NoDanglingViewer is not inductive: dataplugin_command decides whether   *)
(* to close the library by comparing two counts of the table, and that     *)
(* comparison protects earlier viewers of the same library only because a  *)
(* load that adds nothing still holds a second handle.  LoadInv says so.   *)
(***************************************************************************)
EXTENDS DataPlugin, FiniteSetTheorems, SequenceTheorems, TLAPS

(* The registered viewers point into libraries with an open handle. *)
TableInv == \A t \in Types : viewers[t] # NoLib => refs[viewers[t]] > 0

(* A load in progress holds a handle of its own.  While it has added       *)
(* nothing that handle comes on top of the one behind earlier viewers;     *)
(* once it has added something the handle is paid for.                     *)
LoadInv == pc \in Loading =>
    /\ lib \in Libs
    /\ refs[lib] > 0
    /\ start <= Elements
    /\ start = Elements /\ ViewersOf(lib) # {} => refs[lib] > 1
    /\ start < Elements
         => refs[lib] <= Cardinality(ViewersOf(lib)) + unwound[lib]

(* The viewer that runs is in the table. *)
CallInv == pc \in InViewer => lib \in Libs /\ ViewersOf(lib) # {}

(* A viewer is looked up for the type of an expression. *)
PrintInv == pc \in {"parse", "evaluate", "name", "lookup"} => cmd.type \in Types

(* Nothing is registered between the count and the entry point's call. *)
DlsymInv == pc = "dlsym" => start = Elements

IInv == /\ TypeOK /\ TableInv /\ LoadInv /\ CallInv /\ PrintInv
        /\ DlsymInv /\ HandlesExplained

USE DEF Loading, InEntry, InViewer, Printing

-----------------------------------------------------------------------------
(* The counts of registered viewers are natural numbers. *)
LEMMA Counts ==
  /\ Elements \in Nat
  /\ \A l : Cardinality(ViewersOf(l)) \in Nat
  /\ \A l : Cardinality(ViewersOf(l)) = 0 <=> ViewersOf(l) = {}
<1>1. IsFiniteSet(Registered)
  BY FS_Subset, ConstantsAssumption DEF Registered
<1>2. ASSUME NEW l PROVE IsFiniteSet(ViewersOf(l))
  BY FS_Subset, ConstantsAssumption DEF ViewersOf
<1> QED
  BY <1>1, <1>2, FS_CardinalityType, FS_EmptySet DEF Elements

(* Filling an empty slot adds one to the table and to its library's count. *)
LEMMA OneMore ==
  ASSUME TypeOK, NEW t \in Types, viewers[t] = NoLib, NEW k \in Libs,
         viewers' = [viewers EXCEPT ![t] = k]
  PROVE  /\ Elements' = Elements + 1
         /\ Cardinality(ViewersOf(k)') = Cardinality(ViewersOf(k)) + 1
         /\ \A l \in Libs : l # k => ViewersOf(l)' = ViewersOf(l)
         /\ ViewersOf(k)' # {}
<1>0. k # NoLib
  BY ConstantsAssumption
<1>1. /\ IsFiniteSet(Registered) /\ t \notin Registered
      /\ Registered' = Registered \union {t}
  <2>1. IsFiniteSet(Registered)
    BY FS_Subset, ConstantsAssumption DEF Registered
  <2> QED
    BY <1>0, <2>1 DEF Registered, TypeOK
<1>2. /\ IsFiniteSet(ViewersOf(k)) /\ t \notin ViewersOf(k)
      /\ ViewersOf(k)' = ViewersOf(k) \union {t}
  <2>1. IsFiniteSet(ViewersOf(k))
    BY FS_Subset, ConstantsAssumption DEF ViewersOf
  <2> QED
    BY <1>0, <2>1 DEF ViewersOf, TypeOK
<1>3. Elements' = Elements + 1
  BY <1>1, FS_AddElement DEF Elements
<1>4. Cardinality(ViewersOf(k)') = Cardinality(ViewersOf(k)) + 1
  BY <1>2, FS_AddElement
<1>5. \A l \in Libs : l # k => ViewersOf(l)' = ViewersOf(l)
  BY ConstantsAssumption DEF ViewersOf, TypeOK
<1> QED
  BY <1>2, <1>3, <1>4, <1>5

-----------------------------------------------------------------------------
(* Where a step leaves the table alone, its counts stay. *)
LEMMA SameCounts ==
  ASSUME UNCHANGED viewers
  PROVE  Elements' = Elements /\ \A l : ViewersOf(l)' = ViewersOf(l)
BY DEF Elements, Registered, ViewersOf

LEMMA InitInv == Init => IInv
<1> SUFFICES ASSUME Init PROVE IInv
  OBVIOUS
<1>1. TypeOK
  BY ConstantsAssumption DEF Init, TypeOK, Idle, Kinds
<1>2. TableInv /\ LoadInv /\ CallInv /\ PrintInv /\ DlsymInv
  BY DEF Init, TableInv, LoadInv, CallInv, PrintInv, DlsymInv
<1>3. HandlesExplained
  BY Counts DEF Init, HandlesExplained
<1> QED
  BY <1>1, <1>2, <1>3 DEF IInv

-----------------------------------------------------------------------------
(* The sequence operators on the cleanup chain stay within Seq(Kinds). *)
LEMMA ChainTypes ==
  ASSUME NEW c \in Seq(Kinds)
  PROVE  /\ SubSeq(c, 1, Len(c) - 1) \in Seq(Kinds)
         /\ \A k \in Kinds : Append(c, k) \in Seq(Kinds)
<1>1. CASE Len(c) = 0
  BY <1>1, SubSeqProperties
<1>2. CASE Len(c) # 0
  BY <1>2, SubSeqProperties
<1> QED
  BY <1>1, <1>2, AppendProperties

(* A throw leaves well-typed values behind. *)
LEMMA ThrowTypes ==
  ASSUME TypeOK, LoadInv, Throw
  PROVE  /\ pc' = "top" /\ lib' = NoLib /\ start' = 0 /\ cmd' = Idle
         /\ chain' \in Seq(Kinds) /\ heap' \subseteq Kinds
         /\ lost' \subseteq Kinds
         /\ unwound' \in [Libs -> Nat]
BY DEF Throw, BackToTop, TypeOK, LoadInv, InChain

(* Every step preserves the types. *)
LEMMA TypeStep ==
  ASSUME IInv, [Next]_vars
  PROVE  TypeOK'
<1> USE ConstantsAssumption DEF IInv, registry, frame, memory
<1> Idle \in [type : Types \union {NoType}, inspect : {0, 1},
             voidprint : BOOLEAN]
  BY DEF Idle
<1>1. ASSUME NEW l \in Libs, LoadPlugin(l) PROVE TypeOK'
  BY <1>1, Counts DEF LoadPlugin, TypeOK
<1>2. CASE FindEntry \/ CallEntry \/ EntryReturns
  BY <1>2 DEF FindEntry, CallEntry, EntryReturns, TypeOK
<1>3. CASE NoEntry \/ DropLibrary
  <2>1. lib \in Libs /\ refs[lib] > 0 /\ Close
    BY <1>3 DEF NoEntry, DropLibrary, LoadInv
  <2>2. refs' \in [Libs -> Nat]
    BY <2>1 DEF Close, TypeOK
  <2> QED
    BY <2>1, <2>2 DEF Close, BackToTop, TypeOK
<1>4. CASE KeepLibrary
  BY <1>4 DEF KeepLibrary, BackToTop, TypeOK
<1>5. ASSUME NEW t \in Types, AddViewer(t) PROVE TypeOK'
  BY <1>5, ThrowTypes DEF AddViewer, TypeOK
<1>6. CASE GetSize \/ ReadString \/ StringReturned
  BY <1>6 DEF GetSize, ReadString, StringReturned, TypeOK, Kinds
<1>7. CASE SizeParsed
  BY <1>7, ChainTypes DEF SizeParsed, PushCleanup, TypeOK, Kinds
<1>8. CASE SizeReturned
  BY <1>8, ChainTypes DEF SizeReturned, PopCleanup, TypeOK
<1>9. ASSUME NEW t \in Types \union {NoType}, NEW i \in {0, 1},
             NEW v \in BOOLEAN, PrintCommand(t, i, v)
      PROVE  TypeOK'
  BY <1>9 DEF PrintCommand, TypeOK
<1>10. CASE FormatDecoded \/ RecordValue
  BY <1>10 DEF FormatDecoded, RecordValue, TypeOK
<1>11. CASE ExpressionParsed \/ Evaluated
  BY <1>11, ChainTypes
     DEF ExpressionParsed, Evaluated, PushCleanup, TypeOK, Kinds
<1>12. CASE TypeNamed
  BY <1>12, ChainTypes DEF TypeNamed, TypeOK, Kinds
<1>13. CASE NoViewer \/ CallViewer
  BY <1>13 DEF NoViewer, CallViewer, TypeOK, PrintInv
<1>14. CASE ViewerReturns \/ PrintReturns
  <2>1. chain' \in Seq(Kinds) /\ heap' \subseteq Kinds /\ lost' = lost
    BY <1>14, ChainTypes DEF ViewerReturns, PrintReturns, PopCleanup, TypeOK
  <2>2. /\ viewers' = viewers /\ refs' = refs /\ unwound' = unwound
        /\ pc' = "top" /\ lib' = NoLib /\ start' = 0 /\ cmd' = Idle
        /\ inspect_it' = 0
    BY <1>14 DEF ViewerReturns, PrintReturns, BackToTop
  <2> QED
    BY <2>1, <2>2 DEF TypeOK
<1>15. CASE Error
  BY <1>15, ThrowTypes DEF Error, TypeOK
<1>16. CASE UNCHANGED vars
  BY <1>16 DEF vars, TypeOK
<1> QED
  BY <1>1, <1>2, <1>3, <1>4, <1>5, <1>6, <1>7, <1>8, <1>9, <1>10, <1>11,
     <1>12, <1>13, <1>14, <1>15, <1>16 DEF Next

-----------------------------------------------------------------------------
(* Closing the library after a load that added nothing, or whose entry     *)
(* point is missing: the viewers of earlier loads keep a handle.           *)
LEMMA CloseSafe ==
  ASSUME IInv, pc \in Loading, start = Elements, Close
  PROVE  TableInv' /\ HandlesExplained'
<1> USE DEF IInv
<1>1. /\ lib \in Libs /\ refs[lib] > 0
      /\ ViewersOf(lib) # {} => refs[lib] > 1
  BY DEF LoadInv
<1>2. /\ refs' = [refs EXCEPT ![lib] = @ - 1]
      /\ viewers' = viewers /\ unwound' = unwound /\ pc' = "top"
  BY DEF Close, BackToTop
<1>3. TableInv'
  <2> SUFFICES ASSUME NEW t \in Types, viewers[t] # NoLib
               PROVE  refs'[viewers[t]] > 0
    BY <1>2 DEF TableInv
  <2>1. viewers[t] = lib => refs[lib] > 1
    BY <1>1 DEF ViewersOf
  <2> QED
    BY <1>1, <1>2, <2>1 DEF TableInv, TypeOK
<1>4. HandlesExplained'
  <2> SUFFICES ASSUME NEW l \in Libs
               PROVE  refs'[l] <= Cardinality(ViewersOf(l)) + unwound[l]
    BY <1>2, SameCounts, Counts DEF HandlesExplained, TypeOK
  <2>1. refs[l] <= Cardinality(ViewersOf(l)) + unwound[l]
                     + (IF lib = l THEN 1 ELSE 0)
    BY DEF HandlesExplained
  <2> QED
    BY <1>1, <1>2, <2>1, Counts DEF TypeOK
<1> QED
  BY <1>3, <1>4

(* A throw out of a load counts the handle it leaves open. *)
LEMMA ThrowExplained ==
  ASSUME IInv, Throw, refs' = refs, viewers' = viewers
  PROVE  TableInv' /\ HandlesExplained'
<1> USE DEF IInv
<1>1. TableInv'
  BY DEF TableInv
<1>2. HandlesExplained'
  <2> SUFFICES ASSUME NEW l \in Libs
               PROVE  refs[l] <= Cardinality(ViewersOf(l)) + unwound'[l]
    <3>1. pc' = "top" /\ unwound' \in [Libs -> Nat]
      BY ThrowTypes
    <3> QED
      BY <3>1, SameCounts, Counts DEF HandlesExplained
  <2>1. refs[l] <= Cardinality(ViewersOf(l)) + unwound[l]
                    + (IF pc \in Loading /\ lib = l THEN 1 ELSE 0)
    BY DEF HandlesExplained
  <2>2. unwound'[l] = unwound[l]
                        + (IF pc \in Loading /\ lib = l THEN 1 ELSE 0)
    BY DEF Throw, TypeOK, LoadInv
  <2> QED
    BY <2>1, <2>2, Counts DEF TypeOK
<1> QED
  BY <1>1, <1>2

(* A registration pays for the handle of the load it belongs to, and a     *)
(* viewer that registers is itself in the table.                           *)
LEMMA AddSafe ==
  ASSUME IInv, NEW t \in Types, AddViewer(t)
  PROVE  /\ TableInv' /\ LoadInv' /\ CallInv' /\ HandlesExplained'
<1> USE DEF IInv
<1>1. PICK k \in Libs : k = lib /\ refs[k] > 0
  <2>1. CASE pc = "entry"
    BY <2>1 DEF LoadInv
  <2>2. CASE pc = "viewer"
    <3>1. PICK u \in Types : viewers[u] = lib /\ lib \in Libs
      BY <2>2 DEF CallInv, ViewersOf
    <3> QED
      BY <3>1, ConstantsAssumption DEF TableInv
  <2> QED
    BY <2>1, <2>2 DEF AddViewer
<1>2. /\ viewers[t] = NoLib /\ viewers' = [viewers EXCEPT ![t] = k]
      /\ refs' = refs
  BY <1>1 DEF AddViewer
<1>3. /\ Elements' = Elements + 1
      /\ Cardinality(ViewersOf(k)') = Cardinality(ViewersOf(k)) + 1
      /\ \A l \in Libs : l # k => ViewersOf(l)' = ViewersOf(l)
      /\ ViewersOf(k)' # {}
  BY <1>2, OneMore
<1>4. TableInv'
  BY <1>1, <1>2 DEF TableInv, TypeOK
<1>5. ASSUME NEW l \in Libs
      PROVE  refs'[l] <= Cardinality(ViewersOf(l)') + unwound[l]
  <2>1. refs[l] <= Cardinality(ViewersOf(l)) + unwound[l]
                    + (IF l = k THEN 1 ELSE 0)
    BY <1>1, Counts DEF HandlesExplained, TypeOK
  <2> QED
    BY <1>2, <1>3, <2>1, Counts DEF TypeOK
<1>6. CASE UNCHANGED <<pc, frame, memory, unwound>>
  <2> USE <1>6 DEF frame
  <2>1. HandlesExplained'
    <3> SUFFICES ASSUME NEW l \in Libs
                 PROVE  refs'[l] <= Cardinality(ViewersOf(l)') + unwound[l]
                           + (IF pc \in Loading /\ lib = l THEN 1 ELSE 0)
      BY DEF HandlesExplained
    <3>1. Cardinality(ViewersOf(l)') \in Nat
      BY <1>3, Counts
    <3> QED
      BY <1>2, <1>5, <3>1 DEF TypeOK
  <2>2. LoadInv'
    <3> SUFFICES ASSUME pc \in Loading PROVE LoadInv'
      BY DEF LoadInv
    <3>1. start <= Elements /\ lib' = k /\ start' = start
      BY <1>1 DEF LoadInv
    <3>2. start < Elements'
      BY <3>1, <1>3, Counts DEF TypeOK
    <3>3. refs'[k] <= Cardinality(ViewersOf(k)') + unwound'[k]
      BY <1>5
    <3>4. ViewersOf(lib)' = ViewersOf(k)'
      BY <3>1 DEF ViewersOf
    <3>5. /\ start' <= Elements' /\ start' # Elements'
      BY <3>1, <3>2, <1>3, Counts DEF TypeOK
    <3> QED
      BY <1>1, <1>2, <3>1, <3>3, <3>4, <3>5 DEF LoadInv
  <2>3. CallInv'
    BY <1>1, <1>3 DEF CallInv, ViewersOf
  <2> QED
    BY <1>4, <2>1, <2>2, <2>3
<1>7. CASE Throw
  <2>1. pc' = "top"
    BY <1>7 DEF Throw, BackToTop
  <2>2. \A l \in Libs : unwound'[l] >= unwound[l] /\ unwound'[l] \in Nat
    BY <1>7, <1>1 DEF Throw, TypeOK, LoadInv
  <2>3. HandlesExplained'
    <3> SUFFICES ASSUME NEW l \in Libs
                 PROVE  refs'[l] <= Cardinality(ViewersOf(l)') + unwound'[l]
      <4>1. \A l \in Libs : Cardinality(ViewersOf(l)') \in Nat
        BY <1>3, Counts
      <4> QED
        BY <2>1, <2>2, <4>1 DEF HandlesExplained
    <3>1. Cardinality(ViewersOf(l)') \in Nat
      BY <1>3, Counts
    <3> QED
      BY <1>2, <1>5, <2>2, <3>1 DEF TypeOK
  <2> QED
    BY <1>4, <2>1, <2>3 DEF LoadInv, CallInv
<1> QED
  BY <1>6, <1>7 DEF AddViewer

-----------------------------------------------------------------------------
(* A step that keeps the registry, the library and the counts of the load  *)
(* in progress disturbs nothing, whichever part of the command it leads to *)
(* within the same call.                                                   *)
LEMMA FrameSafe ==
  ASSUME IInv, registry' = registry, lib' = lib, start' = start,
         pc' \in Loading <=> pc \in Loading,
         pc' \in InViewer => pc \in InViewer
  PROVE  TableInv' /\ LoadInv' /\ CallInv' /\ HandlesExplained'
<1> USE DEF IInv
<1>1. /\ viewers' = viewers /\ refs' = refs /\ unwound' = unwound
      /\ Elements' = Elements /\ \A l : ViewersOf(l)' = ViewersOf(l)
      /\ ViewersOf(lib)' = ViewersOf(lib)
  BY SameCounts DEF registry, ViewersOf
<1>2. TableInv'
  BY <1>1 DEF TableInv
<1>3. LoadInv'
  BY <1>1 DEF LoadInv
<1>4. CallInv'
  BY <1>1 DEF CallInv
<1>5. HandlesExplained'
  <2> SUFFICES ASSUME NEW l \in Libs
               PROVE  refs[l] <= Cardinality(ViewersOf(l)) + unwound[l]
                         + (IF pc' \in Loading /\ lib' = l THEN 1 ELSE 0)
    BY <1>1 DEF HandlesExplained
  <2> QED
    BY DEF HandlesExplained
<1> QED
  BY <1>2, <1>3, <1>4, <1>5

(* The command loop has nothing in progress. *)
LEMMA TopSafe ==
  ASSUME IInv, registry' = registry, pc' = "top", lib' = NoLib,
         pc \in Loading => start < Elements
  PROVE  TableInv' /\ LoadInv' /\ CallInv' /\ HandlesExplained'
<1> USE DEF IInv
<1>1. viewers' = viewers /\ refs' = refs /\ unwound' = unwound
  BY DEF registry
<1>2. TableInv' /\ LoadInv' /\ CallInv'
  BY <1>1 DEF TableInv, LoadInv, CallInv
<1>3. HandlesExplained'
  <2> SUFFICES ASSUME NEW l \in Libs
               PROVE  refs[l] <= Cardinality(ViewersOf(l)) + unwound[l]
    BY <1>1, SameCounts, Counts DEF HandlesExplained, TypeOK
  <2> QED
    BY Counts DEF HandlesExplained, LoadInv, TypeOK
<1> QED
  BY <1>2, <1>3

(* Opening a library puts the new handle on top of the old ones. *)
LEMMA LoadSafe ==
  ASSUME IInv, NEW l \in Libs, LoadPlugin(l)
  PROVE  TableInv' /\ LoadInv' /\ CallInv' /\ HandlesExplained'
<1> USE DEF IInv
<1>1. /\ pc = "top" /\ pc' = "dlsym" /\ lib' = l /\ start' = Elements
      /\ refs' = [refs EXCEPT ![l] = @ + 1]
      /\ viewers' = viewers /\ unwound' = unwound
      /\ Elements' = Elements /\ \A k : ViewersOf(k)' = ViewersOf(k)
      /\ ViewersOf(l)' = ViewersOf(l)
  BY SameCounts DEF LoadPlugin, ViewersOf
<1>2. \A k \in Libs : refs'[k] = refs[k] + (IF k = l THEN 1 ELSE 0)
  BY <1>1 DEF TypeOK
<1>3. TableInv'
  BY <1>1, <1>2 DEF TableInv, TypeOK
<1>4. LoadInv'
  <2>1. \A t \in Types : viewers[t] = l => refs[l] > 0
    BY ConstantsAssumption DEF TableInv
  <2>2. ViewersOf(lib)' # {} => refs'[l] > 1
    BY <1>1, <1>2, <2>1 DEF ViewersOf, TypeOK
  <2>3. refs'[l] > 0
    BY <1>2 DEF TypeOK
  <2> QED
    BY <1>1, <2>2, <2>3, Counts DEF LoadInv
<1>5. HandlesExplained'
  <2> SUFFICES ASSUME NEW k \in Libs
               PROVE  refs'[k] <= Cardinality(ViewersOf(k)) + unwound[k]
                                   + (IF k = l THEN 1 ELSE 0)
    BY <1>1 DEF HandlesExplained
  <2>1. refs[k] <= Cardinality(ViewersOf(k)) + unwound[k]
    BY <1>1, Counts DEF HandlesExplained, TypeOK
  <2> QED
    BY <1>2, <2>1, Counts DEF TypeOK
<1> QED
  BY <1>1, <1>3, <1>4, <1>5 DEF CallInv

(* A viewer is called through the table. *)
LEMMA CallSafe ==
  ASSUME IInv, CallViewer
  PROVE  TableInv' /\ LoadInv' /\ CallInv' /\ HandlesExplained'
<1> USE DEF IInv
<1>1. /\ viewers' = viewers /\ refs' = refs /\ unwound' = unwound
      /\ pc = "lookup" /\ pc' = "viewer" /\ lib' = viewers[cmd.type]
      /\ viewers[cmd.type] # NoLib /\ cmd.type \in Types
      /\ \A k : ViewersOf(k)' = ViewersOf(k)
  BY SameCounts DEF CallViewer, registry, PrintInv
<1>2. TableInv' /\ LoadInv'
  BY <1>1 DEF TableInv, LoadInv
<1>3. CallInv'
  BY <1>1 DEF CallInv, ViewersOf, TypeOK
<1>4. HandlesExplained'
  BY <1>1 DEF HandlesExplained
<1> QED
  BY <1>2, <1>3, <1>4

(* Every step preserves the safety part of the invariant. *)
LEMMA SafetyStep ==
  ASSUME IInv, [Next]_vars
  PROVE  TableInv' /\ LoadInv' /\ CallInv' /\ HandlesExplained'
<1> DEFINE Safe == TableInv' /\ LoadInv' /\ CallInv' /\ HandlesExplained'
<1>1. ASSUME NEW l \in Libs, LoadPlugin(l) PROVE Safe
  BY <1>1, LoadSafe
<1>2. CASE FindEntry \/ CallEntry \/ EntryReturns
  BY <1>2, FrameSafe DEF FindEntry, CallEntry, EntryReturns, frame
<1>3. CASE NoEntry \/ DropLibrary
  <2>1. start = Elements /\ pc \in Loading /\ Close
    <3>1. CASE NoEntry
      <4>1. pc = "dlsym" /\ Close
        BY <3>1 DEF NoEntry
      <4> QED
        BY <4>1 DEF DlsymInv, IInv
    <3>2. CASE DropLibrary
      BY <3>2, Counts DEF DropLibrary, IInv, LoadInv, TypeOK
    <3> QED
      BY <1>3, <3>1, <3>2
  <2>2. TableInv' /\ HandlesExplained'
    BY <2>1, CloseSafe
  <2> QED
    BY <2>1, <2>2 DEF Close, BackToTop, LoadInv, CallInv
<1>4. CASE KeepLibrary
  BY <1>4, TopSafe DEF KeepLibrary, BackToTop
<1>5. ASSUME NEW t \in Types, AddViewer(t) PROVE Safe
  BY <1>5, AddSafe
<1>6. CASE GetSize \/ SizeParsed \/ SizeReturned \/ ReadString
             \/ StringReturned
  BY <1>6, FrameSafe DEF GetSize, SizeParsed, SizeReturned, ReadString,
                         StringReturned, frame
<1>7. ASSUME NEW t \in Types \union {NoType}, NEW i \in {0, 1},
             NEW v \in BOOLEAN, PrintCommand(t, i, v)
      PROVE  Safe
  BY <1>7, FrameSafe DEF PrintCommand
<1>8. CASE FormatDecoded \/ ExpressionParsed \/ Evaluated \/ TypeNamed
             \/ NoViewer \/ RecordValue
  BY <1>8, FrameSafe DEF FormatDecoded, ExpressionParsed, Evaluated,
                         TypeNamed, NoViewer, RecordValue, frame
<1>9. CASE CallViewer
  BY <1>9, CallSafe
<1>10. CASE ViewerReturns \/ PrintReturns
  BY <1>10, TopSafe DEF ViewerReturns, PrintReturns, BackToTop
<1>11. CASE Error
  <2>1. Throw /\ refs' = refs /\ viewers' = viewers
    BY <1>11 DEF Error
  <2> QED
    BY <2>1, ThrowExplained DEF Throw, BackToTop, LoadInv, CallInv
<1>12. CASE UNCHANGED vars
  BY <1>12, FrameSafe DEF vars, registry
<1> QED
  BY <1>1, <1>2, <1>3, <1>4, <1>5, <1>6, <1>7, <1>8, <1>9, <1>10, <1>11,
     <1>12, ConstantsAssumption DEF Next

(* The steps of a print keep the type they print. *)
LEMMA PrintStep ==
  ASSUME IInv, [Next]_vars
  PROVE  PrintInv'
<1> USE DEF IInv, PrintInv, frame
<1>1. CASE UNCHANGED vars
  BY <1>1 DEF vars
<1>2. CASE FormatDecoded
  BY <1>2 DEF FormatDecoded, TypeOK
<1>3. CASE ExpressionParsed \/ Evaluated \/ TypeNamed
  BY <1>3 DEF ExpressionParsed, Evaluated, TypeNamed
<1>4. CASE ~FormatDecoded /\ ~ExpressionParsed /\ ~Evaluated /\ ~TypeNamed
             /\ Next
  <2>1. pc' \notin {"parse", "evaluate", "name", "lookup"}
    BY <1>4 DEF Next, LoadPlugin, FindEntry, NoEntry, CallEntry,
       EntryReturns, KeepLibrary, DropLibrary, AddViewer, GetSize,
       SizeParsed, SizeReturned, ReadString, StringReturned, PrintCommand,
       NoViewer, CallViewer, ViewerReturns, RecordValue, PrintReturns, Error,
       Throw, Close, BackToTop
  <2> QED
    BY <2>1
<1> QED
  BY <1>1, <1>2, <1>3, <1>4

LEMMA DlsymStep ==
  ASSUME IInv, [Next]_vars
  PROVE  DlsymInv'
<1> USE DEF IInv, DlsymInv, frame, registry
<1>1. CASE UNCHANGED vars
  BY <1>1, SameCounts DEF vars
<1>2. ASSUME NEW l \in Libs, LoadPlugin(l) PROVE DlsymInv'
  BY <1>2, SameCounts DEF LoadPlugin
<1>3. CASE Next /\ \A l \in Libs : ~LoadPlugin(l)
  <2>1. pc' # "dlsym"
    BY <1>3 DEF Next, FindEntry, NoEntry, CallEntry,
       EntryReturns, KeepLibrary, DropLibrary, AddViewer, GetSize,
       SizeParsed, SizeReturned, ReadString, StringReturned, PrintCommand,
       FormatDecoded, ExpressionParsed, Evaluated, TypeNamed, NoViewer,
       CallViewer, ViewerReturns, RecordValue, PrintReturns, Error, Throw,
       Close, BackToTop
  <2> QED
    BY <2>1
<1> QED
  BY <1>1, <1>2, <1>3

-----------------------------------------------------------------------------
LEMMA Inductive == Spec => []IInv
<1>1. Init => IInv
  BY InitInv
<1>2. IInv /\ [Next]_vars => IInv'
  BY TypeStep, SafetyStep, PrintStep, DlsymStep DEF IInv
<1> QED
  BY <1>1, <1>2, PTL DEF Spec

(* The state of the plugin support stays within its types. *)
THEOREM TypeCorrect == Spec => []TypeOK
<1>1. IInv => TypeOK
  BY DEF IInv
<1> QED
  BY <1>1, Inductive, PTL

(* No function of an unmapped library is ever reachable: not through the   *)
(* viewer table, not on the stack of a load or of a print.                 *)
THEOREM NoDangling == Spec => []NoDanglingViewer
<1>1. IInv => NoDanglingViewer
  <2> SUFFICES ASSUME IInv PROVE NoDanglingViewer
    OBVIOUS
  <2>1. ASSUME pc \in InEntry \union InViewer PROVE refs[lib] > 0
    <3>1. CASE pc \in InEntry
      BY <3>1 DEF IInv, LoadInv
    <3>2. CASE pc \in InViewer
      BY <3>2, ConstantsAssumption DEF IInv, CallInv, TableInv, ViewersOf
    <3> QED
      BY <2>1, <3>1, <3>2
  <2> QED
    BY <2>1 DEF IInv, TableInv, NoDanglingViewer, Running
<1> QED
  BY <1>1, Inductive, PTL

(* The leak of library handles is bounded by viewers and cut-short loads.  *)
THEOREM LeakBounded == Spec => []HandlesExplained
<1>1. IInv => HandlesExplained
  BY DEF IInv
<1> QED
  BY <1>1, Inductive, PTL

-----------------------------------------------------------------------------
(* The set of mapped libraries, as the abstract table sees it. *)
MappedLibs == {l \in Libs : refs[l] > 0}

(* A step that calls no library code and returns from none. *)
LEMMA StutterStep ==
  ASSUME registry' = registry, lib' = lib,
         pc' \in InEntry \union InViewer <=> pc \in InEntry \union InViewer
  PROVE  UNCHANGED <<viewers, MappedLibs, Running>>
BY DEF registry, MappedLibs, Running

(* dlclose unmaps a library only when no viewer is in it. *)
LEMMA CloseMaps ==
  ASSUME IInv, pc \in {"dlsym", "count"}, start = Elements, Close
  PROVE  \/ \E l \in Libs : Table!Unmap(l)
         \/ UNCHANGED <<viewers, MappedLibs, Running>>
<1> USE DEF IInv, MappedLibs
<1>1. PICK l \in Libs : /\ l = lib /\ l # NoLib /\ refs[l] > 0
                        /\ ViewersOf(l) # {} => refs[l] > 1
  BY ConstantsAssumption DEF LoadInv
<1>2. /\ refs' = [refs EXCEPT ![l] = @ - 1] /\ viewers' = viewers
      /\ Running = NoLib /\ Running' = NoLib
  BY <1>1 DEF Close, BackToTop, Running
<1>3. CASE refs[l] = 1
  <2>1. MappedLibs' = MappedLibs \ {l}
    BY <1>2, <1>3 DEF TypeOK
  <2>2. \A t \in Types : viewers[t] # l
    BY <1>1, <1>3 DEF ViewersOf
  <2>3. Table!Unmap(l)
    BY <1>1, <1>2, <2>1, <2>2 DEF Table!Unmap
  <2> QED
    BY <2>3
<1>4. CASE refs[l] # 1
  <2>1. MappedLibs' = MappedLibs
    BY <1>1, <1>2, <1>4 DEF TypeOK
  <2> QED
    BY <1>2, <2>1
<1> QED
  BY <1>3, <1>4

(* Leaving library code, by a return or by a throw. *)
LEMMA LeaveStep ==
  ASSUME viewers' = viewers, refs' = refs, pc' \notin InEntry \union InViewer
  PROVE  Table!Return
BY DEF Table!Return, Running

(* Every step of the code is a step of the table or leaves it alone. *)
LEMMA TableStep ==
  ASSUME IInv, [Next]_vars
  PROVE  [Table!TNext]_(Table!tvars)
<1> USE DEF IInv, MappedLibs, Table!TNext, Table!tvars
<1> DEFINE Goal == [Table!TNext]_(Table!tvars)
<1>1. ASSUME NEW l \in Libs, LoadPlugin(l) PROVE Goal
  <2>1. /\ Running = NoLib /\ Running' = NoLib /\ viewers' = viewers
        /\ refs' = [refs EXCEPT ![l] = @ + 1]
    BY <1>1 DEF LoadPlugin, Running
  <2>2. MappedLibs' = MappedLibs \union {l}
    BY <2>1 DEF TypeOK
  <2> QED
    BY <2>1, <2>2 DEF Table!Map
<1>2. CASE NoEntry \/ DropLibrary
  <2>1. pc \in {"dlsym", "count"} /\ start = Elements /\ Close
    BY <1>2, Counts DEF NoEntry, DropLibrary, DlsymInv, LoadInv, TypeOK
  <2> QED
    BY <2>1, CloseMaps
<1>3. CASE CallEntry
  <2>1. lib \in MappedLibs /\ Running = NoLib /\ Running' = lib
    BY <1>3 DEF CallEntry, LoadInv, Running, frame
  <2> QED
    BY <1>3, <2>1 DEF CallEntry, Table!Call, registry
<1>4. CASE CallViewer
  <2>1. viewers[cmd.type] \in MappedLibs
    BY <1>4 DEF CallViewer, TableInv, PrintInv, TypeOK
  <2>2. Running = NoLib /\ Running' = viewers[cmd.type]
    BY <1>4 DEF CallViewer, Running
  <2> QED
    BY <1>4, <2>1, <2>2 DEF CallViewer, Table!Call, registry
<1>5. ASSUME NEW t \in Types, AddViewer(t) PROVE Goal
  <2>1. /\ Running = lib /\ lib # NoLib /\ Running' \in {Running, NoLib}
    BY <1>5, ConstantsAssumption
       DEF AddViewer, Running, LoadInv, CallInv, frame, Throw, BackToTop
  <2> QED
    BY <1>5, <2>1 DEF AddViewer, Table!Register
<1>6. CASE EntryReturns \/ ViewerReturns \/ KeepLibrary \/ PrintReturns
             \/ Error
  <2>1. viewers' = viewers /\ refs' = refs
          /\ pc' \notin InEntry \union InViewer
    BY <1>6 DEF EntryReturns, ViewerReturns, KeepLibrary, PrintReturns, Error,
                registry, Throw, BackToTop
  <2> QED
    BY <2>1, LeaveStep
<1>7. CASE \/ FindEntry \/ GetSize \/ SizeParsed \/ SizeReturned
           \/ ReadString \/ StringReturned
           \/ FormatDecoded \/ ExpressionParsed \/ Evaluated \/ TypeNamed
           \/ NoViewer \/ RecordValue
           \/ \E t \in Types \union {NoType}, i \in {0, 1}, v \in BOOLEAN :
                  PrintCommand(t, i, v)
           \/ UNCHANGED vars
  BY <1>7, StutterStep
     DEF FindEntry, GetSize, SizeParsed, SizeReturned, ReadString,
         StringReturned, FormatDecoded,
         ExpressionParsed, Evaluated, TypeNamed, NoViewer, RecordValue,
         PrintCommand, frame, vars, registry
<1> QED
  BY <1>1, <1>2, <1>3, <1>4, <1>5, <1>6, <1>7, ConstantsAssumption DEF Next

(* dataplugin_command, its callbacks and print_command_1 implement the     *)
(* viewer table: a registration is final, and no library is unmapped under *)
(* a viewer or under its own running code.                                 *)
THEOREM Refinement == Spec => ImplementsTable
<1>1. Init => Table!TInit
  BY DEF Init, Table!TInit, Running
<1>2. IInv /\ [Next]_vars => [Table!TNext]_(Table!tvars)
  BY TableStep
<1> QED
  BY <1>1, <1>2, Inductive, PTL DEF Spec, ImplementsTable, Table!TSpec

-----------------------------------------------------------------------------
(* The cleanup chain and the heap of a command in progress, step by step.  *)
(* CleanupsCoverHeap looks at the command loop only; what makes it true is *)
(* that at every point between, a throw would find all but the copy of a   *)
(* size expression and the buffer of a string in the chain.                *)
MemoryInv ==
    /\ lost \subseteq {"sizeexp", "string"}
    /\ pc \in {"top", "dlsym", "call", "entry", "count", "format", "parse"}
         => chain = <<>> /\ heap = {}
    /\ pc = "entry_parse" => chain = <<>> /\ heap = {"sizeexp"}
    /\ pc = "entry_size"
         => chain = <<"sizeexpr">> /\ heap = {"sizeexp", "sizeexpr"}
    /\ pc \in {"evaluate", "viewer"} => chain = <<"expr">> /\ heap = {"expr"}
    /\ pc = "name"
         => chain = <<"expr", "memfile">> /\ heap = {"expr", "memfile"}
    /\ pc = "lookup" => chain = <<"expr">> /\ heap = {"expr", "typestr"}
    /\ pc = "viewer_parse" => chain = <<"expr">> /\ heap = {"expr", "sizeexp"}
    /\ pc = "viewer_read" => chain = <<"expr">> /\ heap = {"expr", "string"}
    /\ pc = "viewer_size"
         => /\ chain = <<"expr", "sizeexpr">>
            /\ heap = {"expr", "sizeexp", "sizeexpr"}
    /\ pc \in {"record", "show"}
         => IF cmd.type = NoType THEN chain = <<>> /\ heap = {}
                                 ELSE chain = <<"expr">> /\ heap = {"expr"}

(* Pushing a cleanup on the chains that occur. *)
LEMMA PushOne ==
  ASSUME NEW a \in Kinds, NEW b \in Kinds
  PROVE  Append(<<>>, a) = <<a>> /\ Append(<<a>>, b) = <<a, b>>
<1>1. <<a>> \in Seq(Kinds) /\ <<a, b>> \in Seq(Kinds)
  OBVIOUS
<1>2. /\ Append(<<a>>, b) \in Seq(Kinds)
      /\ Len(Append(<<a>>, b)) = 2 /\ Len(<<a, b>>) = 2
      /\ Append(<<a>>, b)[1] = a /\ Append(<<a>>, b)[2] = b
  BY <1>1, AppendProperties
<1>3. \A k \in 1 .. 2 : Append(<<a>>, b)[k] = <<a, b>>[k]
  BY <1>2
<1>4. Append(<<a>>, b) = <<a, b>>
  BY <1>1, <1>2, <1>3, SeqEqual
<1>5. Append(<<>>, a) = <<a>>
  OBVIOUS
<1> QED
  BY <1>4, <1>5

(* Popping the only cleanup of a chain. *)
LEMMA PopOnly ==
  ASSUME NEW c, NEW a \in Kinds, c = <<a>>
  PROVE  SubSeq(c, 1, Len(c) - 1) = <<>> /\ c[Len(c)] = a
OBVIOUS

(* Popping the second of two. *)
LEMMA PopSecond ==
  ASSUME NEW c, NEW a \in Kinds, NEW b \in Kinds, c = <<a, b>>
  PROVE  SubSeq(c, 1, Len(c) - 1) = <<a>> /\ c[Len(c)] = b
<1>1. Len(c) = 2 /\ c[1] = a /\ c[2] = b
  OBVIOUS
<1>2. /\ SubSeq(c, 1, 1) \in Seq(Kinds) /\ Len(SubSeq(c, 1, 1)) = 1
      /\ SubSeq(c, 1, 1)[1] = a
  BY <1>1, SubSeqProperties
<1>3. <<a>> \in Seq(Kinds) /\ Len(<<a>>) = 1 /\ <<a>>[1] = a
  OBVIOUS
<1>4. SubSeq(c, 1, 1) = <<a>>
  <2>1. \A k \in 1 .. 1 : SubSeq(c, 1, 1)[k] = <<a>>[k]
    BY <1>2, <1>3
  <2> QED
    BY <1>2, <1>3, <2>1, SeqEqual
<1> QED
  BY <1>1, <1>4

(* A throw frees what the chain knows of, and outside the lookup of a      *)
(* viewer that is all but those two blocks.                                *)
LEMMA ThrowMemory ==
  ASSUME MemoryInv, TypeOK, Throw, pc # "lookup"
  PROVE  MemoryInv'
<1>1. heap \ InChain \subseteq {"sizeexp", "string"}
  <2>1. /\ chain = <<"expr">> => "expr" \in InChain
        /\ chain = <<"sizeexpr">> => "sizeexpr" \in InChain
        /\ chain = <<"expr", "memfile">>
             => "expr" \in InChain /\ "memfile" \in InChain
        /\ chain = <<"expr", "sizeexpr">>
             => "expr" \in InChain /\ "sizeexpr" \in InChain
    <3>1. chain = <<"expr">> => 1 \in DOMAIN chain /\ chain[1] = "expr"
      OBVIOUS
    <3>2. chain = <<"sizeexpr">>
            => 1 \in DOMAIN chain /\ chain[1] = "sizeexpr"
      OBVIOUS
    <3>3. chain = <<"expr", "memfile">>
            => /\ 1 \in DOMAIN chain /\ chain[1] = "expr"
               /\ 2 \in DOMAIN chain /\ chain[2] = "memfile"
      OBVIOUS
    <3>4. chain = <<"expr", "sizeexpr">>
            => /\ 1 \in DOMAIN chain /\ chain[1] = "expr"
               /\ 2 \in DOMAIN chain /\ chain[2] = "sizeexpr"
      OBVIOUS
    <3> QED
      BY <3>1, <3>2, <3>3, <3>4 DEF InChain
  <2> QED
    BY <2>1 DEF MemoryInv, TypeOK
<1>2. /\ pc' = "top" /\ chain' = <<>> /\ heap' = {}
      /\ lost' \subseteq {"sizeexp", "string"}
  BY <1>1 DEF Throw, BackToTop, MemoryInv
<1> QED
  BY <1>2 DEF MemoryInv

(* Every step keeps the chain and the heap in step with each other. *)
LEMMA MemoryStep ==
  ASSUME IInv, MemoryInv, [Next]_vars
  PROVE  MemoryInv'
<1> USE DEF MemoryInv, registry, frame, memory
<1>0. /\ "expr" \in Kinds /\ "memfile" \in Kinds /\ "sizeexpr" \in Kinds
      /\ TypeOK /\ PrintInv /\ NoType \notin Types
  BY ConstantsAssumption DEF Kinds, IInv
<1>1. CASE \E l \in Libs : LoadPlugin(l)
  BY <1>1 DEF LoadPlugin
<1>2. CASE FindEntry \/ CallEntry \/ EntryReturns
  BY <1>2 DEF FindEntry, CallEntry, EntryReturns
<1>3. CASE NoEntry \/ KeepLibrary \/ DropLibrary
  BY <1>3 DEF NoEntry, KeepLibrary, DropLibrary, Close, BackToTop
<1>4. CASE \E t \in Types : AddViewer(t)
  <2>1. pc \in {"entry", "viewer"}
    BY <1>4 DEF AddViewer
  <2>2. CASE Throw
    BY <1>0, <2>1, <2>2, ThrowMemory
  <2>3. CASE UNCHANGED <<pc, frame, memory, unwound>>
    BY <2>1, <2>3
  <2> QED
    BY <1>4, <2>2, <2>3 DEF AddViewer
<1>5. CASE GetSize \/ ReadString \/ StringReturned
  BY <1>5 DEF GetSize, ReadString, StringReturned
<1>6. CASE SizeParsed
  <2>1. CASE pc = "entry_parse"
    <3>1. /\ chain' = <<"sizeexpr">> /\ heap' = {"sizeexp", "sizeexpr"}
          /\ pc' = "entry_size" /\ lost' = lost
      BY <1>0, <1>6, <2>1, PushOne DEF SizeParsed, PushCleanup
    <3> QED
      BY <3>1
  <2>2. CASE pc = "viewer_parse"
    <3>1. /\ chain' = <<"expr", "sizeexpr">>
          /\ heap' = {"expr", "sizeexp", "sizeexpr"}
          /\ pc' = "viewer_size" /\ lost' = lost
      BY <1>0, <1>6, <2>2, PushOne DEF SizeParsed, PushCleanup
    <3> QED
      BY <3>1
  <2> QED
    BY <1>6, <2>1, <2>2 DEF SizeParsed
<1>7. CASE SizeReturned
  <2>1. CASE pc = "entry_size"
    <3>1. chain' = <<>> /\ heap' = {} /\ pc' = "entry" /\ lost' = lost
      BY <1>0, <1>7, <2>1, PopOnly DEF SizeReturned, PopCleanup
    <3> QED
      BY <3>1
  <2>2. CASE pc = "viewer_size"
    <3>1. /\ chain' = <<"expr">> /\ heap' = {"expr"} /\ pc' = "viewer"
          /\ lost' = lost
      BY <1>0, <1>7, <2>2, PopSecond DEF SizeReturned, PopCleanup
    <3> QED
      BY <3>1
  <2> QED
    BY <1>7, <2>1, <2>2 DEF SizeReturned
<1>8. ASSUME NEW t, NEW k, NEW v, PrintCommand(t, k, v) PROVE MemoryInv'
  BY <1>8 DEF PrintCommand
<1>9. CASE FormatDecoded
  BY <1>9 DEF FormatDecoded
<1>10. CASE ExpressionParsed
  <2>1. /\ chain' = <<"expr">> /\ heap' = {"expr"} /\ pc' = "evaluate"
        /\ lost' = lost
    BY <1>0, <1>10, PushOne DEF ExpressionParsed, PushCleanup
  <2> QED
    BY <2>1
<1>11. CASE Evaluated
  <2>1. /\ chain' = <<"expr", "memfile">> /\ heap' = {"expr", "memfile"}
        /\ pc' = "name" /\ lost' = lost
    BY <1>0, <1>11, PushOne DEF Evaluated, PushCleanup
  <2> QED
    BY <2>1
<1>12. CASE TypeNamed
  <2>1. /\ chain' = <<"expr">> /\ heap' = {"expr", "typestr"}
        /\ pc' = "lookup" /\ lost' = lost
    BY <1>0, <1>12, PopSecond DEF TypeNamed
  <2> QED
    BY <2>1
<1>13. CASE NoViewer \/ CallViewer
  BY <1>0, <1>13 DEF NoViewer, CallViewer, PrintInv
<1>14. CASE ViewerReturns
  <2>1. chain' = <<>> /\ heap' = {} /\ pc' = "top" /\ lost' = lost
    BY <1>0, <1>14, PopOnly DEF ViewerReturns, PopCleanup, BackToTop
  <2> QED
    BY <2>1
<1>15. CASE RecordValue
  BY <1>15 DEF RecordValue
<1>16. CASE PrintReturns
  <2>1. chain' = <<>> /\ heap' = {} /\ pc' = "top" /\ lost' = lost
    <3>1. CASE cmd.type = NoType
      BY <1>16, <3>1 DEF PrintReturns, BackToTop
    <3>2. CASE cmd.type # NoType
      BY <1>0, <1>16, <3>2, PopOnly DEF PrintReturns, PopCleanup, BackToTop
    <3> QED
      BY <3>1, <3>2
  <2> QED
    BY <2>1
<1>17. CASE Error
  <2>1. Throw /\ pc # "lookup"
    BY <1>17 DEF Error
  <2> QED
    BY <1>0, <2>1, ThrowMemory
<1>18. CASE UNCHANGED vars
  BY <1>18 DEF vars
<1> QED
  BY <1>1, <1>2, <1>3, <1>4, <1>5, <1>6, <1>7, <1>8, <1>9, <1>10, <1>11,
     <1>12, <1>13, <1>14, <1>15, <1>16, <1>17, <1>18 DEF Next

(* However a command ends, what gdb allocated for it is freed, but for the *)
(* copy of a size expression and the buffer of a string being read, which  *)
(* dataplugin_get_size and target_read_string_multibyte tell no cleanup of.*)
THEOREM NothingElseLost == Spec => []CleanupsCoverHeap
<1>1. Init => MemoryInv
  BY DEF Init, MemoryInv
<1>2. IInv /\ MemoryInv /\ [Next]_vars => MemoryInv'
  BY MemoryStep
<1>3. MemoryInv => CleanupsCoverHeap
  BY DEF MemoryInv, CleanupsCoverHeap
<1> QED
  BY <1>1, <1>2, <1>3, Inductive, PTL DEF Spec
=============================================================================
