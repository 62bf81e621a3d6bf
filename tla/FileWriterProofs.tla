-------------------------- MODULE FileWriterProofs --------------------------
(***************************************************************************)
(* Proofs about the file writer, for every set of lines, size limit and    *)
(* clock bound that satisfy FileWriterAssumption.                          *)
(***************************************************************************)
EXTENDS FileWriter, ChannelLemmas, TLAPS

\* A write through a descriptor leaves a file a sequence of items.
LEMMA WriteAtType ==
    ASSUME NEW c \in Seq(Item), NEW o \in Nat, NEW x \in Item
    PROVE  WriteAt(c, o, x) \in Seq(Item)
<1> DEFINE n == IF o + 1 > Len(c) THEN o + 1 ELSE Len(c)
<1>1. n \in Nat /\ Len(c) \in Nat
  BY LenProperties
<1>2. \A i \in 1..Len(c) : c[i] \in Item
  BY ElementOfSeq
<1>3. WriteAt(c, o, x) \in [1..n -> Item]
  BY <1>1, <1>2 DEF WriteAt, Item
<1>. QED
  BY <1>1, <1>3, SeqDef

\* Every outcome of compressLog is a sequence of items.
LEMMA CompressType ==
    ASSUME NEW src \in Seq(Item), NEW old \in Seq(Item)
    PROVE  CompressOutcomes(src, old) \subseteq Seq(Item)
<1>1. \A k \in 0..Len(src) : SubSeq(src, 1, k) \in Seq(Item)
  BY SubSeqProperties
<1>. QED
  BY <1>1 DEF CompressOutcomes

\* The part of the state rotateLog writes, in its type.
RotTyped ==
    /\ file' \in Time \cup {Nil}
    /\ off' \in Nat
    /\ txt' \in [Time -> Seq(Item)]
    /\ out' \in [Time -> Seq(Item)]
    /\ reused' \in BOOLEAN

\* rotateLog keeps the files, the handle and the offset in their types,
\* whichever of its calls fails.
LEMMA RotateLogType ==
    ASSUME TypeOK, NEW f \in Time \cup {Nil}, NEW o \in Nat,
           NEW tx \in [Time -> Seq(Item)], RotateLog(f, o, tx)
    PROVE  RotTyped
<1>1. clock \in Time
  BY DEF TypeOK
<1>2. [tx EXCEPT ![clock] = << >>] \in [Time -> Seq(Item)]
  BY <1>1
<1>3. [[tx EXCEPT ![clock] = << >>] EXCEPT ![clock] = <<"hdr">>]
        \in [Time -> Seq(Item)]
  BY <1>1, <1>2 DEF Item
<1>4. ASSUME f \in Time, NEW c \in CompressOutcomes(txt'[f], out[f]),
             txt' \in [Time -> Seq(Item)]
      PROVE  [out EXCEPT ![f] = c] \in [Time -> Seq(Item)]
  BY <1>4, CompressType DEF TypeOK
<1>5. Nil \in Time \cup {Nil} /\ clock \in Time \cup {Nil}
  BY <1>1
<1>6. CASE /\ IOFail
           /\ file' = f /\ off' = o /\ txt' = tx
           /\ UNCHANGED <<out, reused>>
  BY <1>6 DEF RotTyped, TypeOK
<1>7. CASE /\ IOFail
           /\ file' = f /\ off' = o /\ txt' = [tx EXCEPT ![clock] = << >>]
           /\ reused' = (reused \/ clock = f)
           /\ UNCHANGED out
  BY <1>2, <1>7 DEF RotTyped, TypeOK
<1>8. CASE /\ txt' = [[tx EXCEPT ![clock] = << >>] EXCEPT ![clock] = <<"hdr">>]
           /\ IF f = Nil
                THEN UNCHANGED out
                ELSE \E c \in CompressOutcomes(txt'[f], out[f]) :
                        out' = [out EXCEPT ![f] = c]
           /\ file' = clock /\ off' = 1
           /\ reused' = (reused \/ clock = f)
  <2>1. out' \in [Time -> Seq(Item)]
    <3>1. CASE f = Nil
      BY <1>8, <3>1 DEF TypeOK
    <3>2. CASE f # Nil
      BY <1>8, <3>2, <1>3, <1>4
    <3>. QED
      BY <3>1, <3>2
  <2>. QED
    BY <1>8, <1>3, <1>5, <2>1 DEF RotTyped
<1>. QED
  BY <1>6, <1>7, <1>8 DEF RotateLog

-----------------------------------------------------------------------------
(* Type correctness: the queue never holds more than its capacity of one   *)
(* line, a blocked caller is one that has called Line, and every write,    *)
(* truncation and copy leaves each file a sequence of items.               *)

\* The initial state has the writer's types.
LEMMA TypeInit == Init => TypeOK
<1> SUFFICES ASSUME Init PROVE TypeOK
  OBVIOUS
<1>1. txt \in [Time -> Seq(Item)] /\ out \in [Time -> Seq(Item)]
  BY EmptySeq DEF Init
<1>2. txtQ \in Seq(Lines) /\ Len(txtQ) <= 1 /\ accepted \in Seq(Lines)
  BY EmptySeq DEF Init
<1>3. clock \in Time /\ file \in Time \cup {Nil} /\ off \in Nat
  BY FileWriterAssumption DEF Init, Time, Nil
<1>. QED
  BY <1>1, <1>2, <1>3 DEF Init, TypeOK

\* Every step of the writer, its callers and the clock keeps TypeOK.
LEMMA TypeStep == TypeOK /\ [Next]_vars => TypeOK'
<1> SUFFICES ASSUME TypeOK, [Next]_vars PROVE TypeOK'
  OBVIOUS
<1>1. CASE NewFileWriter
  <2>1. CASE wpc' = "failed" /\ UNCHANGED <<file, off, txt, out, reused, timer>>
    BY <1>1, <2>1 DEF NewFileWriter, TypeOK
  <2>2. CASE wpc' = "loop" /\ RotateLog(Nil, 0, txt) /\ timer' = "armed"
    <3>1. RotTyped
      BY <2>2, RotateLogType DEF TypeOK, Nil
    <3>. QED
      BY <1>1, <2>2, <3>1 DEF NewFileWriter, TypeOK, RotTyped
  <2>. QED
    BY <1>1, <2>1, <2>2 DEF NewFileWriter
<1>2. CASE WriterSig
  BY <1>2 DEF WriterSig, TypeOK
<1>3. CASE WriterTimer
  <2>1. CASE AgeRotation
    <3>1. RotateLog(file, off, txt) /\ timer' = "armed"
      BY <1>3, <2>1 DEF WriterTimer
    <3>2. RotTyped
      BY <3>1, RotateLogType DEF TypeOK
    <3>. QED
      BY <1>3, <3>1, <3>2 DEF WriterTimer, TypeOK, RotTyped
  <2>2. CASE ~AgeRotation
    BY <1>3, <2>2 DEF WriterTimer, TypeOK
  <2>. QED
    BY <2>1, <2>2
<1>4. CASE WriterLine
  <2> DEFINE l == Head(txtQ)
  <2>1. l \in Lines /\ Tail(txtQ) \in Seq(Lines) /\ Len(Tail(txtQ)) <= 1
    BY <1>4, RecvType DEF WriterLine, TypeOK
  <2>2. ASSUME NEW f \in Time \cup {Nil}, NEW o \in Nat,
               NEW tx \in [Time -> Seq(Item)], CheckSize(f, o, tx)
        PROVE  RotTyped /\ wpc' \in {"unbuilt", "failed", "loop", "exited", "panicked"}
    <3>1. CASE SizeLimit = 0 \/ (f # Nil /\ Len(tx[f]) < SizeLimit)
      BY <2>2, <3>1 DEF CheckSize, RotTyped, TypeOK
    <3>2. CASE ~(SizeLimit = 0 \/ (f # Nil /\ Len(tx[f]) < SizeLimit)) /\ f = Nil
      BY <2>2, <3>2 DEF CheckSize, RotTyped, TypeOK
    <3>3. CASE ~(SizeLimit = 0 \/ (f # Nil /\ Len(tx[f]) < SizeLimit)) /\ f # Nil
      <4>1. RotateLog(f, o, tx) /\ wpc' = wpc
        BY <2>2, <3>3 DEF CheckSize
      <4>. QED
        BY <4>1, RotateLogType DEF TypeOK
    <3>. QED
      BY <3>1, <3>2, <3>3
  <2>3. CASE file # Nil /\ logged' = logged
             /\ CheckSize(file, off + 1, [txt EXCEPT ![file] = WriteAt(@, off, l)])
    <3>1. file \in Time /\ WriteAt(txt[file], off, l) \in Seq(Item)
      BY <2>1, <2>3, WriteAtType DEF TypeOK, Item, Nil, Time
    <3>2. [txt EXCEPT ![file] = WriteAt(@, off, l)] \in [Time -> Seq(Item)]
      BY <3>1 DEF TypeOK
    <3>3. off + 1 \in Nat /\ file \in Time \cup {Nil}
      BY DEF TypeOK
    <3>4. RotTyped /\ wpc' \in {"unbuilt", "failed", "loop", "exited", "panicked"}
      BY <2>3, <3>2, <3>3, <2>2
    <3>. QED
      BY <1>4, <2>1, <3>4 DEF WriterLine, TypeOK, RotTyped
  <2>4. CASE (file = Nil \/ IOFail) /\ logged' = logged \cup {l}
             /\ CheckSize(file, off, txt)
    <3>1. RotTyped /\ wpc' \in {"unbuilt", "failed", "loop", "exited", "panicked"}
      BY <2>4, <2>2 DEF TypeOK
    <3>. QED
      BY <1>4, <2>1, <3>1 DEF WriterLine, TypeOK, RotTyped
  <2>. QED
    BY <1>4, <2>3, <2>4 DEF WriterLine
<1>5. ASSUME NEW l \in Lines, LineCall(l) PROVE TypeOK'
  BY <1>5 DEF LineCall, TypeOK
<1>6. ASSUME NEW l \in Lines, LineSend(l) PROVE TypeOK'
  <2>1. Append(txtQ, l) \in Seq(Lines) /\ Len(Append(txtQ, l)) <= 1
    BY <1>6, SendType DEF LineSend, TypeOK
  <2>2. Append(accepted, l) \in Seq(Lines)
    BY AppendProperties DEF TypeOK
  <2>. QED
    BY <1>6, <2>1, <2>2 DEF LineSend, TypeOK
<1>7. CASE StopCall
  BY <1>7 DEF StopCall, TypeOK
<1>8. CASE StopReturn
  BY <1>8 DEF StopReturn, TypeOK
<1>9. CASE Tick
  BY <1>9, FileWriterAssumption DEF Tick, TypeOK, Time
<1>10. CASE TimerFire
  BY <1>10 DEF TimerFire, TypeOK
<1>11. CASE UNCHANGED vars
  BY <1>11 DEF vars, TypeOK
<1>. QED
  BY <1>1, <1>2, <1>3, <1>4, <1>5, <1>6, <1>7, <1>8, <1>9, <1>10, <1>11
  DEF Next

\* The writer's state keeps its types in every behaviour.
THEOREM TypeCorrect == Spec => []TypeOK
BY TypeInit, TypeStep, PTL DEF Spec


-----------------------------------------------------------------------------
(* Files only grow.  The inductive invariant WriteInv says where goWriter   *)
(* writes: the open file is named after a second no later than the clock,  *)
(* every file named after a later second is still empty, and (unless a     *)
(* rotation re-created the open file's name) the descriptor's offset is    *)
(* the open file's length.  So a write appends, and os.Create truncates    *)
(* only an empty file or the open one, which sets reused.                  *)

\* IsPrefix pointwise.
LEMMA PrefixPointwise ==
    ASSUME NEW S, NEW s \in Seq(S), NEW u \in Seq(S)
    PROVE  IsPrefix(s, u) <=> Len(s) <= Len(u) /\ \A i \in 1..Len(s) : s[i] = u[i]
<1>1. SubSeq(s, 1, Len(s)) = s
  BY SubSeqFull
<1>2. ASSUME Len(s) <= Len(u)
      PROVE  SubSeq(u, 1, Len(s)) \in Seq(S) /\ Len(SubSeq(u, 1, Len(s))) = Len(s)
             /\ \A i \in 1..Len(s) : SubSeq(u, 1, Len(s))[i] = u[i]
  BY <1>2, SubSeqProperties
<1>. QED
  BY <1>1, <1>2 DEF IsPrefix

\* A sequence is a prefix of itself and of what it is extended to.
LEMMA PrefixRefl ==
    ASSUME NEW S, NEW s \in Seq(S)
    PROVE  IsPrefix(s, s)
BY DEF IsPrefix

LEMMA PrefixAppend ==
    ASSUME NEW S, NEW s \in Seq(S), NEW x \in S
    PROVE  IsPrefix(s, Append(s, x))
<1>1. Append(s, x) \in Seq(S) /\ Len(Append(s, x)) = Len(s) + 1
      /\ \A i \in 1..Len(s) : Append(s, x)[i] = s[i]
  BY AppendProperties
<1>2. ASSUME NEW u \in Seq(S), Len(s) <= Len(u), \A i \in 1..Len(s) : s[i] = u[i]
      PROVE  IsPrefix(s, u)
  BY <1>2, PrefixPointwise
<1>3. Len(s) <= Len(s) + 1
  OBVIOUS
<1>. QED
  BY <1>1, <1>2, <1>3

LEMMA PrefixTrans ==
    ASSUME NEW S, NEW s \in Seq(S), NEW t \in Seq(S), NEW u \in Seq(S),
           IsPrefix(s, t), IsPrefix(t, u)
    PROVE  IsPrefix(s, u)
BY PrefixPointwise

\* A write at the end of a file appends.
LEMMA WriteAtEnd ==
    ASSUME NEW c \in Seq(Item), NEW x \in Item
    PROVE  WriteAt(c, Len(c), x) = Append(c, x)
<1>1. Append(c, x) \in Seq(Item) /\ Len(Append(c, x)) = Len(c) + 1
      /\ \A i \in 1..Len(c) : Append(c, x)[i] = c[i]
      /\ Append(c, x)[Len(c) + 1] = x
  BY AppendProperties
<1>2. DOMAIN Append(c, x) = 1..Len(c) + 1
  BY <1>1
<1>3. WriteAt(c, Len(c), x) = [i \in 1..Len(c) + 1 |-> IF i = Len(c) + 1 THEN x ELSE c[i]]
  BY DEF WriteAt
<1>4. Append(c, x) \in [1..Len(c) + 1 -> Item]
  BY <1>1, LenProperties
<1>5. \A i \in 1..Len(c) + 1 : Append(c, x)[i] = IF i = Len(c) + 1 THEN x ELSE c[i]
  BY <1>1
<1>. QED
  BY <1>3, <1>4, <1>5


\* WriteInv for a handle f at offset o over the files tx, as rotateLog and
\* checkSize receive them.
WriteInvOf(f, o, tx) ==
    /\ f # Nil => f <= clock
    /\ \A t \in Time : t > f => tx[t] = << >>
    /\ ~reused /\ f # Nil => o = Len(tx[f])

WriteInv ==
    /\ wpc = "unbuilt" => file = Nil
    /\ WriteInvOf(file, off, txt)

\* The files of the step's end state extend those of tx, unless the step
\* re-created the open file's name.
GrowsFrom(tx) == ~reused' => \A t \in Time : IsPrefix(tx[t], txt'[t])

\* rotateLog keeps WriteInvOf and only extends the files, whichever of its
\* calls fails: os.Create truncates a file that is empty or the open one.
LEMMA RotateLogGrows ==
    ASSUME TypeOK, NEW f \in Time \cup {Nil}, NEW o \in Nat,
           NEW tx \in [Time -> Seq(Item)], WriteInvOf(f, o, tx),
           RotateLog(f, o, tx), clock' = clock
    PROVE  WriteInvOf(file, off, txt)' /\ GrowsFrom(tx)
<1>1. clock \in Time /\ reused \in BOOLEAN
  BY DEF TypeOK
<1>2. \A t \in Time : IsPrefix(tx[t], tx[t])
  BY PrefixRefl
<1>3. IsPrefix(<< >>, << >>) /\ IsPrefix(<< >>, <<"hdr">>)
  BY DEF IsPrefix
<1>4. ASSUME ~reused', reused' = (reused \/ clock = f)
      PROVE  ~reused /\ clock # f /\ tx[clock] = << >>
  <2>1. ~reused /\ clock # f
    BY <1>4
  <2>2. clock > f
    BY <2>1, <1>1 DEF WriteInvOf, Nil
  <2>. QED
    BY <2>1, <2>2, <1>1 DEF WriteInvOf
<1>5. CASE /\ file' = f /\ off' = o /\ txt' = tx
           /\ UNCHANGED <<out, reused>>
  BY <1>5, <1>2 DEF WriteInvOf, GrowsFrom
<1>6. CASE /\ file' = f /\ off' = o /\ txt' = [tx EXCEPT ![clock] = << >>]
           /\ reused' = (reused \/ clock = f)
  <2>1. WriteInvOf(file, off, txt)'
    BY <1>6, <1>1 DEF WriteInvOf
  <2>2. GrowsFrom(tx)
    <3> SUFFICES ASSUME ~reused', NEW t \in Time PROVE IsPrefix(tx[t], txt'[t])
      BY DEF GrowsFrom
    <3>1. CASE t = clock
      BY <1>6, <3>1, <1>4, <1>3
    <3>2. CASE t # clock
      BY <1>6, <3>2, <1>2
    <3>. QED
      BY <3>1, <3>2
  <2>. QED
    BY <2>1, <2>2
<1>7. CASE /\ txt' = [[tx EXCEPT ![clock] = << >>] EXCEPT ![clock] = <<"hdr">>]
           /\ file' = clock /\ off' = 1
           /\ reused' = (reused \/ clock = f)
  <2>1. txt' = [tx EXCEPT ![clock] = <<"hdr">>]
    BY <1>7, <1>1
  <2>2. WriteInvOf(file, off, txt)'
    <3>1. \A t \in Time : t > clock => t > f
      BY <1>1, FileWriterAssumption DEF WriteInvOf, Nil, Time
    <3>. QED
      BY <2>1, <3>1, <1>1, <1>7 DEF WriteInvOf, Nil
  <2>3. GrowsFrom(tx)
    <3> SUFFICES ASSUME ~reused', NEW t \in Time PROVE IsPrefix(tx[t], txt'[t])
      BY DEF GrowsFrom
    <3>1. CASE t = clock
      BY <2>1, <3>1, <1>4, <1>3, <1>7
    <3>2. CASE t # clock
      BY <2>1, <3>2, <1>2
    <3>. QED
      BY <3>1, <3>2
  <2>. QED
    BY <2>2, <2>3
<1>. QED
  BY <1>5, <1>6, <1>7 DEF RotateLog


\* checkSize after a write keeps WriteInvOf and only extends the files: it
\* returns, panics on a nil file (whose files the write left alone), or
\* calls rotateLog.
LEMMA CheckSizeGrows ==
    ASSUME TypeOK, NEW f \in Time \cup {Nil}, NEW o \in Nat,
           NEW tx \in [Time -> Seq(Item)], WriteInvOf(f, o, tx),
           f = file, f = Nil => o = off /\ tx = txt,
           CheckSize(f, o, tx), clock' = clock, wpc # "unbuilt"
    PROVE  WriteInv' /\ GrowsFrom(tx) /\ (~reused' => ~reused)
<1>1. \A t \in Time : IsPrefix(tx[t], tx[t])
  BY PrefixRefl
<1>2. CASE SizeLimit = 0 \/ (f # Nil /\ Len(tx[f]) < SizeLimit)
  BY <1>1, <1>2 DEF CheckSize, WriteInv, WriteInvOf, GrowsFrom
<1>3. CASE ~(SizeLimit = 0 \/ (f # Nil /\ Len(tx[f]) < SizeLimit)) /\ f = Nil
  BY <1>1, <1>3 DEF CheckSize, WriteInv, WriteInvOf, GrowsFrom
<1>4. CASE ~(SizeLimit = 0 \/ (f # Nil /\ Len(tx[f]) < SizeLimit)) /\ f # Nil
  <2>1. RotateLog(f, o, tx) /\ wpc' = wpc
    BY <1>4 DEF CheckSize
  <2>2. ~reused' => ~reused
    BY <2>1 DEF RotateLog
  <2>. QED
    BY <2>1, <2>2, RotateLogGrows DEF WriteInv
<1>. QED
  BY <1>2, <1>3, <1>4


LEMMA WriteInvInit == Init => WriteInv
BY DEF Init, WriteInv, WriteInvOf

\* A step that leaves the files, the handle, the offset, reused and the
\* clock alone, and does not return to "unbuilt", keeps WriteInv.
LEMMA WriteInvFrame ==
    ASSUME TypeOK, WriteInv, UNCHANGED <<file, off, txt, reused, clock>>,
           wpc' = "unbuilt" => wpc = "unbuilt"
    PROVE  WriteInv' /\ GrowsFrom(txt)
<1>1. \A t \in Time : IsPrefix(txt[t], txt[t])
  BY PrefixRefl DEF TypeOK
<1>. QED
  BY <1>1 DEF WriteInv, WriteInvOf, GrowsFrom

\* Every step keeps WriteInv and only extends the .txt files, unless it
\* re-creates the open file's name.
LEMMA WriteStep ==
    TypeOK /\ WriteInv /\ [Next]_vars => WriteInv' /\ GrowsFrom(txt)
<1> SUFFICES ASSUME TypeOK, WriteInv, [Next]_vars
             PROVE  WriteInv' /\ GrowsFrom(txt)
  OBVIOUS
<1>0. TypeOK'
  BY TypeStep
<1>1. CASE NewFileWriter
  <2>1. CASE wpc' = "failed" /\ UNCHANGED <<file, off, txt, out, reused, timer>>
    BY <1>1, <2>1, WriteInvFrame DEF NewFileWriter
  <2>2. CASE wpc' = "loop" /\ RotateLog(Nil, 0, txt) /\ timer' = "armed"
    <3>1. WriteInvOf(Nil, 0, txt) /\ clock' = clock /\ txt \in [Time -> Seq(Item)]
      <4>1. file = Nil /\ clock' = clock
        BY <1>1 DEF NewFileWriter, WriteInv
      <4>2. WriteInvOf(file, off, txt)
        BY DEF WriteInv
      <4>. QED
        BY <4>1, <4>2 DEF WriteInvOf, TypeOK
    <3>2. Nil \in Time \cup {Nil}
      BY DEF Nil
    <3>. QED
      BY <2>2, <3>1, <3>2, RotateLogGrows DEF WriteInv
  <2>. QED
    BY <1>1, <2>1, <2>2 DEF NewFileWriter
<1>2. CASE WriterTimer
  <2>1. CASE AgeRotation
    <3>1. RotateLog(file, off, txt) /\ clock' = clock /\ wpc' = wpc /\ wpc = "loop"
      BY <1>2, <2>1 DEF WriterTimer
    <3>. QED
      BY <3>1, RotateLogGrows DEF WriteInv, TypeOK
  <2>2. CASE ~AgeRotation
    BY <1>2, <2>2, WriteInvFrame DEF WriterTimer
  <2>. QED
    BY <2>1, <2>2
<1>3. CASE WriterLine
  <2> DEFINE l == Head(txtQ)
  <2>1. l \in Item /\ wpc = "loop" /\ clock' = clock
    BY <1>3, RecvType DEF WriterLine, TypeOK, Item
  <2>2. CASE file # Nil /\ logged' = logged
             /\ CheckSize(file, off + 1, [txt EXCEPT ![file] = WriteAt(@, off, l)])
    <3> DEFINE tx == [txt EXCEPT ![file] = WriteAt(@, off, l)]
    <3>1. file \in Time /\ tx \in [Time -> Seq(Item)] /\ off + 1 \in Nat
      <4>1. file \in Time /\ txt[file] \in Seq(Item) /\ off \in Nat
        BY <2>2 DEF TypeOK, Nil, Time
      <4>2. WriteAt(txt[file], off, l) \in Seq(Item)
        BY <4>1, <2>1, WriteAtType
      <4>. QED
        BY <4>1, <4>2 DEF TypeOK
    <3>2. ~reused => tx[file] = Append(txt[file], l)
      <4> SUFFICES ASSUME ~reused PROVE tx[file] = Append(txt[file], l)
        OBVIOUS
      <4>1. off = Len(txt[file]) /\ txt[file] \in Seq(Item)
        BY <2>2, <3>1 DEF WriteInv, WriteInvOf, TypeOK
      <4>2. tx[file] = WriteAt(txt[file], off, l)
        BY <3>1 DEF TypeOK
      <4>. QED
        BY <4>1, <4>2, <2>1, WriteAtEnd
    <3>3. WriteInvOf(file, off + 1, tx)
      <4>1. ~reused => Len(tx[file]) = off + 1
        <5> SUFFICES ASSUME ~reused PROVE Len(tx[file]) = off + 1
          OBVIOUS
        <5>1. off = Len(txt[file]) /\ txt[file] \in Seq(Item)
          BY <2>2, <3>1 DEF WriteInv, WriteInvOf, TypeOK
        <5>. QED
          BY <5>1, <3>2, <2>1, AppendProperties
      <4>2. file =< clock
        BY <2>2 DEF WriteInv, WriteInvOf
      <4>3. \A t \in Time : t > file => tx[t] = <<>>
        <5> SUFFICES ASSUME NEW t \in Time, t > file PROVE tx[t] = <<>>
          OBVIOUS
        <5>1. t # file /\ txt[t] = <<>>
          BY <3>1, <2>2 DEF WriteInv, WriteInvOf, Time
        <5>. QED
          BY <5>1 DEF TypeOK
      <4>. QED
        BY <3>1, <4>1, <4>2, <4>3 DEF WriteInvOf
    <3>4. WriteInv' /\ GrowsFrom(tx) /\ (~reused' => ~reused)
      BY <2>1, <2>2, <3>1, <3>3, CheckSizeGrows
    <3>5. ~reused => \A t \in Time : IsPrefix(txt[t], tx[t])
      <4> SUFFICES ASSUME ~reused, NEW t \in Time PROVE IsPrefix(txt[t], tx[t])
        OBVIOUS
      <4>1. CASE t = file
        BY <4>1, <3>2, <2>1, PrefixAppend DEF TypeOK
      <4>2. CASE t # file
        BY <4>2, PrefixRefl DEF TypeOK
      <4>. QED
        BY <4>1, <4>2
    <3>6. GrowsFrom(txt)
      <4> SUFFICES ASSUME ~reused', NEW t \in Time PROVE IsPrefix(txt[t], txt'[t])
        BY DEF GrowsFrom
      <4>1. IsPrefix(txt[t], tx[t]) /\ IsPrefix(tx[t], txt'[t])
        BY <3>4, <3>5 DEF GrowsFrom
      <4>2. txt[t] \in Seq(Item) /\ tx[t] \in Seq(Item) /\ txt'[t] \in Seq(Item)
        BY <3>1, <1>0 DEF TypeOK
      <4>. QED
        BY <4>1, <4>2, PrefixTrans
    <3>. QED
      BY <3>4, <3>6
  <2>3. CASE (file = Nil \/ IOFail) /\ logged' = logged \cup {l}
             /\ CheckSize(file, off, txt)
    BY <2>1, <2>3, CheckSizeGrows DEF WriteInv, TypeOK
  <2>. QED
    BY <1>3, <2>2, <2>3 DEF WriterLine

<1>4. CASE WriterSig \/ StopCall \/ StopReturn \/ TimerFire
  BY <1>4, WriteInvFrame DEF WriterSig, StopCall, StopReturn, TimerFire
<1>5. ASSUME NEW l \in Lines, LineCall(l) \/ LineSend(l)
      PROVE  WriteInv' /\ GrowsFrom(txt)
  BY <1>5, WriteInvFrame DEF LineCall, LineSend
<1>6. CASE Tick
  <2>1. \A t \in Time : IsPrefix(txt[t], txt[t])
    BY PrefixRefl DEF TypeOK
  <2>. QED
    BY <1>6, <2>1 DEF Tick, WriteInv, WriteInvOf, GrowsFrom, TypeOK, Time
<1>7. CASE UNCHANGED vars
  BY <1>7, WriteInvFrame DEF vars
<1>. QED
  BY <1>1, <1>2, <1>3, <1>4, <1>5, <1>6, <1>7 DEF Next

-----------------------------------------------------------------------------
(* Files only grow (LinesStable).  This needs no assumption on reused: the *)
(* descriptor's offset is never before the end of the open file (OffInv), *)
(* a write there only extends the file, a file named after a later second *)
(* is empty when os.Create truncates it, and the one file os.Create can   *)
(* truncate with content is the open one, within its own second.          *)

OffInv == file # Nil => Len(txt[file]) <= off

\* The files of the step's end state extend those of tx, but for the open
\* file when the step's rotation re-creates its name.
StableFrom(tx) == \A t \in Time : IsPrefix(tx[t], txt'[t]) \/ Recreated(t)

\* A write at or past the end of a file extends it to the offset's end.
LEMMA WriteAtGrows ==
    ASSUME NEW c \in Seq(Item), NEW o \in Nat, NEW x \in Item, Len(c) <= o
    PROVE  IsPrefix(c, WriteAt(c, o, x)) /\ Len(WriteAt(c, o, x)) = o + 1
<1> DEFINE w == WriteAt(c, o, x)
<1>1. w \in Seq(Item)
  BY WriteAtType
<1>2. w = [i \in 1..o + 1 |-> IF i = o + 1 THEN x ELSE IF i <= Len(c) THEN c[i] ELSE "zero"]
  BY DEF WriteAt
<1>3. Len(w) = o + 1
  BY <1>1, <1>2
<1>4. \A i \in 1..Len(c) : c[i] = w[i]
  BY <1>2
<1>. QED
  BY <1>1, <1>3, <1>4, PrefixPointwise

\* rotateLog extends every file but the open one when it re-creates the
\* open file's name, and leaves the offset at or past the new file's end.
LEMMA RotateLogStable ==
    ASSUME TypeOK, NEW f \in Time \cup {Nil}, NEW o \in Nat,
           NEW tx \in [Time -> Seq(Item)], f = file,
           f # Nil => f <= clock, \A t \in Time : t > f => tx[t] = << >>,
           f # Nil => Len(tx[f]) <= o,
           RotateLog(f, o, tx), clock' = clock
    PROVE  StableFrom(tx) /\ OffInv'
<1>1. clock \in Time
  BY DEF TypeOK
<1>2. \A t \in Time : IsPrefix(tx[t], tx[t])
  BY PrefixRefl
<1>3. IsPrefix(<< >>, << >>) /\ IsPrefix(<< >>, <<"hdr">>)
  BY DEF IsPrefix
<1>4. clock # f => tx[clock] = << >>
  BY <1>1 DEF Nil
<1>5. CASE file' = f /\ off' = o /\ txt' = tx
  BY <1>5, <1>2 DEF StableFrom, OffInv
<1>6. CASE file' = f /\ off' = o /\ txt' = [tx EXCEPT ![clock] = << >>]
  <2>1. StableFrom(tx)
    <3> SUFFICES ASSUME NEW t \in Time PROVE IsPrefix(tx[t], txt'[t]) \/ Recreated(t)
      BY DEF StableFrom
    <3>1. CASE t = clock /\ clock = f
      BY <1>6, <3>1, <1>1 DEF Recreated
    <3>2. CASE t = clock /\ clock # f
      BY <1>6, <3>2, <1>4, <1>3
    <3>3. CASE t # clock
      BY <1>6, <3>3, <1>2
    <3>. QED
      BY <3>1, <3>2, <3>3
  <2>2. OffInv'
    BY <1>6, <1>1 DEF OffInv
  <2>. QED
    BY <2>1, <2>2
<1>7. CASE /\ txt' = [[tx EXCEPT ![clock] = << >>] EXCEPT ![clock] = <<"hdr">>]
           /\ file' = clock /\ off' = 1
  <2>1. txt' = [tx EXCEPT ![clock] = <<"hdr">>]
    BY <1>7, <1>1
  <2>2. StableFrom(tx)
    <3> SUFFICES ASSUME NEW t \in Time PROVE IsPrefix(tx[t], txt'[t]) \/ Recreated(t)
      BY DEF StableFrom
    <3>1. CASE t = clock /\ clock = f
      BY <2>1, <3>1, <1>1 DEF Recreated
    <3>2. CASE t = clock /\ clock # f
      BY <2>1, <3>2, <1>4, <1>3
    <3>3. CASE t # clock
      BY <2>1, <3>3, <1>2
    <3>. QED
      BY <3>1, <3>2, <3>3
  <2>3. OffInv'
    BY <2>1, <1>7, <1>1 DEF OffInv
  <2>. QED
    BY <2>2, <2>3
<1>. QED
  BY <1>5, <1>6, <1>7 DEF RotateLog

\* checkSize after a write: it returns, panics on a nil file (whose files
\* the write left alone), or calls rotateLog.
LEMMA CheckSizeStable ==
    ASSUME TypeOK, NEW f \in Time \cup {Nil}, NEW o \in Nat,
           NEW tx \in [Time -> Seq(Item)], f = file,
           f # Nil => f <= clock, \A t \in Time : t > f => tx[t] = << >>,
           f # Nil => Len(tx[f]) <= o, f = Nil => o = off /\ tx = txt,
           CheckSize(f, o, tx), clock' = clock
    PROVE  StableFrom(tx) /\ OffInv'
<1>1. \A t \in Time : IsPrefix(tx[t], tx[t])
  BY PrefixRefl
<1>2. CASE SizeLimit = 0 \/ (f # Nil /\ Len(tx[f]) < SizeLimit)
  BY <1>1, <1>2 DEF CheckSize, StableFrom, OffInv
<1>3. CASE ~(SizeLimit = 0 \/ (f # Nil /\ Len(tx[f]) < SizeLimit)) /\ f = Nil
  BY <1>1, <1>3 DEF CheckSize, StableFrom, OffInv
<1>4. CASE ~(SizeLimit = 0 \/ (f # Nil /\ Len(tx[f]) < SizeLimit)) /\ f # Nil
  BY <1>4, RotateLogStable DEF CheckSize
<1>. QED
  BY <1>2, <1>3, <1>4

\* A step that leaves the files, the handle and the offset alone.
LEMMA StableFrame ==
    ASSUME TypeOK, OffInv, UNCHANGED <<file, off, txt>>
    PROVE  OffInv' /\ StableFrom(txt)
<1>1. \A t \in Time : IsPrefix(txt[t], txt[t])
  BY PrefixRefl DEF TypeOK
<1>. QED
  BY <1>1 DEF OffInv, StableFrom

\* Every step keeps OffInv and extends every file, but the open one in the
\* step whose rotation re-creates its name.
LEMMA StableStep ==
    TypeOK /\ WriteInv /\ OffInv /\ [Next]_vars => OffInv' /\ StableFrom(txt)
<1> SUFFICES ASSUME TypeOK, WriteInv, OffInv, [Next]_vars
             PROVE  OffInv' /\ StableFrom(txt)
  OBVIOUS
<1>0. /\ file # Nil => file <= clock
      /\ \A t \in Time : t > file => txt[t] = << >>
  BY DEF WriteInv, WriteInvOf
<1>1. CASE NewFileWriter
  <2>1. CASE wpc' = "failed" /\ UNCHANGED <<file, off, txt, out, reused, timer>>
    BY <2>1, StableFrame
  <2>2. CASE wpc' = "loop" /\ RotateLog(Nil, 0, txt) /\ timer' = "armed"
    <3>1. file = Nil /\ clock' = clock
      BY <1>1 DEF NewFileWriter, WriteInv
    <3>2. Nil \in Time \cup {Nil} /\ txt \in [Time -> Seq(Item)]
      BY DEF Nil, TypeOK
    <3>. QED
      BY <2>2, <3>1, <3>2, <1>0, RotateLogStable
  <2>. QED
    BY <1>1, <2>1, <2>2 DEF NewFileWriter
<1>2. CASE WriterTimer
  <2>1. CASE AgeRotation
    <3>1. RotateLog(file, off, txt) /\ clock' = clock
      BY <1>2, <2>1 DEF WriterTimer
    <3>. QED
      BY <3>1, <1>0, RotateLogStable DEF OffInv, TypeOK
  <2>2. CASE ~AgeRotation
    BY <1>2, <2>2, StableFrame DEF WriterTimer
  <2>. QED
    BY <2>1, <2>2
<1>3. CASE WriterLine
  <2> DEFINE l == Head(txtQ)
  <2>1. l \in Item /\ clock' = clock
    BY <1>3, RecvType DEF WriterLine, TypeOK, Item
  <2>2. CASE file # Nil /\ CheckSize(file, off + 1, [txt EXCEPT ![file] = WriteAt(@, off, l)])
    <3> DEFINE tx == [txt EXCEPT ![file] = WriteAt(@, off, l)]
    <3>1. file \in Time /\ txt[file] \in Seq(Item) /\ off \in Nat
          /\ Len(txt[file]) <= off
      BY <2>2 DEF TypeOK, Nil, Time, OffInv
    <3>2. IsPrefix(txt[file], tx[file]) /\ Len(tx[file]) = off + 1
          /\ tx \in [Time -> Seq(Item)]
      <4>1. tx[file] = WriteAt(txt[file], off, l)
        BY <3>1 DEF TypeOK
      <4>2. WriteAt(txt[file], off, l) \in Seq(Item)
        BY <3>1, <2>1, WriteAtType
      <4>. QED
        BY <4>1, <4>2, <3>1, <2>1, WriteAtGrows DEF TypeOK
    <3>3. \A t \in Time : t > file => tx[t] = << >>
      <4> SUFFICES ASSUME NEW t \in Time, t > file PROVE tx[t] = << >>
        OBVIOUS
      <4>1. t # file /\ txt[t] = << >>
        BY <3>1, <1>0 DEF Time
      <4>. QED
        BY <4>1 DEF TypeOK
    <3>4. file <= clock /\ off + 1 \in Nat
      BY <2>2, <3>1, <1>0
    <3>5. StableFrom(tx) /\ OffInv'
      <4>1. /\ file \in Time \cup {Nil} /\ off + 1 \in Nat /\ tx \in [Time -> Seq(Item)]
            /\ file # Nil => file <= clock
            /\ \A t \in Time : t > file => tx[t] = << >>
            /\ file # Nil => Len(tx[file]) <= off + 1
            /\ file = Nil => off + 1 = off /\ tx = txt
            /\ CheckSize(file, off + 1, tx) /\ clock' = clock
        BY <2>1, <2>2, <3>1, <3>2, <3>3, <3>4
      <4>. QED
        BY <4>1, CheckSizeStable
    <3>6. \A t \in Time : IsPrefix(txt[t], tx[t])
      <4> SUFFICES ASSUME NEW t \in Time PROVE IsPrefix(txt[t], tx[t])
        OBVIOUS
      <4>1. CASE t = file
        BY <4>1, <3>2
      <4>2. CASE t # file
        BY <4>2, PrefixRefl DEF TypeOK
      <4>. QED
        BY <4>1, <4>2
    <3>7. StableFrom(txt)
      <4> SUFFICES ASSUME NEW t \in Time, ~Recreated(t)
                   PROVE  IsPrefix(txt[t], txt'[t])
        BY DEF StableFrom
      <4>1. IsPrefix(txt[t], tx[t]) /\ IsPrefix(tx[t], txt'[t])
        BY <3>5, <3>6 DEF StableFrom
      <4>2. txt[t] \in Seq(Item) /\ tx[t] \in Seq(Item) /\ txt'[t] \in Seq(Item)
        BY <3>2, TypeStep DEF TypeOK
      <4>. QED
        BY <4>1, <4>2, PrefixTrans
    <3>. QED
      BY <3>5, <3>7
  <2>3. CASE (file = Nil \/ IOFail) /\ CheckSize(file, off, txt)
    <3>1. file \in Time \cup {Nil} /\ off \in Nat /\ txt \in [Time -> Seq(Item)]
      BY DEF TypeOK
    <3>. QED
      BY <2>1, <2>3, <3>1, <1>0, CheckSizeStable DEF OffInv
  <2>. QED
    BY <1>3, <2>2, <2>3 DEF WriterLine
<1>4. CASE WriterSig \/ StopCall \/ StopReturn \/ TimerFire \/ Tick
  BY <1>4, StableFrame DEF WriterSig, StopCall, StopReturn, TimerFire, Tick
<1>5. ASSUME NEW l \in Lines, LineCall(l) \/ LineSend(l)
      PROVE  OffInv' /\ StableFrom(txt)
  BY <1>5, StableFrame DEF LineCall, LineSend
<1>6. CASE UNCHANGED vars
  BY <1>6, StableFrame DEF vars
<1>. QED
  BY <1>1, <1>2, <1>3, <1>4, <1>5, <1>6 DEF Next

LEMMA OffInvInit == Init => OffInv
BY DEF Init, OffInv, Nil

\* Every .txt file only grows (LinesStable): a line once written is never
\* overwritten or truncated away, except by the step whose rotation
\* re-creates the open file's name within its second.
THEOREM FilesOnlyGrow == Spec => LinesStable
<1>1. Init => TypeOK /\ WriteInv /\ OffInv
  BY TypeInit, WriteInvInit, OffInvInit
<1>2. TypeOK /\ WriteInv /\ OffInv /\ [Next]_vars => (TypeOK /\ WriteInv /\ OffInv)'
  BY TypeStep, WriteStep, StableStep
<1>3. TypeOK /\ WriteInv /\ OffInv /\ [Next]_vars
        => [\A t \in Time : IsPrefix(txt[t], txt'[t]) \/ Recreated(t)]_vars
  BY StableStep DEF StableFrom
<1>. QED
  BY <1>1, <1>2, <1>3, PTL DEF Spec, LinesStable


-----------------------------------------------------------------------------
(* No accepted line disappears silently (NoLineDropped).  With WriteInv a  *)
(* write appends the line to the open file, and GrowsFrom keeps every file *)
(* line in place; the lines that Line sends enter accepted and txtQ        *)
(* together.  NoLineDropped is then inductive relative to TypeOK and       *)
(* WriteInv.                                                               *)

\* The elements of a prefix are elements of the whole sequence.
LEMMA RangePrefix ==
    ASSUME NEW S, NEW s \in Seq(S), NEW u \in Seq(S), IsPrefix(s, u)
    PROVE  Range(s) \subseteq Range(u)
<1>1. Len(s) <= Len(u) /\ \A i \in 1..Len(s) : s[i] = u[i]
  BY PrefixPointwise
<1>. QED
  BY <1>1 DEF Range

\* A send adds its element to the channel's elements.
LEMMA RangeAppend ==
    ASSUME NEW S, NEW s \in Seq(S), NEW x \in S
    PROVE  Range(Append(s, x)) = Range(s) \cup {x}
<1>1. Len(Append(s, x)) = Len(s) + 1 /\ Append(s, x)[Len(s) + 1] = x
      /\ \A i \in 1..Len(s) : Append(s, x)[i] = s[i]
  BY AppendProperties
<1>. QED
  BY <1>1 DEF Range

\* A receive takes the head and keeps the others.
LEMMA RangeTail ==
    ASSUME NEW S, NEW s \in Seq(S), s # << >>
    PROVE  Range(s) = Range(Tail(s)) \cup {Head(s)}
<1>1. Len(s) \in Nat /\ Len(s) >= 1 /\ Tail(s) \in Seq(S) /\ Len(Tail(s)) = Len(s) - 1
      /\ Head(s) = s[1] /\ \A i \in 1..Len(s) - 1 : Tail(s)[i] = s[i + 1]
  BY HeadTailProperties, LenProperties, EmptySeq
<1>2. DOMAIN s = 1..Len(s) /\ DOMAIN Tail(s) = 1..Len(s) - 1
  BY <1>1, LenProperties
<1>3. Range(Tail(s)) \cup {Head(s)} \subseteq Range(s)
  BY <1>1, <1>2 DEF Range
<1>4. ASSUME NEW i \in 1..Len(s) PROVE s[i] \in Range(Tail(s)) \cup {Head(s)}
  <2>1. CASE i = 1
    BY <1>1, <2>1
  <2>2. CASE i # 1
    <3>1. i - 1 \in 1..Len(s) - 1 /\ Tail(s)[i - 1] = s[i]
      BY <1>1, <2>2
    <3>. QED
      BY <3>1, <1>2 DEF Range
  <2>. QED
    BY <2>1, <2>2
<1>. QED
  BY <1>2, <1>3, <1>4 DEF Range

\* A reused name stays recorded: no step clears reused.
LEMMA ReusedStays == TypeOK /\ [Next]_vars => (reused => reused')
BY DEF Next, vars, NewFileWriter, WriterSig, WriterTimer, WriterLine, LineCall,
       LineSend, StopCall, StopReturn, Tick, TimerFire, CheckSize, RotateLog,
       TypeOK

\* The lines on disk stay on disk in a step that keeps the files growing.
LEMMA OnDiskGrows ==
    ASSUME TypeOK, TypeOK', GrowsFrom(txt), ~reused'
    PROVE  OnDisk \subseteq OnDisk'
<1>1. \A t \in Time : Range(txt[t]) \subseteq Range(txt'[t])
  BY RangePrefix DEF GrowsFrom, TypeOK
<1>. QED
  BY <1>1 DEF OnDisk

\* goWriter's successful WriteString lands the head of txtQ in the open
\* file, and checkSize's rotation leaves it there.
LEMMA WrittenLineOnDisk ==
    ASSUME TypeOK, WriteInv, WriterLine, file # Nil, ~reused',
           CheckSize(file, off + 1, [txt EXCEPT ![file] = WriteAt(@, off, Head(txtQ))])
    PROVE  Head(txtQ) \in OnDisk'
<1> DEFINE l == Head(txtQ)
           tx == [txt EXCEPT ![file] = WriteAt(@, off, l)]
<1>0. [Next]_vars /\ wpc = "loop" /\ clock' = clock
  BY DEF WriterLine, Next, Running
<1>1. l \in Item
  BY RecvType DEF WriterLine, TypeOK, Item
<1>2. file \in Time /\ txt[file] \in Seq(Item) /\ off \in Nat
  BY DEF TypeOK, Nil, Time
<1>3. tx \in [Time -> Seq(Item)]
  BY <1>1, <1>2, WriteAtType DEF TypeOK
<1>4. ~reused
  BY <1>0, ReusedStays
<1>5. tx[file] = Append(txt[file], l)
  <2>1. off = Len(txt[file])
    BY <1>4 DEF WriteInv, WriteInvOf
  <2>. QED
    BY <1>1, <1>2, <2>1, WriteAtEnd DEF TypeOK
<1>6. WriteInvOf(file, off + 1, tx)
  <2>1. off = Len(txt[file])
    BY <1>4 DEF WriteInv, WriteInvOf
  <2>2. Len(tx[file]) = off + 1
    BY <1>1, <1>2, <1>5, <2>1, AppendProperties
  <2>3. \A t \in Time : t > file => tx[t] = << >>
    <3>1. \A t \in Time : t > file => txt[t] = << >>
      BY DEF WriteInv, WriteInvOf
    <3>2. \A t \in Time : t # file => tx[t] = txt[t]
      BY DEF TypeOK
    <3>3. \A t \in Time : t > file => t # file
      BY <1>2 DEF Time
    <3>. QED
      BY <3>1, <3>2, <3>3
  <2>4. file <= clock
    BY DEF WriteInv, WriteInvOf
  <2>. QED
    BY <2>2, <2>3, <2>4 DEF WriteInvOf
<1>7. IsPrefix(tx[file], txt'[file])
  <2>1. off + 1 \in Nat /\ file \in Time \cup {Nil} /\ wpc # "unbuilt"
    BY <1>0, <1>2
  <2>2. CheckSize(file, off + 1, tx)
    OBVIOUS
  <2>3. WriteInv' /\ GrowsFrom(tx)
    BY <1>0, <1>3, <1>6, <2>1, <2>2, CheckSizeGrows
  <2>. QED
    BY <1>2, <2>3 DEF GrowsFrom
<1>9. txt' \in [Time -> Seq(Item)]
  BY <1>0, TypeStep DEF TypeOK
<1>8. l \in Range(txt'[file])
  <2>1. l \in Range(tx[file])
    <3>1. Range(Append(txt[file], l)) = Range(txt[file]) \cup {l}
      BY <1>1, <1>2, RangeAppend
    <3>. QED
      BY <3>1, <1>5
  <2>2. Range(tx[file]) \subseteq Range(txt'[file])
    <3>1. tx[file] \in Seq(Item) /\ txt'[file] \in Seq(Item)
      BY <1>2, <1>3, <1>9
    <3>. QED
      BY <3>1, <1>7, RangePrefix
  <2>. QED
    BY <2>1, <2>2
<1>. QED
  BY <1>2, <1>8 DEF OnDisk


\* Every step keeps NoLineDropped, given TypeOK and WriteInv.
LEMMA DroppedStep ==
    TypeOK /\ WriteInv /\ NoLineDropped /\ [Next]_vars => NoLineDropped'
<1> SUFFICES ASSUME TypeOK, WriteInv, NoLineDropped, [Next]_vars, ~reused'
             PROVE  Range(accepted') \subseteq OnDisk' \cup Range(txtQ') \cup logged'
  BY DEF NoLineDropped
<1>1. ~reused
  BY ReusedStays
<1>2. Range(accepted) \subseteq OnDisk \cup Range(txtQ) \cup logged
  BY <1>1 DEF NoLineDropped
<1>3. OnDisk \subseteq OnDisk'
  BY TypeStep, WriteStep, OnDiskGrows
<1>4. ASSUME NEW l \in Lines, LineSend(l)
      PROVE  Range(accepted') \subseteq OnDisk' \cup Range(txtQ') \cup logged'
  <2>1. Range(accepted') = Range(accepted) \cup {l}
    BY <1>4, RangeAppend DEF LineSend, TypeOK
  <2>2. Range(txtQ') = Range(txtQ) \cup {l}
    BY <1>4, RangeAppend DEF LineSend, TypeOK
  <2>. QED
    BY <1>2, <1>3, <2>1, <2>2, <1>4 DEF LineSend
<1>5. CASE WriterLine
  <2>1. Range(txtQ) = Range(txtQ') \cup {Head(txtQ)}
    BY <1>5, RangeTail DEF WriterLine, TypeOK
  <2>2. accepted' = accepted /\ logged \subseteq logged'
    BY <1>5 DEF WriterLine
  <2>3. Head(txtQ) \in OnDisk' \cup logged'
    <3>1. CASE /\ file # Nil /\ logged' = logged
               /\ CheckSize(file, off + 1,
                            [txt EXCEPT ![file] = WriteAt(@, off, Head(txtQ))])
      BY <1>5, <3>1, WrittenLineOnDisk
    <3>2. CASE /\ file = Nil \/ IOFail
               /\ logged' = logged \cup {Head(txtQ)}
               /\ CheckSize(file, off, txt)
      BY <3>2
    <3>. QED
      BY <1>5, <3>1, <3>2 DEF WriterLine
  <2>. QED
    BY <1>2, <1>3, <2>1, <2>2, <2>3
<1>6. CASE \/ NewFileWriter \/ WriterSig \/ WriterTimer \/ StopCall
           \/ StopReturn \/ Tick \/ TimerFire \/ UNCHANGED vars
           \/ \E l \in Lines : LineCall(l)
  <2>1. UNCHANGED <<accepted, txtQ, logged>>
    BY <1>6 DEF NewFileWriter, WriterSig, WriterTimer, StopCall, StopReturn,
                Tick, TimerFire, vars, LineCall
  <2>. QED
    BY <1>2, <1>3, <2>1
<1>. QED
  BY <1>4, <1>5, <1>6 DEF Next

\* The file writer (spec 4.5; a failed write is logged, spec 7) loses no
\* line silently: for every set of lines,
\* size limit, clock range and failure setting, unless a rotation
\* re-created the open file's name, every line Line accepted is in a .txt
\* file, still in txtQ, or its WriteString error was logged.
THEOREM NoLineDroppedInv == Spec => []NoLineDropped
<1>1. Init => TypeOK /\ WriteInv /\ NoLineDropped
  BY TypeInit, WriteInvInit DEF Init, NoLineDropped, Range
<1>2. TypeOK /\ WriteInv /\ NoLineDropped /\ [Next]_vars
        => (TypeOK /\ WriteInv /\ NoLineDropped)'
  BY TypeStep, WriteStep, DroppedStep
<1>. QED
  BY <1>1, <1>2, PTL DEF Spec

=============================================================================
