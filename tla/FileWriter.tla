----------------------------- MODULE FileWriter -----------------------------
(***************************************************************************)
(* The rotating file writer of src/writer/writer_file.go.  One goroutine   *)
(* (goWriter) owns the open file and selects over the stop signal, the     *)
(* rotation timer and the line queue txtQ (capacity 1); callers of Line    *)
(* block on a full queue.  rotateLog names the new file after the current  *)
(* second, writes the version header, copies the old file into <old>.out   *)
(* (compressLog) and swaps the handle.                                     *)
(*                                                                         *)
(* Files are named by the second they were created in (0..MaxTime); a file *)
(* is a sequence of items: the header, a line, or a zero byte of a hole.   *)
(* An I/O call that may fail in the code fails nondeterministically when   *)
(* IOFail is TRUE.                                                         *)
(***************************************************************************)
EXTENDS Naturals, Sequences, SequencesExt

CONSTANTS
    Lines,       \* the lines handed to Line, each once
    SizeLimit,   \* fileSize: rotate once the file has this many items; 0 disables
    AgeRotation, \* fileAge # 0: a timer expiry rotates the file
    MaxTime,     \* the last second the clock reaches
    IOFail       \* whether os.Create, WriteString, Seek, GetWriter, io.Copy may fail

ASSUME FileWriterAssumption ==
    /\ SizeLimit \in Nat
    /\ AgeRotation \in BOOLEAN
    /\ MaxTime \in Nat
    /\ IOFail \in BOOLEAN
    /\ "hdr" \notin Lines /\ "zero" \notin Lines

Time == 0..MaxTime
Nil == -1                 \* w.file == nil
Item == Lines \cup {"hdr", "zero"}

VARIABLES
    wpc,        \* constructor and goWriter: "unbuilt", "failed", "loop", "exited", "panicked"
    clock,      \* the current second, read by time.Now() in rotateLog
    file,       \* name of w.file, or Nil
    off,        \* the offset of w.file's descriptor
    txt,        \* txt[t]: content of the file <t>.txt
    out,        \* out[t]: content of the file <t>.txt.out
    timer,      \* w.fileTimer: "armed", "fired" (value in timer.C) or "stopped"
    txtQ,       \* the channel txtQ
    issued,     \* lines whose Line call has begun
    calling,    \* lines whose Line call is blocked on the send
    accepted,   \* ghost: the lines Line has enqueued, in order
    logged,     \* ghost: lines lost with a logged write error
    reused,     \* ghost: a rotation re-created the name of the open file
    done,       \* w.done
    sigClosed,  \* close(w.sigWriter) has happened
    stopPc      \* the caller of Stop: "none", "wait", "returned"

vars == <<wpc, clock, file, off, txt, out, timer, txtQ, issued, calling,
          accepted, logged, reused, done, sigClosed, stopPc>>

TypeOK ==
    /\ wpc \in {"unbuilt", "failed", "loop", "exited", "panicked"}
    /\ clock \in Time
    /\ file \in Time \cup {Nil}
    /\ off \in Nat
    /\ txt \in [Time -> Seq(Item)]
    /\ out \in [Time -> Seq(Item)]
    /\ timer \in {"armed", "fired", "stopped"}
    /\ txtQ \in Seq(Lines) /\ Len(txtQ) <= 1
    /\ issued \subseteq Lines /\ calling \subseteq issued
    /\ accepted \in Seq(Lines)
    /\ logged \subseteq Lines
    /\ reused \in BOOLEAN
    /\ done \in {0, 1}
    /\ sigClosed \in BOOLEAN
    /\ stopPc \in {"none", "wait", "returned"}

Init ==
    /\ wpc = "unbuilt"
    /\ clock = 0
    /\ file = Nil
    /\ off = 0
    /\ txt = [t \in Time |-> << >>]
    /\ out = [t \in Time |-> << >>]
    /\ timer = "stopped"
    /\ txtQ = << >>
    /\ issued = {} /\ calling = {}
    /\ accepted = << >> /\ logged = {}
    /\ reused = FALSE
    /\ done = 0 /\ sigClosed = FALSE
    /\ stopPc = "none"

-----------------------------------------------------------------------------
(* Helpers *)

\* A write of x through a descriptor at offset o: it overwrites or extends
\* the content, and a gap left by an earlier truncation reads as zeros.
WriteAt(c, o, x) ==
    [i \in 1..IF o + 1 > Len(c) THEN o + 1 ELSE Len(c) |->
        IF i = o + 1 THEN x ELSE IF i <= Len(c) THEN c[i] ELSE "zero"]

\* What compressLog leaves in <name>.out when it copies src over old: the
\* whole copy, or (on a failed Seek or os.Create) nothing new, (on a
\* failed GetWriter) an empty file, (on a failed io.Copy) a prefix.
CompressOutcomes(src, old) ==
    {src} \cup IF IOFail
               THEN {old} \cup {SubSeq(src, 1, k) : k \in 0..Len(src)}
               ELSE {}

\* Mutant: a rotateLog that leaves the new file's descriptor at offset 0,
\* as a Seek(0, 0) after the header (like compressLog's) would.
RotateLogAtStart(f, o, tx) ==
    LET t == clock
        trunc == [tx EXCEPT ![t] = << >>]
    IN  \/ /\ IOFail
           /\ file' = f /\ off' = o /\ txt' = tx
           /\ UNCHANGED <<out, reused>>
        \/ /\ IOFail
           /\ file' = f /\ off' = o /\ txt' = trunc
           /\ reused' = (reused \/ t = f)
           /\ UNCHANGED out
        \/ /\ txt' = [trunc EXCEPT ![t] = <<"hdr">>]
           /\ IF f = Nil
                THEN UNCHANGED out
                ELSE \E c \in CompressOutcomes(txt'[f], out[f]) :
                        out' = [out EXCEPT ![f] = c]
           /\ file' = t /\ off' = 0
           /\ reused' = (reused \/ t = f)

\* rotateLog, from the handle f at offset o over the files tx.  os.Create
\* truncates <clock>.txt, which may be the open file itself.
RotateLog(f, o, tx) ==
    LET t == clock
        trunc == [tx EXCEPT ![t] = << >>]
    IN  \/ /\ IOFail                               \* os.Create fails
           /\ file' = f /\ off' = o /\ txt' = tx
           /\ UNCHANGED <<out, reused>>
        \/ /\ IOFail                               \* the header write fails
           /\ file' = f /\ off' = o /\ txt' = trunc
           /\ reused' = (reused \/ t = f)
           /\ UNCHANGED out
        \/ /\ txt' = [trunc EXCEPT ![t] = <<"hdr">>]
           /\ IF f = Nil
                THEN UNCHANGED out
                ELSE \E c \in CompressOutcomes(txt'[f], out[f]) :
                        out' = [out EXCEPT ![f] = c]
           /\ file' = t /\ off' = 1
           /\ reused' = (reused \/ t = f)

Running == wpc # "panicked"

-----------------------------------------------------------------------------
(* Actions *)

\* NewFileWriter: MkdirAll may fail; otherwise rotateLog, NewTimer, startup.
NewFileWriter ==
    /\ wpc = "unbuilt"
    /\ \/ /\ IOFail
          /\ wpc' = "failed"
          /\ UNCHANGED <<file, off, txt, out, reused, timer>>
       \/ /\ wpc' = "loop"
          /\ RotateLog(Nil, 0, txt)
          /\ timer' = "armed"
    /\ UNCHANGED <<clock, txtQ, issued, calling, accepted, logged, done,
                   sigClosed, stopPc>>

\* Mutant: a loop that breaks only while the signal channel is open (the
\* test of ok inverted), so a closed channel is received again and again.
WriterSigInverted ==
    /\ wpc = "loop" /\ sigClosed
    /\ UNCHANGED vars

\* goWriter, case <-w.sigWriter: a closed channel breaks the loop and the
\* file is closed.
WriterSig ==
    /\ wpc = "loop" /\ sigClosed
    /\ wpc' = "exited"
    /\ UNCHANGED <<clock, file, off, txt, out, timer, txtQ, issued, calling,
                   accepted, logged, reused, done, sigClosed, stopPc>>

\* goWriter, case <-w.fileTimer.C: checkTime.  With fileAge 0 it returns
\* without Reset, so the timer never fires again.
WriterTimer ==
    /\ wpc = "loop" /\ timer = "fired"
    /\ IF AgeRotation
         THEN /\ RotateLog(file, off, txt)
              /\ timer' = "armed"
         ELSE /\ timer' = "stopped"
              /\ UNCHANGED <<file, off, txt, out, reused>>
    /\ UNCHANGED <<wpc, clock, txtQ, issued, calling, accepted, logged, done,
                   sigClosed, stopPc>>

\* checkSize after a write, given the state the write left: with fileSize 0
\* it returns; Stat of a nil file fails and panics; below the limit it
\* returns; otherwise rotateLog.
CheckSize(f, o, tx) ==
    IF SizeLimit = 0 \/ (f # Nil /\ Len(tx[f]) < SizeLimit)
      THEN /\ file' = f /\ off' = o /\ txt' = tx
           /\ UNCHANGED <<wpc, out, reused>>
      ELSE IF f = Nil
      THEN /\ wpc' = "panicked"
           /\ UNCHANGED <<file, off, txt, out, reused>>
      ELSE /\ RotateLog(f, o, tx)
           /\ UNCHANGED wpc

\* Mutant: a failed WriteString whose error is not logged.
WriterLineSilent ==
    /\ wpc = "loop" /\ txtQ # << >>
    /\ LET l == Head(txtQ) IN
       \/ /\ file # Nil
          /\ logged' = logged
          /\ CheckSize(file, off + 1, [txt EXCEPT ![file] = WriteAt(@, off, l)])
       \/ /\ file = Nil \/ IOFail
          /\ logged' = logged
          /\ CheckSize(file, off, txt)
    /\ txtQ' = Tail(txtQ)
    /\ UNCHANGED <<clock, timer, issued, calling, accepted, done, sigClosed,
                   stopPc>>

\* goWriter, case txt := <-w.txtQ: WriteString (an error is logged and the
\* line is lost), then checkSize.
WriterLine ==
    /\ wpc = "loop" /\ txtQ # << >>
    /\ LET l == Head(txtQ) IN
       \/ /\ file # Nil
          /\ logged' = logged
          /\ CheckSize(file, off + 1, [txt EXCEPT ![file] = WriteAt(@, off, l)])
       \/ /\ file = Nil \/ IOFail
          /\ logged' = logged \cup {l}
          /\ CheckSize(file, off, txt)
    /\ txtQ' = Tail(txtQ)
    /\ UNCHANGED <<clock, timer, issued, calling, accepted, done, sigClosed,
                   stopPc>>

\* Line(l) is called.
LineCall(l) ==
    /\ wpc \in {"loop", "exited"}
    /\ l \notin issued
    /\ issued' = issued \cup {l}
    /\ calling' = calling \cup {l}
    /\ UNCHANGED <<wpc, clock, file, off, txt, out, timer, txtQ, accepted,
                   logged, reused, done, sigClosed, stopPc>>

\* Mutant: a Line that drops the line when the queue is full.
LineSendDropping(l) ==
    /\ l \in calling
    /\ txtQ' = IF Len(txtQ) < 1 THEN Append(txtQ, l) ELSE txtQ
    /\ calling' = calling \ {l}
    /\ accepted' = Append(accepted, l)
    /\ UNCHANGED <<wpc, clock, file, off, txt, out, timer, issued, logged,
                   reused, done, sigClosed, stopPc>>

\* Mutant: a send that ignores the capacity of txtQ.
LineSendUnbounded(l) ==
    /\ l \in calling
    /\ txtQ' = Append(txtQ, l)
    /\ calling' = calling \ {l}
    /\ accepted' = Append(accepted, l)
    /\ UNCHANGED <<wpc, clock, file, off, txt, out, timer, issued, logged,
                   reused, done, sigClosed, stopPc>>

\* Line(l): the send w.txtQ <- line completes once the queue has room.
LineSend(l) ==
    /\ l \in calling
    /\ Len(txtQ) < 1
    /\ txtQ' = Append(txtQ, l)
    /\ calling' = calling \ {l}
    /\ accepted' = Append(accepted, l)
    /\ UNCHANGED <<wpc, clock, file, off, txt, out, timer, issued, logged,
                   reused, done, sigClosed, stopPc>>

\* Stop: the first call swaps done to 1, closes sigWriter and waits.
StopCall ==
    /\ stopPc = "none" /\ wpc \in {"loop", "exited"}
    /\ done = 0
    /\ done' = 1 /\ sigClosed' = TRUE /\ stopPc' = "wait"
    /\ UNCHANGED <<wpc, clock, file, off, txt, out, timer, txtQ, issued,
                   calling, accepted, logged, reused>>

\* Mutant: Stop without wg.Wait.
StopReturnNoWait ==
    /\ stopPc = "wait"
    /\ stopPc' = "returned"
    /\ UNCHANGED <<wpc, clock, file, off, txt, out, timer, txtQ, issued,
                   calling, accepted, logged, reused, done, sigClosed>>

\* Stop: wg.Wait returns once goWriter has exited.
StopReturn ==
    /\ stopPc = "wait" /\ wpc = "exited"
    /\ stopPc' = "returned"
    /\ UNCHANGED <<wpc, clock, file, off, txt, out, timer, txtQ, issued,
                   calling, accepted, logged, reused, done, sigClosed>>

\* The environment: a second passes, or the timer expires.
Tick ==
    /\ clock < MaxTime
    /\ clock' = clock + 1
    /\ UNCHANGED <<wpc, file, off, txt, out, timer, txtQ, issued, calling,
                   accepted, logged, reused, done, sigClosed, stopPc>>

TimerFire ==
    /\ timer = "armed"
    /\ timer' = "fired"
    /\ UNCHANGED <<wpc, clock, file, off, txt, out, txtQ, issued, calling,
                   accepted, logged, reused, done, sigClosed, stopPc>>

Next ==
    /\ Running
    /\ \/ NewFileWriter \/ WriterSig \/ WriterTimer \/ WriterLine
       \/ \E l \in Lines : LineCall(l) \/ LineSend(l)
       \/ StopCall \/ StopReturn \/ Tick \/ TimerFire

\* goWriter's select picks uniformly among ready cases, and blocked senders
\* on a channel are served in FIFO order.
Fairness ==
    /\ WF_vars(Running /\ WriterSig)
    /\ WF_vars(Running /\ WriterTimer)
    /\ WF_vars(Running /\ WriterLine)
    /\ WF_vars(Running /\ StopReturn)
    /\ \A l \in Lines : SF_vars(Running /\ LineSend(l))

Spec == Init /\ [][Next]_vars /\ Fairness

-----------------------------------------------------------------------------
(* Properties *)

IsLine(x) == x \in Lines

\* The lines on disk, reading the .txt files in name order.
Persisted ==
    SelectSeq(FlattenSeq([i \in 1..MaxTime + 1 |-> txt[i - 1]]), IsLine)

\* The accepted lines whose loss was not logged.
Unlogged == SelectSeq(accepted, LAMBDA l : l \notin logged)

\* The lines in some .txt file.
OnDisk == UNION {Range(txt[t]) : t \in Time}

\* Unless a rotation re-created the open file's name, no line Line has
\* accepted disappears without a logged error: it is in some .txt file,
\* still in txtQ, or its WriteString failed and was logged.  A line leaves
\* txtQ only in goWriter's write, and then rotateLog, compressLog and
\* checkSize's failures must not take it out of the file it went to.
NoLineDropped == ~reused => Range(accepted) \subseteq OnDisk \cup Range(txtQ) \cup logged

\* Unless a rotation re-created the open file's name, every line Line has
\* accepted and whose write did not log an error is, in acceptance order,
\* either in a .txt file or still in txtQ: rotation, compression and
\* failed creates, header writes and copies never drop or reorder a line.
NoSilentLoss == ~reused => Persisted \o txtQ = Unlogged

\* The step's os.Create in rotateLog re-created the open file's own name
\* (the clock still reads the second the open file was created in): the
\* file is left empty, or holding only the header.
Recreated(t) == t = file /\ t = clock /\ txt'[t] \in {<< >>, <<"hdr">>}

\* A .txt file only grows: no write, header, truncation by os.Create or
\* compression copy removes or overwrites an item already in a file, except
\* in the one step whose rotation re-creates the open file's name within
\* its second.  It rests on the descriptor's offset never being before the
\* end of the open file, and on a file named after a later second than the
\* open one being still empty when rotateLog creates it.
LinesStable == [][\A t \in Time : IsPrefix(txt[t], txt'[t]) \/ Recreated(t)]_vars

\* Spec S5 and section 4.5: rotation keeps every line (with no I/O error,
\* every accepted line is on disk or queued).
NoLineLost == Persisted \o txtQ = accepted

\* A graceful Stop writes out what Line has accepted before it returns.
StopFlushes == stopPc = "returned" => Persisted = Unlogged

=============================================================================
