------------------------------ MODULE MainProofs ------------------------------
(***************************************************************************)
(* Proofs about main composed with the file writer, for every set of lines *)
(* and every bound on signals.                                             *)
(***************************************************************************)
EXTENDS Main, FileWriterProofs, TLAPS

(* os.Exit(0) follows the shutdown chain: main's select took c, the        *)
(* goroutine sent on c only after wfile.Stop returned, and that Stop       *)
(* returned only after goWriter exited.  goWriter never leaves "exited".   *)
ExitInv ==
    /\ stopPc = "returned" => wpc = "exited"
    /\ spc \in {"logr", "send", "sent"} => stopPc = "returned"
    /\ code = 0 => spc = "sent" /\ mpc = "exited"

LEMMA ExitInvInit == MainInit => ExitInv
BY DEF MainInit, Init, ExitInv, NoCode

\* A step that keeps main's variables, and the writer's wpc and stopPc,
\* keeps ExitInv.
LEMMA ExitInvFrame ==
    ASSUME ExitInv, wpc' = wpc, stopPc' = stopPc, UNCHANGED mainVars
    PROVE  ExitInv'
BY DEF ExitInv, mainVars

LEMMA ExitInvStep == ExitInv /\ [MainNext]_sysVars => ExitInv'
<1> SUFFICES ASSUME ExitInv, [MainNext]_sysVars PROVE ExitInv'
  OBVIOUS
<1>1. ASSUME NEW s \in Stages, Construct(s) PROVE ExitInv'
  <2>1. ExitCode[s] # 0 /\ s # "exited"
    BY DEF Stages, ExitCode
  <2>2. /\ code' \in {code, ExitCode[s]} /\ mpc = s
        /\ spc' = spc /\ wpc' = wpc /\ stopPc' = stopPc
    BY <1>1 DEF Construct, vars
  <2>. QED
    BY <2>1, <2>2 DEF ExitInv
<1>2. CASE CreateWriter
  BY <1>2 DEF CreateWriter, NewFileWriter, ExitInv, ExitCode
<1>3. CASE SigRecv
  <2>1. /\ spc' \in {spc, "mgr"} /\ mpc' \in {mpc, "select"}
        /\ code' = code /\ mpc = "loop"
        /\ wpc' = wpc /\ stopPc' = stopPc
    BY <1>3 DEF SigRecv, vars
  <2>. QED
    BY <2>1 DEF ExitInv
<1>4. CASE SelectSignal
  BY <1>4 DEF SelectSignal, ExitInv, vars
<1>5. CASE SelectDone
  BY <1>5 DEF SelectDone, ExitInv, vars
<1>6. CASE ShutdownMgr \/ ShutdownRepo \/ ShutdownSend
  BY <1>6 DEF ShutdownMgr, ShutdownRepo, ShutdownSend, ExitInv, vars
<1>7. CASE ShutdownWriter
  BY <1>7 DEF ShutdownWriter, StopCall, ExitInv, mainVars
<1>8. CASE ShutdownLogr
  BY <1>8 DEF ShutdownLogr, ExitInv, vars
<1>9. ASSUME NEW s \in Signals, Deliver(s) PROVE ExitInv'
  BY <1>9 DEF Deliver, ExitInv, vars
<1>10. ASSUME NEW l \in Lines, RecordLine(l) PROVE ExitInv'
  BY <1>10, ExitInvFrame DEF RecordLine, LineCall
<1>11. CASE WriterStep
  <2>1. CASE WriterSig /\ UNCHANGED mainVars
    BY <2>1 DEF WriterSig, ExitInv, mainVars
  <2>2. CASE WriterTimer /\ UNCHANGED mainVars
    BY <2>2, ExitInvFrame DEF WriterTimer
  <2>3. CASE WriterLine /\ UNCHANGED mainVars
    \* goWriter still loops, so Stop has not returned
    <3>1. wpc = "loop" /\ stopPc' = stopPc
      BY <2>3 DEF WriterLine
    <3>. QED
      BY <2>3, <3>1 DEF ExitInv, mainVars
  <2>4. CASE StopReturn /\ UNCHANGED mainVars
    BY <2>4 DEF StopReturn, ExitInv, mainVars
  <2>5. CASE (Tick \/ TimerFire) /\ UNCHANGED mainVars
    BY <2>5, ExitInvFrame DEF Tick, TimerFire
  <2>6. ASSUME NEW l \in Lines, LineSend(l), UNCHANGED mainVars PROVE ExitInv'
    BY <2>6, ExitInvFrame DEF LineSend
  <2>. QED
    BY <1>11, <2>1, <2>2, <2>3, <2>4, <2>5, <2>6 DEF WriterStep
<1>12. CASE UNCHANGED sysVars
  BY <1>12 DEF sysVars, vars, mainVars, ExitInv
<1>. QED
  BY <1>1, <1>2, <1>3, <1>4, <1>5, <1>6, <1>7, <1>8, <1>9, <1>10, <1>11,
     <1>12 DEF MainNext

\* os.Exit(0) only after goWriter has exited (property CleanExitAfterWriter,
\* checked by TLC on run main_writer_safety).
THEOREM CleanExit == MainSpec => []CleanExitAfterWriter
<1>1. ExitInv => CleanExitAfterWriter
  BY DEF ExitInv, CleanExitAfterWriter
<1>. QED
  BY <1>1, ExitInvInit, ExitInvStep, PTL DEF MainSpec


-----------------------------------------------------------------------------
(* Type correctness of the composition.  Every step of main, its shutdown  *)
(* goroutine and its environment is a step of the writer's Next or leaves  *)
(* the writer alone, so the writer keeps TypeOK; main's own variables keep *)
(* their types because the delivery of a signal respects the capacity of   *)
(* sigc and the number of signals stays within MaxSignals.                 *)

\* A step of the composition is a step, or a stutter, of the file writer.
LEMMA WriterView == MainNext => [Next]_vars
<1> SUFFICES ASSUME MainNext PROVE [Next]_vars
  OBVIOUS
<1>1. Running
  BY DEF MainNext, Halted
<1>2. CASE \E s \in Stages : Construct(s)
  BY <1>2 DEF Construct
<1>3. CASE CreateWriter
  BY <1>1, <1>3 DEF CreateWriter, Next
<1>4. CASE SigRecv \/ SelectSignal \/ SelectDone \/ ShutdownMgr \/ ShutdownRepo
           \/ ShutdownLogr \/ ShutdownSend
  BY <1>4 DEF SigRecv, SelectSignal, SelectDone, ShutdownMgr, ShutdownRepo,
              ShutdownLogr, ShutdownSend
<1>5. CASE ShutdownWriter
  BY <1>1, <1>5 DEF ShutdownWriter, Next
<1>6. CASE \E x \in Signals : Deliver(x)
  BY <1>6 DEF Deliver
<1>7. CASE \E l \in Lines : RecordLine(l)
  BY <1>1, <1>7 DEF RecordLine, Next
<1>8. CASE WriterStep
  BY <1>1, <1>8 DEF WriterStep, Next
<1>. QED
  BY <1>2, <1>3, <1>4, <1>5, <1>6, <1>7, <1>8 DEF MainNext

\* Main's variables keep their types.
LEMMA MainTypeStep ==
    MainTypeOK /\ [MainNext]_sysVars => MainTypeOK'
<1> SUFFICES ASSUME MainTypeOK, [MainNext]_sysVars PROVE MainTypeOK'
  OBVIOUS
<1>1. ASSUME NEW s \in Stages, Construct(s) PROVE MainTypeOK'
  BY <1>1 DEF Construct, MainTypeOK, After, ExitCode, Stages
<1>2. CASE CreateWriter
  BY <1>2 DEF CreateWriter, MainTypeOK, After, ExitCode, Stages
<1>3. CASE SigRecv \/ SelectSignal
  <2>1. Tail(sigc) \in Seq(Signals) /\ Len(Tail(sigc)) <= 1
    BY <1>3 DEF SigRecv, SelectSignal, MainTypeOK
  <2>. QED
    BY <1>3, <2>1 DEF SigRecv, SelectSignal, MainTypeOK
<1>4. CASE SelectDone \/ ShutdownMgr \/ ShutdownRepo \/ ShutdownLogr
           \/ ShutdownSend \/ ShutdownWriter \/ WriterStep
  BY <1>4 DEF SelectDone, ShutdownMgr, ShutdownRepo, ShutdownLogr,
              ShutdownSend, ShutdownWriter, WriterStep, MainTypeOK, mainVars
<1>5. ASSUME NEW x \in Signals, Deliver(x) PROVE MainTypeOK'
  <2>1. sigc' \in Seq(Signals) /\ Len(sigc') <= 1
    <3>1. CASE Len(sigc) < 1
      <4>1. sigc' = Append(sigc, x)
        BY <1>5, <3>1 DEF Deliver
      <4>. QED
        BY <3>1, <4>1 DEF MainTypeOK
    <3>2. CASE ~(Len(sigc) < 1)
      BY <1>5, <3>2 DEF Deliver, MainTypeOK
    <3>. QED
      BY <3>1, <3>2
  <2>2. sent' \in 0..MaxSignals
    BY <1>5, MainAssumption DEF Deliver, MainTypeOK
  <2>3. mpc' = mpc /\ code' = code /\ spc' = spc
    BY <1>5 DEF Deliver
  <2>. QED
    BY <2>1, <2>2, <2>3 DEF MainTypeOK
<1>6. ASSUME NEW l \in Lines, RecordLine(l) PROVE MainTypeOK'
  BY <1>6 DEF RecordLine, MainTypeOK, mainVars
<1>7. CASE UNCHANGED sysVars
  BY <1>7 DEF sysVars, mainVars, MainTypeOK
<1>. QED
  BY <1>1, <1>2, <1>3, <1>4, <1>5, <1>6, <1>7 DEF MainNext

\* The writer's and main's variables keep their types in every behaviour of
\* the composed process: sigc never holds more than its one buffered signal.
THEOREM MainTypeCorrect == MainSpec => [](TypeOK /\ MainTypeOK)
<1>1. MainInit => TypeOK /\ MainTypeOK
  BY TypeInit, MainAssumption DEF MainInit, MainTypeOK, NoCode, Stages
<1>2. TypeOK /\ [MainNext]_sysVars => TypeOK'
  <2> SUFFICES ASSUME TypeOK, [MainNext]_sysVars PROVE TypeOK'
    OBVIOUS
  <2>1. CASE MainNext
    BY <2>1, WriterView, TypeStep
  <2>2. CASE UNCHANGED sysVars
    BY <2>2, TypeStep DEF sysVars
  <2>. QED
    BY <2>1, <2>2
<1>. QED
  BY <1>1, <1>2, MainTypeStep, PTL DEF MainSpec


\* In the composed process too, every .txt file only grows (LinesStable)
\* except in the step whose rotation re-creates the open file's name: main,
\* its shutdown goroutine and the recorders reach the files only through
\* the writer's steps.
THEOREM MainFilesOnlyGrow == MainSpec => LinesStable
<1>1. MainInit => TypeOK /\ WriteInv /\ OffInv
  BY TypeInit, WriteInvInit, OffInvInit DEF MainInit
<1>2. [MainNext]_sysVars => [Next]_vars
  BY WriterView DEF sysVars
<1>3. TypeOK /\ WriteInv /\ OffInv /\ [MainNext]_sysVars => (TypeOK /\ WriteInv /\ OffInv)'
  BY <1>2, TypeStep, WriteStep, StableStep
<1>4. TypeOK /\ WriteInv /\ OffInv /\ [MainNext]_sysVars
        => [\A t \in Time : IsPrefix(txt[t], txt'[t]) \/ Recreated(t)]_vars
  BY <1>2, StableStep DEF StableFrom
<1>. QED
  BY <1>1, <1>3, <1>4, PTL DEF MainSpec, LinesStable


\* In the whole process too, no line a recorder hands to wfile.Line is
\* lost without a logged error (NoLineDropped): main's own steps leave the
\* writer's state alone, so its steps are writer steps or stutters.
THEOREM MainNoLineDropped == MainSpec => []NoLineDropped
<1>1. MainInit => TypeOK /\ WriteInv /\ NoLineDropped
  BY TypeInit, WriteInvInit DEF MainInit, Init, NoLineDropped, Range
<1>2. [MainNext]_sysVars => [Next]_vars
  BY WriterView DEF sysVars
<1>3. TypeOK /\ WriteInv /\ NoLineDropped /\ [MainNext]_sysVars
        => (TypeOK /\ WriteInv /\ NoLineDropped)'
  BY <1>2, TypeStep, WriteStep, DroppedStep
<1>. QED
  BY <1>1, <1>3, PTL DEF MainSpec


-----------------------------------------------------------------------------
(* Refinement of the abstract lifecycle.  The mapping needs LifeInv: the   *)
(* shutdown goroutine exists only once main has left its signal loop;      *)
(* sigWriter is closed only by the shutdown's wfile.Stop, so goWriter's    *)
(* exit happens while two components have stopped; wfile.Stop returns only *)
(* after goWriter exited; and lines reach the writer only once every       *)
(* component is built, so a writer panic happens in a running process.     *)

LifeInv ==
    /\ mpc \in Stages \cup {"loop"} => spc = "none"
    /\ spc # "none" => mpc \in {"select", "exited", "panicked"}
    /\ sigClosed => spc \in {"wfile", "logr", "send", "sent"}
    /\ sigClosed /\ wpc = "loop" => spc = "wfile"
    /\ stopPc = "returned" => wpc = "exited"
    /\ issued = {} => calling = {} /\ txtQ = << >>
    /\ issued # {} => mpc \in {"loop", "select", "exited", "panicked"}

LEMMA LifeInvInit == MainInit => LifeInv
BY DEF MainInit, Init, LifeInv

\* A step that keeps main's pc and the shutdown's, and the writer's wpc,
\* sigClosed, stopPc, issued, calling and txtQ, keeps LifeInv.
LEMMA LifeInvFrame ==
    ASSUME LifeInv,
           UNCHANGED <<mpc, spc, wpc, sigClosed, stopPc, issued, calling, txtQ>>
    PROVE  LifeInv'
BY DEF LifeInv

LEMMA LifeInvStep == LifeInv /\ [MainNext]_sysVars => LifeInv'
<1> SUFFICES ASSUME LifeInv, [MainNext]_sysVars PROVE LifeInv'
  OBVIOUS
<1>1. ASSUME NEW s \in Stages, Construct(s) PROVE LifeInv'
  <2>1. After[s] \in Stages \cup {"loop"}
    BY DEF After, Stages
  <2>2. mpc = s /\ mpc' \in {After[s], "exited"} /\ UNCHANGED <<spc, vars>>
    BY <1>1 DEF Construct
  <2>. QED
    BY <2>1, <2>2 DEF LifeInv, vars, Stages
<1>2. CASE CreateWriter
  <2>1. mpc = "wfile" /\ mpc' \in {"wzmq", "exited"} /\ wpc = "unbuilt"
        /\ UNCHANGED <<spc, sigClosed, stopPc, issued, calling, txtQ>>
    BY <1>2 DEF CreateWriter, NewFileWriter, After
  <2>. QED
    BY <2>1 DEF LifeInv, Stages
<1>3. CASE SigRecv
  <2>1. mpc = "loop" /\ mpc' \in {"loop", "select"} /\ spc' \in {spc, "mgr"}
        /\ (mpc' = "loop" => spc' = spc) /\ UNCHANGED vars
    BY <1>3 DEF SigRecv
  <2>. QED
    BY <2>1 DEF LifeInv, vars, Stages
<1>4. CASE SelectSignal \/ SelectDone
  BY <1>4 DEF SelectSignal, SelectDone, LifeInv, vars, Stages
<1>5. CASE ShutdownMgr \/ ShutdownRepo \/ ShutdownLogr \/ ShutdownSend
  BY <1>5 DEF ShutdownMgr, ShutdownRepo, ShutdownLogr, ShutdownSend, LifeInv,
              vars
<1>6. CASE ShutdownWriter
  BY <1>6 DEF ShutdownWriter, StopCall, LifeInv, mainVars
<1>7. ASSUME NEW x \in Signals, Deliver(x) PROVE LifeInv'
  BY <1>7, LifeInvFrame DEF Deliver, vars
<1>8. ASSUME NEW l \in Lines, RecordLine(l) PROVE LifeInv'
  BY <1>8 DEF RecordLine, LineCall, LifeInv, mainVars
<1>9. CASE WriterStep
  <2>1. CASE WriterSig \/ StopReturn
    BY <1>9, <2>1 DEF WriterSig, StopReturn, LifeInv, mainVars, WriterStep
  <2>2. CASE WriterLine
    BY <1>9, <2>2 DEF WriterLine, LifeInv, mainVars, WriterStep
  <2>3. CASE WriterTimer \/ Tick \/ TimerFire
    BY <1>9, <2>3, LifeInvFrame DEF WriterTimer, Tick, TimerFire, mainVars,
                                    WriterStep
  <2>4. ASSUME NEW l \in Lines, LineSend(l) PROVE LifeInv'
    BY <1>9, <2>4 DEF LineSend, LifeInv, mainVars, WriterStep
  <2>. QED
    BY <1>9, <2>1, <2>2, <2>3, <2>4 DEF WriterStep
<1>10. CASE UNCHANGED sysVars
  BY <1>10, LifeInvFrame DEF sysVars, vars, mainVars
<1>. QED
  BY <1>1, <1>2, <1>3, <1>4, <1>5, <1>6, <1>7, <1>8, <1>9, <1>10 DEF MainNext


\* A step that keeps main's pc, the shutdown's pc, the writer's pc and the
\* exit code is a stutter of the lifecycle.
LEMMA LifeFrame ==
    ASSUME UNCHANGED <<mpc, spc, wpc, code>>
    PROVE  UNCHANGED Life!vars
BY DEF Life!vars, Phase, Running

\* In a live process the phase is read off main's pc.
LEMMA PhaseLive ==
    ASSUME ~Halted
    PROVE  /\ mpc \in Stages => Phase = "starting"
           /\ mpc = "loop" => Phase = "running"
           /\ mpc = "select" => Phase = "stopping"
BY DEF Phase, Halted, Stages

\* Every step of main maps to a lifecycle step or a stutter.
LEMMA LifeStep == LifeInv /\ [MainNext]_sysVars => [Life!Next]_Life!vars
<1> SUFFICES ASSUME LifeInv, [MainNext]_sysVars PROVE [Life!Next]_Life!vars
  OBVIOUS
<1>0. CASE UNCHANGED sysVars
  BY <1>0, LifeFrame DEF sysVars, vars, mainVars
<1> SUFFICES ASSUME MainNext PROVE [Life!Next]_Life!vars
  BY <1>0
<1>a. ~Halted /\ Running
  BY DEF MainNext, Halted
<1>1. ASSUME NEW s \in Stages, Construct(s) PROVE [Life!Next]_Life!vars
  <2>1. mpc = s /\ UNCHANGED <<spc, wpc>> /\ Phase = "starting"
    BY <1>1, <1>a, PhaseLive DEF Construct, vars
  <2>2. CASE mpc' = After[s] /\ UNCHANGED code /\ s = "mgr"
    <3>1. Phase' = "running"
      BY <1>a, <2>1, <2>2 DEF Phase, After, Running, Stages
    <3>2. Life!Ready
      BY <2>1, <2>2, <3>1 DEF Life!Ready
    <3>. QED
      BY <3>2 DEF Life!Next
  <2>3. CASE mpc' = After[s] /\ UNCHANGED code /\ s # "mgr"
    <3>1. Phase' = "starting"
      BY <1>a, <2>1, <2>3 DEF Phase, After, Running, Stages
    <3>. QED
      BY <2>1, <2>3, <3>1 DEF Life!vars
  <2>4. CASE mpc' = "exited" /\ code' = ExitCode[s]
    <3>1. ExitCode[s] \in 1..4
      BY DEF ExitCode, Stages
    <3>2. Phase' = "exited"
      BY <1>a, <2>1, <2>4 DEF Phase, Running
    <3>3. Life!Fail
      BY <2>1, <2>4, <3>1, <3>2 DEF Life!Fail
    <3>. QED
      BY <3>3 DEF Life!Next
  <2>. QED
    BY <1>1, <2>2, <2>3, <2>4 DEF Construct
<1>2. CASE CreateWriter
  <2>1. mpc = "wfile" /\ UNCHANGED spc /\ Phase = "starting"
        /\ wpc' \in {"failed", "loop"} /\ wpc = "unbuilt"
    BY <1>2, <1>a, PhaseLive DEF CreateWriter, NewFileWriter, Stages
  <2>2. CASE wpc' = "failed"
    <3>1. mpc' = "exited" /\ code' = 3
      BY <1>2, <2>2 DEF CreateWriter, ExitCode
    <3>2. Phase' = "exited"
      BY <2>2, <3>1 DEF Phase, Running
    <3>3. Life!Fail
      BY <2>1, <2>2, <3>1, <3>2 DEF Life!Fail
    <3>. QED
      BY <3>3 DEF Life!Next
  <2>3. CASE wpc' = "loop"
    <3>1. mpc' = "wzmq" /\ code' = code
      BY <1>2, <2>3 DEF CreateWriter, After
    <3>2. Phase' = "starting"
      BY <2>3, <3>1 DEF Phase, Running, Stages
    <3>. QED
      BY <2>1, <2>3, <3>1, <3>2 DEF Life!vars
  <2>. QED
    BY <2>1, <2>2, <2>3
<1>3. CASE SigRecv
  <2>1. mpc = "loop" /\ spc = "none" /\ Phase = "running" /\ UNCHANGED <<wpc, code>>
    BY <1>3, <1>a, PhaseLive DEF SigRecv, LifeInv, Stages, vars
  <2>2. CASE Head(sigc) = "INT"
    <3>1. mpc' = "select" /\ spc' = "mgr"
      BY <1>3, <2>2 DEF SigRecv
    <3>2. Phase' = "stopping" /\ Stopped[spc'] = Stopped[spc]
      BY <1>a, <2>1, <3>1 DEF Phase, Running, Stages, Stopped
    <3>3. Life!Interrupt
      BY <2>1, <3>2 DEF Life!Interrupt
    <3>. QED
      BY <3>3 DEF Life!Next
  <2>3. CASE Head(sigc) # "INT"
    BY <1>3, <2>3, LifeFrame DEF SigRecv, vars
  <2>. QED
    BY <2>2, <2>3
<1>4. CASE SelectSignal
  <2>1. Phase = "stopping" /\ Phase' = "panicked" /\ UNCHANGED <<spc, wpc, code>>
    BY <1>4, <1>a, PhaseLive DEF SelectSignal, vars, Phase
  <2>2. Life!Panic
    BY <2>1 DEF Life!Panic
  <2>. QED
    BY <2>2 DEF Life!Next
<1>5. CASE SelectDone
  <2>1. Phase = "stopping" /\ Phase' = "exited" /\ UNCHANGED wpc
        /\ Stopped[spc] = 4 /\ Stopped[spc'] = 4 /\ code' = 0
    BY <1>5, <1>a, PhaseLive DEF SelectDone, vars, Phase, Running, Stopped
  <2>2. Life!Finish
    BY <2>1 DEF Life!Finish, Life!StopOrder
  <2>. QED
    BY <2>2 DEF Life!Next
<1>6. CASE ShutdownMgr \/ ShutdownRepo \/ ShutdownLogr \/ ShutdownSend
  <2>1. spc # "none" /\ UNCHANGED <<mpc, wpc, code>>
    BY <1>6 DEF ShutdownMgr, ShutdownRepo, ShutdownLogr, ShutdownSend, vars
  <2>2. Phase = "stopping" /\ Phase' = "stopping"
    <3>1. mpc = "select"
      BY <2>1, <1>a DEF LifeInv, Halted
    <3>. QED
      BY <1>a, <2>1, <3>1 DEF Phase, Running, Stages
  <2>3. /\ Stopped[spc] \in 0..3 /\ Stopped[spc'] = Stopped[spc] + 1
        /\ (Stopped[spc] = 2 => wpc = "exited")
    <3>1. stopPc = "returned" => wpc = "exited"
      BY DEF LifeInv
    <3>. QED
      BY <1>6, <3>1 DEF ShutdownMgr, ShutdownRepo, ShutdownLogr, ShutdownSend,
                        Stopped
  <2>4. Life!StopNext
    <3>1. Life!StopOrder[3] = "wfile" /\ Len(Life!StopOrder) = 4
          /\ \A k \in {1, 2, 4} : Life!StopOrder[k] # "wfile"
      BY DEF Life!StopOrder
    <3>. QED
      BY <2>1, <2>2, <2>3, <3>1 DEF Life!StopNext
  <2>. QED
    BY <2>4 DEF Life!Next
<1>7. CASE ShutdownWriter
  BY <1>7, LifeFrame DEF ShutdownWriter, StopCall, mainVars
<1>8. ASSUME NEW x \in Signals, Deliver(x) PROVE [Life!Next]_Life!vars
  BY <1>8, LifeFrame DEF Deliver, vars
<1>9. ASSUME NEW l \in Lines, RecordLine(l) PROVE [Life!Next]_Life!vars
  BY <1>9, LifeFrame DEF RecordLine, LineCall, mainVars
<1>10. CASE WriterSig /\ UNCHANGED mainVars
  <2>1. spc = "wfile" /\ mpc = "select" /\ wpc = "loop" /\ wpc' = "exited"
    BY <1>10, <1>a DEF WriterSig, LifeInv, Halted
  <2>2. Phase = "stopping" /\ Phase' = "stopping"
    BY <1>10, <2>1, <1>a DEF mainVars, Phase, Running, Stages
  <2>3. Stopped[spc] = 2 /\ UNCHANGED <<spc, code>>
    BY <1>10, <2>1 DEF mainVars, Stopped
  <2>4. Life!Flush
    BY <2>1, <2>2, <2>3 DEF Life!Flush
  <2>. QED
    BY <2>4 DEF Life!Next
<1>11. CASE WriterLine /\ UNCHANGED mainVars
  <2>1. wpc' \in {"loop", "panicked"} /\ wpc = "loop"
    BY <1>11 DEF WriterLine, CheckSize, RotateLog
  <2>2. CASE wpc' = "loop"
    BY <1>11, <2>2, <2>1, LifeFrame DEF mainVars
  <2>3. CASE wpc' = "panicked"
    <3>1. mpc \in {"loop", "select"}
      BY <1>11, <1>a DEF WriterLine, LifeInv, Halted
    <3>2. Phase \in {"running", "stopping"}
      BY <3>1, <1>a, PhaseLive
    <3>3. Phase' = "panicked"
      BY <2>3 DEF Phase, Running
    <3>4. Life!Panic
      BY <1>11, <2>1, <3>2, <3>3 DEF mainVars, Life!Panic
    <3>. QED
      BY <3>4 DEF Life!Next
  <2>. QED
    BY <2>1, <2>2, <2>3
<1>12. CASE (WriterTimer \/ StopReturn \/ Tick \/ TimerFire) /\ UNCHANGED mainVars
  BY <1>12, LifeFrame DEF WriterTimer, StopReturn, Tick, TimerFire, mainVars
<1>13. ASSUME NEW l \in Lines, LineSend(l), UNCHANGED mainVars
       PROVE  [Life!Next]_Life!vars
  BY <1>13, LifeFrame DEF LineSend, mainVars
<1>. QED
  BY <1>1, <1>2, <1>3, <1>4, <1>5, <1>6, <1>7, <1>8, <1>9, <1>10, <1>11,
     <1>12, <1>13 DEF MainNext, WriterStep

\* pbtc's main implements the abstract lifecycle (property
\* ImplementsLifecycle, checked by TLC on run main_writer_safety): for every
\* set of lines and bound on signals, a construction failure exits non-zero,
\* the shutdown stops mgr, repo, wfile and logr in order with wfile.Stop
\* returning after goWriter exited, exit 0 comes only after all four, and
\* a panic only once the process runs.
THEOREM LifecycleRefinement == MainSpec => ImplementsLifecycle
<1>1. MainInit => Life!Init
  BY DEF MainInit, Init, Life!Init, Phase, Running, Stages, Stopped, NoCode
<1>2. MainSpec => []LifeInv
  BY LifeInvInit, LifeInvStep, PTL DEF MainSpec
<1>. QED
  BY <1>1, <1>2, LifeStep, PTL DEF MainSpec, ImplementsLifecycle, Life!Spec

=============================================================================
