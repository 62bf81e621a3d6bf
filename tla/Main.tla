-------------------------------- MODULE Main --------------------------------
(***************************************************************************)
(* The process of src/pbtc.go (the second main, lines 129-306) composed    *)
(* with the file writer it builds and stops.  main registers sigc          *)
(* (capacity 1) for SIGINT and SIGHUP, builds the logger, the repository,  *)
(* the file writer, the ZeroMQ writer, three recorders and the manager,    *)
(* exiting with the code of the first constructor that fails, then loops   *)
(* over sigc: SIGHUP continues, SIGINT breaks.  A shutdown goroutine then  *)
(* stops the manager, the repository, the file writer and the logger and   *)
(* sends on the unbuffered c, while main selects over sigc (any signal     *)
(* panics) and c (exit 0).                                                 *)
(*                                                                         *)
(* The file writer is module FileWriter, its Stop called by the shutdown   *)
(* goroutine and its Line by the recorders once the manager exists.  The   *)
(* manager's and the repository's Stop are single steps that return: the  *)
(* manager's by StopCompletes (module Manager), the repository's because   *)
(* it waits for nothing.                                                   *)
(***************************************************************************)
EXTENDS FileWriter

CONSTANTS
    MaxSignals,  \* how many signals the operating system delivers
    InitFail     \* whether the constructors other than NewFileWriter may fail

ASSUME MainAssumption ==
    /\ MaxSignals \in Nat
    /\ InitFail \in BOOLEAN

\* The constructors in the order main calls them, what follows each, and the
\* exit code of its failure.
Stages == {"logger", "repo", "wfile", "wzmq", "rec_all", "rec_addr", "rec_ip", "mgr"}
After == [logger |-> "repo", repo |-> "wfile", wfile |-> "wzmq",
          wzmq |-> "rec_all", rec_all |-> "rec_addr", rec_addr |-> "rec_ip",
          rec_ip |-> "mgr", mgr |-> "loop"]
ExitCode == [logger |-> 1, repo |-> 2, wfile |-> 3, wzmq |-> 3,
             rec_all |-> 4, rec_addr |-> 4, rec_ip |-> 4, mgr |-> 4]
Signals == {"INT", "HUP"}
NoCode == -1

VARIABLES
    mpc,    \* main: a stage, "loop", "select", "exited" or "panicked"
    code,   \* the code passed to os.Exit, NoCode before
    sigc,   \* the channel sigc
    sent,   \* signals the operating system has delivered
    spc     \* the shutdown goroutine: "none", "mgr", "repo", "wfile", "logr", "send", "sent"

mainVars == <<mpc, code, sigc, sent, spc>>
sysVars == <<vars, mainVars>>

MainTypeOK ==
    /\ mpc \in Stages \cup {"loop", "select", "exited", "panicked"}
    /\ code \in {NoCode} \cup 0..4
    /\ sigc \in Seq(Signals) /\ Len(sigc) <= 1
    /\ sent \in 0..MaxSignals
    /\ spc \in {"none", "mgr", "repo", "wfile", "logr", "send", "sent"}

\* The process has ended: os.Exit, the shutdown panic, or a panic of the
\* writer goroutine.
Halted == mpc \in {"exited", "panicked"} \/ ~Running

MainInit ==
    /\ Init
    /\ mpc = "logger" /\ code = NoCode
    /\ sigc = << >> /\ sent = 0 /\ spc = "none"

-----------------------------------------------------------------------------
(* main *)

\* A constructor other than NewFileWriter returns its component, or an
\* error and main calls os.Exit with the code of its stage.
Construct(s) ==
    /\ mpc = s /\ s # "wfile"
    /\ \/ mpc' = After[s] /\ UNCHANGED code
       \/ InitFail /\ mpc' = "exited" /\ code' = ExitCode[s]
    /\ UNCHANGED <<vars, sigc, sent, spc>>

\* writer.NewFileWriter; an error exits with 3.  A failed first rotateLog
\* returns no error, and main goes on with a nil file.
CreateWriter ==
    /\ mpc = "wfile"
    /\ NewFileWriter
    /\ IF wpc' = "failed"
         THEN mpc' = "exited" /\ code' = ExitCode["wfile"]
         ELSE mpc' = After["wfile"] /\ UNCHANGED code
    /\ UNCHANGED <<sigc, sent, spc>>

\* SigLoop receives a signal: SIGHUP continues; SIGINT breaks, c is made,
\* the shutdown goroutine is launched and main enters the select.
SigRecv ==
    /\ mpc = "loop" /\ sigc # << >>
    /\ sigc' = Tail(sigc)
    /\ IF Head(sigc) = "INT"
         THEN mpc' = "select" /\ spc' = "mgr"
         ELSE UNCHANGED <<mpc, spc>>
    /\ UNCHANGED <<vars, code, sent>>

\* The select takes a signal from sigc: panic("SHUTDOWN FAILED").
SelectSignal ==
    /\ mpc = "select" /\ sigc # << >>
    /\ sigc' = Tail(sigc)
    /\ mpc' = "panicked"
    /\ UNCHANGED <<vars, code, sent, spc>>

\* The select takes the shutdown goroutine's send on c: os.Exit(0).
SelectDone ==
    /\ mpc = "select" /\ spc = "send"
    /\ spc' = "sent" /\ mpc' = "exited" /\ code' = 0
    /\ UNCHANGED <<vars, sigc, sent>>

-----------------------------------------------------------------------------
(* The shutdown goroutine *)

\* Mutant: a shutdown goroutine that leaves out repo.Stop().
ShutdownMgrSkipsRepo ==
    /\ spc = "mgr" /\ spc' = "wfile"
    /\ UNCHANGED <<vars, mpc, code, sigc, sent>>

ShutdownMgr ==
    /\ spc = "mgr" /\ spc' = "repo"
    /\ UNCHANGED <<vars, mpc, code, sigc, sent>>

ShutdownRepo ==
    /\ spc = "repo" /\ spc' = "wfile"
    /\ UNCHANGED <<vars, mpc, code, sigc, sent>>

\* wfile.Stop(): swap done, close sigWriter, then wg.Wait (StopReturn).
ShutdownWriter ==
    /\ spc = "wfile" /\ StopCall
    /\ UNCHANGED mainVars

\* wfile.Stop() has returned; logr.Stop().
ShutdownLogr ==
    /\ spc = "wfile" /\ stopPc = "returned" /\ spc' = "logr"
    /\ UNCHANGED <<vars, mpc, code, sigc, sent>>

\* logr.Stop() returns and the goroutine blocks on c <- struct{}{}.
ShutdownSend ==
    /\ spc = "logr" /\ spc' = "send"
    /\ UNCHANGED <<vars, mpc, code, sigc, sent>>

-----------------------------------------------------------------------------
(* The environment *)

\* Mutant: a delivery that ignores the capacity of sigc.
DeliverUnbounded(s) ==
    /\ sent < MaxSignals
    /\ sent' = sent + 1
    /\ sigc' = Append(sigc, s)
    /\ UNCHANGED <<vars, mpc, code, spc>>

\* The operating system delivers a signal.  signal.Notify's send never
\* blocks: with sigc full the signal is dropped.
Deliver(s) ==
    /\ sent < MaxSignals
    /\ sent' = sent + 1
    /\ sigc' = IF Len(sigc) < 1 THEN Append(sigc, s) ELSE sigc
    /\ UNCHANGED <<vars, mpc, code, spc>>

\* A recorder calls wfile.Line once the manager (and so a peer) exists.
RecordLine(l) ==
    /\ mpc \in {"loop", "select"}
    /\ LineCall(l)
    /\ UNCHANGED mainVars

\* The writer's own steps, which leave main alone.
WriterStep ==
    /\ \/ WriterSig \/ WriterTimer \/ WriterLine \/ StopReturn \/ Tick \/ TimerFire
       \/ \E l \in Lines : LineSend(l)
    /\ UNCHANGED mainVars

MainNext ==
    /\ ~Halted
    /\ \/ \E s \in Stages : Construct(s)
       \/ CreateWriter \/ SigRecv \/ SelectSignal \/ SelectDone
       \/ ShutdownMgr \/ ShutdownRepo \/ ShutdownWriter \/ ShutdownLogr
       \/ ShutdownSend
       \/ \E s \in Signals : Deliver(s)
       \/ \E l \in Lines : RecordLine(l)
       \/ WriterStep

\* Every goroutine that can run keeps being scheduled while the process
\* lives: main, the shutdown goroutine, goWriter's select cases and the
\* blocked Line senders (FIFO, so strongly fair).  The operating system's
\* signals, the clock and the recorders are not obliged to act.
MainFairness ==
    /\ \A s \in Stages : WF_sysVars(~Halted /\ Construct(s))
    /\ WF_sysVars(~Halted /\ CreateWriter)
    /\ WF_sysVars(~Halted /\ SigRecv)
    /\ WF_sysVars(~Halted /\ (SelectSignal \/ SelectDone))
    /\ WF_sysVars(~Halted /\ (ShutdownMgr \/ ShutdownRepo \/ ShutdownWriter
                              \/ ShutdownLogr \/ ShutdownSend))
    /\ WF_sysVars(~Halted /\ WriterSig /\ UNCHANGED mainVars)
    /\ WF_sysVars(~Halted /\ WriterTimer /\ UNCHANGED mainVars)
    /\ WF_sysVars(~Halted /\ WriterLine /\ UNCHANGED mainVars)
    /\ WF_sysVars(~Halted /\ StopReturn /\ UNCHANGED mainVars)
    /\ \A l \in Lines : SF_sysVars(~Halted /\ LineSend(l) /\ UNCHANGED mainVars)

MainSpec == MainInit /\ [][MainNext]_sysVars /\ MainFairness

-----------------------------------------------------------------------------
(* Properties *)

\* Spec 4 "shutdown on SIGINT (graceful)": a SIGINT that reaches main's
\* signal loop ends the process.  It needs the whole shutdown chain to
\* return: the file writer's Stop waits for goWriter, which must take the
\* closed sigWriter while recorders keep sending lines, and main's select
\* must take the goroutine's send on c.
InterruptExits == (mpc = "loop" /\ sigc = <<"INT">>) ~> Halted

\* os.Exit(0) happens only after the file writer's goroutine has exited,
\* so the last file is complete when the process ends: main's select takes
\* c only after wfile.Stop, whose wg.Wait waits for goWriter, has returned.
CleanExitAfterWriter == code = 0 => wpc = "exited"


-----------------------------------------------------------------------------
(* Refinement.  The process is mapped onto the abstract lifecycle: the     *)
(* phase is read off main's pc (a writer panic ends the process too), the *)
(* stopped components off the shutdown goroutine's pc, the flush is the   *)
(* writer goroutine's exit, and the status is the code passed to os.Exit. *)

\* How many of the shutdown goroutine's Stop calls have returned at spc.
Stopped == [none |-> 0, mgr |-> 0, repo |-> 1, wfile |-> 2, logr |-> 3,
            send |-> 4, sent |-> 4]

Phase ==
    IF mpc = "panicked" \/ ~Running THEN "panicked"
    ELSE IF mpc = "exited" THEN "exited"
    ELSE IF mpc \in Stages THEN "starting"
    ELSE IF mpc = "loop" THEN "running"
    ELSE "stopping"

Life == INSTANCE Lifecycle
    WITH phase <- Phase, nstopped <- Stopped[spc],
         flushed <- (wpc = "exited"), status <- code

\* main implements the abstract lifecycle: a constructor failure exits
\* non-zero; SIGINT starts a shutdown that stops mgr, repo, wfile and logr
\* in that order, wfile.Stop returning only after goWriter exited; exit 0
\* only after all four; a panic only once the process runs.
ImplementsLifecycle == Life!Spec

=============================================================================
