---------------------------- MODULE BenchSession ----------------------------
(***************************************************************************)
(* One series of bench_fs.py together with the process it measures: the    *)
(* driver starts the process, waits for "finished setup", asks for rounds  *)
(* by signals, and records the rows that come back through a pipe.         *)
(*                                                                         *)
(* The process is BenchProcess behind a setup that may fail.  The package  *)
(* sh runs the process and a thread that hands every line of its output    *)
(* to process_output.  Ctrl-C reaches both ends, for the process is in the *)
(* driver's session.  Rows torn by other output are left out.              *)
(***************************************************************************)
EXTENDS BenchProcess

CONSTANTS
  REPETITIONS,  \* the rounds of a series
  Errors        \* TRUE: the script may meet an error or be interrupted twice
ASSUME RepetitionsAssumption ==
  /\ REPETITIONS \in Nat \ {0}
  /\ MaxSends >= 2 * REPETITIONS + 1
ASSUME ErrorsAssumption == Errors \in BOOLEAN

VARIABLES
  setup,        \* "absent", "busy", "ok" or "failed": the process up to its workers
  driver,       \* what the script does next
  bound,        \* the variable process of the script holds the process
  kill,         \* SIGKILL has been sent to the process
  left,         \* rounds left
  ready,        \* the event of that name
  out,          \* rows printed and not yet read
  rows,         \* series._measurements
  interrupted   \* history: Ctrl-C has been pressed

driver_vars == <<setup, driver, bound, kill, left, ready, out, rows, interrupted>>
session_vars == <<vars, driver_vars>>

SessionInit ==
  /\ Init
  /\ setup = "absent"
  /\ driver = "start"
  /\ bound = FALSE
  /\ kill = FALSE
  /\ left = REPETITIONS
  /\ ready = FALSE
  /\ out = <<>>
  /\ rows = <<>>
  /\ interrupted = FALSE

Closed == driver \in {"done", "raised"}
Dead == setup # "absent" /\ ~Alive

-----------------------------------------------------------------------------
\* The process.  Parsing, data setup and everything else in front of the
\* workers end well, or end the process with an error or a crash.
SetupEnds ==
  /\ setup = "busy" /\ fate = "running"
  /\ \/ setup' = "ok" /\ UNCHANGED fate
     \/ setup' = "failed" /\ fate' = "crashed"
  /\ UNCHANGED <<main, installed, signals, frames, pc, slots, cont, counters, history,
                 driver, bound, kill, left, ready, out, rows, interrupted>>

\* A row goes into the pipe, every other step of the process does not.
PipeRow(t) ==
  /\ PrintRow(t)
  /\ out' = Append(out, [round |-> Row(t)["round"], thread |-> Target(t)])
  /\ UNCHANGED <<setup, driver, bound, kill, left, ready, rows, interrupted>>

QuietHandlerStep(t) == \/ NullDereference(t) \/ ReadField(t)
                       \/ ReadRound(t) \/ BumpRound(t) \/ ReadCounter(t) \/ MarkCounter(t)
                       \/ StopWorker(t)
ProcessStep ==
  /\ setup = "ok"
  /\ \/ MainStep
     \/ \E w \in Workers : WorkerStep(w)
     \/ \E t \in Threads : QuietHandlerStep(t)
  /\ UNCHANGED driver_vars

Sigkill ==
  /\ kill /\ Alive
  /\ fate' = "killed"
  /\ UNCHANGED <<main, installed, signals, frames, pc, slots, cont, counters, history>>
Kernel ==
  /\ setup # "absent"
  /\ KernelStep \/ Sigkill
  /\ UNCHANGED driver_vars

-----------------------------------------------------------------------------
\* The reading thread of sh: process_output for a line of either stream.
ReadAnnouncement ==
  /\ ~Closed
  /\ setup = "ok" /\ Announced
  /\ ~ready /\ ready' = TRUE
  /\ UNCHANGED <<vars, setup, driver, bound, kill, left, out, rows, interrupted>>

ReadRow ==
  /\ ~Closed
  /\ out # <<>>
  /\ rows' = Append(rows, Head(out))
  /\ out' = Tail(out)
  /\ UNCHANGED <<vars, setup, driver, bound, kill, left, ready, interrupted>>

-----------------------------------------------------------------------------
\* The script.  cmd() starts the process and the reading thread, and returns
\* some time later; process is bound to what it returns.
Start ==
  /\ driver = "start" /\ setup = "absent"
  /\ setup' = "busy"
  /\ UNCHANGED <<vars, driver, bound, kill, left, ready, out, rows, interrupted>>

Bind ==
  /\ driver = "start" /\ setup # "absent"
  /\ bound' = TRUE
  /\ driver' = "ready"
  /\ UNCHANGED <<vars, setup, kill, left, ready, out, rows, interrupted>>

WaitReady ==
  /\ driver = "ready" /\ ready
  /\ driver' = "reset"
  /\ UNCHANGED <<vars, setup, bound, kill, left, ready, out, rows, interrupted>>

\* time.sleep(1) and SIGUSR2, time.sleep(ROUND_TIMER) and SIGUSR1: Quiet.
Reset ==
  /\ driver = "reset" /\ Send(SIGUSR2)
  /\ driver' = "report"
  /\ UNCHANGED <<setup, bound, kill, left, ready, out, rows, interrupted>>

\* Wrong on purpose: one round too many.
Report_again ==
  /\ driver = "report" /\ Send(SIGUSR1)
  /\ left' = left - 1
  /\ driver' = IF left = 0 THEN "quit" ELSE "reset"
  /\ UNCHANGED <<setup, bound, kill, ready, out, rows, interrupted>>
Report ==
  /\ driver = "report" /\ Send(SIGUSR1)
  /\ left' = left - 1
  /\ driver' = IF left = 1 THEN "quit" ELSE "reset"
  /\ UNCHANGED <<setup, bound, kill, ready, out, rows, interrupted>>

Quit ==
  /\ driver = "quit" /\ Send(SIGINT)
  /\ driver' = "wait"
  /\ UNCHANGED <<setup, bound, kill, left, ready, out, rows, interrupted>>

\* os.kill on a process that has ended does nothing until it is reaped, and
\* raises from then on: kill() and raise.
SignalLost ==
  /\ driver \in {"reset", "report", "quit"} /\ Dead
  /\ left' = IF driver = "report" THEN left - 1 ELSE left
  /\ driver' = CASE driver = "reset" -> "report"
                 [] driver = "report" -> IF left = 1 THEN "quit" ELSE "reset"
                 [] driver = "quit" -> "wait"
  /\ UNCHANGED <<vars, setup, bound, kill, ready, out, rows, interrupted>>

SignalRaises ==
  /\ driver \in {"reset", "report", "quit", "stop"} /\ Dead
  /\ driver' = "raised"
  /\ UNCHANGED <<vars, setup, bound, kill, left, ready, out, rows, interrupted>>

\* process.wait() joins the reading thread, and raises unless the process has
\* returned 0.  Wrong on purpose: rows may still be in the pipe, or only a
\* process that returns from main() is noticed.
Wait_unjoined ==
  /\ driver \in {"wait", "waitstop"} /\ Dead
  /\ driver' = IF driver = "wait" /\ main = "exited" THEN "done" ELSE "raised"
  /\ UNCHANGED <<vars, setup, bound, kill, left, ready, out, rows, interrupted>>
Wait_for_return ==
  /\ driver \in {"wait", "waitstop"} /\ main = "exited" /\ out = <<>>
  /\ driver' = IF driver = "wait" THEN "done" ELSE "raised"
  /\ UNCHANGED <<vars, setup, bound, kill, left, ready, out, rows, interrupted>>
Wait ==
  /\ driver \in {"wait", "waitstop"} /\ Dead /\ out = <<>>
  /\ driver' = IF driver = "wait" /\ main = "exited" THEN "done" ELSE "raised"
  /\ UNCHANGED <<vars, setup, bound, kill, left, ready, out, rows, interrupted>>

-----------------------------------------------------------------------------
\* Ctrl-C, which the terminal sends to the process as well.  As long as process
\* is not bound, or bound to the ended process of an earlier series, the
\* handler fails at its first line.
SendQuit == pending' = (IF Alive THEN pending \cup {SIGINT} ELSE pending)

InterruptFirst ==
  /\ driver = "start"
  /\ interrupted' = TRUE
  /\ IF setup = "absent" THEN UNCHANGED pending ELSE SendQuit
  /\ driver' = "raised"
  /\ UNCHANGED <<process, sends, frames, pc, slots, cont, counters, history,
                 setup, bound, kill, left, ready, out, rows>>

Interrupt ==
  /\ driver \in {"ready", "reset", "report", "quit", "wait"}
  /\ interrupted' = TRUE
  /\ SendQuit
  /\ driver' = "stop"
  /\ UNCHANGED <<process, sends, frames, pc, slots, cont, counters, history,
                 setup, bound, kill, left, ready, out, rows>>

\* except KeyboardInterrupt: SIGINT once more, wait, raise.
Stop ==
  /\ driver = "stop"
  /\ SendQuit
  /\ driver' = "waitstop"
  /\ UNCHANGED <<process, sends, frames, pc, slots, cont, counters, history,
                 setup, bound, kill, left, ready, out, rows, interrupted>>

\* Once more, while the script sees to the first one: nothing catches it.
InterruptAgain ==
  /\ Errors
  /\ driver \in {"stop", "waitstop"}
  /\ SendQuit
  /\ driver' = "raised"
  /\ UNCHANGED <<process, sends, frames, pc, slots, cont, counters, history,
                 setup, bound, kill, left, ready, out, rows, interrupted>>

-----------------------------------------------------------------------------
\* except Exception: kill() and raise, whether the process lives or not.  Wrong
\* on purpose: without the kill.
Fail_no_kill ==
  /\ Errors
  /\ driver \in {"ready", "reset", "report", "quit", "wait"}
  /\ kill' = kill
  /\ driver' = "raised"
  /\ UNCHANGED <<vars, setup, bound, left, ready, out, rows, interrupted>>
Fail ==
  /\ Errors
  /\ driver \in {"ready", "reset", "report", "quit", "wait"}
  /\ kill' = Alive
  /\ driver' = "raised"
  /\ UNCHANGED <<vars, setup, bound, left, ready, out, rows, interrupted>>

\* An error in cmd() itself: kill() fails like the handler of Ctrl-C, and a
\* process that has been started already is told nothing.
FailUnbound ==
  /\ Errors
  /\ driver = "start"
  /\ driver' = "raised"
  /\ UNCHANGED <<vars, setup, bound, kill, left, ready, out, rows, interrupted>>

-----------------------------------------------------------------------------
DriverStep == \/ Start \/ Bind \/ WaitReady \/ Reset \/ Report \/ Quit
              \/ SignalLost \/ SignalRaises \/ Wait \/ Stop
Reader == ReadAnnouncement \/ ReadRow

SessionNext ==
  \/ SetupEnds \/ ProcessStep \/ Kernel \/ \E t \in Threads : PipeRow(t)
  \/ Reader \/ DriverStep
  \/ InterruptFirst \/ Interrupt \/ InterruptAgain
  \/ Fail \/ FailUnbound

SessionSpec == SessionInit /\ [][SessionNext]_session_vars

\* As in BenchProcess; the setup ends, the reading thread and the script run
\* on, nobody has to press Ctrl-C and no error has to occur.
SessionThreadStep(t) ==
  \/ PipeRow(t)
  \/ /\ setup = "ok"
     /\ \/ QuietHandlerStep(t)
        \/ t = MainThread /\ MainStep
        \/ t \in Workers /\ WorkerStep(t)
     /\ UNCHANGED driver_vars
SessionFairness ==
  /\ WF_session_vars(SetupEnds)
  /\ WF_session_vars(Kernel)
  /\ \A t \in Threads : WF_session_vars(SessionThreadStep(t))
  /\ WF_session_vars(Reader)
  /\ WF_session_vars(DriverStep)

FairSession == SessionSpec /\ SessionFairness

-----------------------------------------------------------------------------
\* Type invariant.
DriverTypes ==
  /\ setup \in {"absent", "busy", "ok", "failed"}
  /\ driver \in {"start", "ready", "reset", "report", "quit", "wait",
                 "stop", "waitstop", "done", "raised"}
  /\ bound \in BOOLEAN
  /\ kill \in BOOLEAN
  /\ left \in 0..REPETITIONS
  /\ ready \in BOOLEAN
  /\ out \in Seq([round : Nat, thread : Workers])
  /\ rows \in Seq([round : Nat, thread : Workers])
  /\ interrupted \in BOOLEAN
SessionTypeOK == TypeOK /\ DriverTypes

\* The rows of a series are those of a measurement: none twice, one round
\* after the other, and in a series that ends without an exception only the
\* last report, which SIGINT follows at once, may lack some.
Measurement ==
  INSTANCE MeasurementSeries WITH
    Threads <- Workers,
    status <- CASE driver = "done" -> "complete"
                [] driver = "raised" -> "abandoned"
                [] OTHER -> "open"
IsMeasurement == Measurement!Spec

\* Once the process has announced itself the script comes to an end and so does
\* the process, whether it goes on, crashes or is interrupted meanwhile; only
\* an error before process is bound may leave it running.
SeriesEnds == ready ~> Closed /\ (Dead \/ ~(bound \/ interrupted))

\* Ctrl-C ends the script and the process, in whatever state it finds them.
InterruptEnds == interrupted ~> driver = "raised" /\ (setup = "absent" \/ Dead)

\* What makes a process end that the script no longer waits for.
ToldToEnd == kill \/ SIGINT \in pending \/ HandlerRuns(SIGINT) \/ stopped

\* A script that ends leaves no process behind that nobody has told to end.  The
\* exception is an error before process is bound: bench_fs.py:184 says that the
\* process sometimes stays running when the script exits on error.
NoOrphan ==
  Closed => \/ setup = "absent" \/ Dead
            \/ driver = "raised" /\ (ToldToEnd \/ ~(bound \/ interrupted))

\* bench_fs.py:132 says of the event that it will signal the end of the init
\* phase of the started command.
InitEndIsSignalled == (setup \in {"ok", "failed"}) ~> (ready \/ interrupted)
=============================================================================
