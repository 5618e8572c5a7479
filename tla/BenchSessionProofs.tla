------------------------- MODULE BenchSessionProofs -------------------------
(***************************************************************************)
(* Theorems about BenchSession: what holds of the process by itself holds  *)
(* of the process under bench_fs.py, errors and Ctrl-C, and the script     *)
(* leaves no process behind that is not told to end, unless it fails       *)
(* before process is bound.  What the script records is a measurement in   *)
(* the sense of MeasurementSeries: a proof that BenchSession implements    *)
(* it, for any number of workers, slots and rounds.                        *)
(***************************************************************************)
EXTENDS BenchSession, BenchProcessProofs

USE WorkersAssumption, NumbersAssumption, RepetitionsAssumption

-----------------------------------------------------------------------------
\* What may happen to the process from outside: a SIGINT more, a SIGKILL, or a
\* setup that fails.
OutsideStep ==
  /\ UNCHANGED <<main, installed, sends, frames, pc, slots, cont, counters, history>>
  /\ pending' \in {pending, pending \cup {SIGINT}}
  /\ fate' = fate \/ (fate = "running" /\ fate' \in {"crashed", "killed"})

\* A step of the session is one of the process or one from outside.
LEMMA SessionStep ==
  ASSUME [SessionNext]_session_vars
  PROVE  [Next]_vars \/ OutsideStep
  <1>1. CASE SetupEnds \/ Sigkill \/ InterruptFirst \/ Interrupt \/ Stop \/ InterruptAgain
    BY <1>1 DEF SetupEnds, Sigkill, InterruptFirst, Interrupt, Stop, InterruptAgain, SendQuit,
                Alive, OutsideStep, signals, process
  <1>2. CASE ProcessStep \/ KernelStep
    BY <1>2 DEF ProcessStep, QuietHandlerStep, HandlerStep, Next
  <1>3. ASSUME NEW t \in Threads, PipeRow(t) PROVE [Next]_vars
    BY <1>3 DEF PipeRow, HandlerStep, Next
  <1>4. CASE Reset \/ Report \/ Quit
    BY <1>4 DEF Reset, Report, Quit, Next, Signals
  <1>5. CASE \/ Reader \/ Start \/ Bind \/ WaitReady \/ SignalLost \/ SignalRaises \/ Wait
             \/ Fail \/ FailUnbound
    BY <1>5 DEF Reader, ReadAnnouncement, ReadRow, Start, Bind, WaitReady, SignalLost,
                SignalRaises, Wait, Fail, FailUnbound
  <1>6. CASE UNCHANGED session_vars
    BY <1>6 DEF session_vars
  <1> QED  BY <1>1, <1>2, <1>3, <1>4, <1>5, <1>6 DEF SessionNext, DriverStep, Kernel

\* What a step from outside leaves as it was.
LEMMA OutsideTypeOwn ==
  ASSUME TypeOK, OwnInv, OutsideStep
  PROVE  TypeOK' /\ OwnInv'
  <1> USE DEF OutsideStep, slots, counters, history
  <1>1. ControlTypes'
    BY DEF TypeOK, ControlTypes, Signals
  <1>2. SlotTypes' /\ CounterTypes'
    BY DEF TypeOK, SlotTypes, CounterTypes
  <1>3. OwnInv'
    BY DEF OwnInv, CountInv, Claimed, IdInv, DistinctInv, SlotInv, PublishedInv, Provisioned
  <1> QED  BY <1>1, <1>2, <1>3 DEF TypeOK

\* The rounds are no business of SIGINT or SIGKILL, nor is a setup that fails.
LEMMA OutsideRounds ==
  ASSUME RoundInv, OutsideStep
  PROVE  RoundInv' /\ (RowInv => RowInv')
  <1> USE DEF OutsideStep, slots, counters, history
  <1>1. AloneInv'
    BY DEF RoundInv, AloneInv, Measures, SIGINT, SIGUSR1, SIGUSR2
  <1>2. RoundInv'
    BY <1>1, KeepRounds DEF Provisioned
  <1>3. RowInv => RowInv'
    BY KeepRow
  <1> QED  BY <1>2, <1>3

-----------------------------------------------------------------------------
\* Types and ownership as the session has them, and as long as rounds are asked
\* for at least one is left.
LeftInv == driver \in {"start", "ready", "reset", "report"} => left # 0
SessionInv == SessionTypeOK /\ OwnInv /\ LeftInv

\* They hold before the script starts the process.
LEMMA InitSession == SessionInit => SessionInv
  <1> SUFFICES ASSUME SessionInit PROVE SessionInv
    OBVIOUS
  <1>1. TypeOK /\ OwnInv
    BY InitTypeOwn DEF SessionInit
  <1>2. <<>> \in Seq([round : Nat, thread : Workers])
    BY EmptySeq
  <1>3. left \in 0..REPETITIONS
    BY DEF SessionInit
  <1>4. DriverTypes
    BY <1>2, <1>3 DEF SessionInit, DriverTypes
  <1>5. LeftInv
    BY DEF SessionInit, LeftInv
  <1> QED  BY <1>1, <1>4, <1>5 DEF SessionInv, SessionTypeOK

\* A row names the round that was loaded for it and the worker of the slot.
LEMMA RowType ==
  ASSUME TypeOK, NEW t \in Threads, PrintRow(t)
  PROVE  [round |-> Row(t)["round"], thread |-> Target(t)] \in [round : Nat, thread : Workers]
  <1>1. InHandler(t, "print") /\ Target(t) \in Workers
    BY HandlerTarget DEF PrintRow
  <1>2. LoadOrder[3] \in Fields
    BY OrderAssumption
  <1>3. Row(t) \in Held
    BY <1>1, <1>2, LoadType DEF Row
  <1> QED  BY <1>1, <1>3 DEF Held, Fields

\* The script, the reading thread and Ctrl-C keep the types of the script.
LEMMA NextDriver ==
  ASSUME TypeOK, DriverTypes, LeftInv, [SessionNext]_session_vars
  PROVE  DriverTypes' /\ LeftInv'
  <1>1. CASE SetupEnds
    BY <1>1 DEF SetupEnds, DriverTypes, LeftInv
  <1>2. CASE ProcessStep \/ Kernel \/ UNCHANGED session_vars
    BY <1>2 DEF ProcessStep, Kernel, session_vars, driver_vars, DriverTypes, LeftInv
  <1>3. ASSUME NEW t \in Threads, PipeRow(t) PROVE DriverTypes' /\ LeftInv'
    <2> DEFINE row == [round |-> Row(t)["round"], thread |-> Target(t)]
    <2>1. /\ out' = Append(out, row) /\ UNCHANGED <<setup, driver, bound, kill, left, ready, rows, interrupted>>
          /\ row \in [round : Nat, thread : Workers]
      BY <1>3, RowType DEF PipeRow
    <2> HIDE DEF row
    <2>2. out' \in Seq([round : Nat, thread : Workers])
      BY <2>1, AppendProperties DEF DriverTypes
    <2> QED  BY <2>1, <2>2 DEF DriverTypes, LeftInv
  <1>4. CASE ReadRow
    <2>1. /\ out # <<>> /\ rows' = Append(rows, Head(out)) /\ out' = Tail(out)
          /\ UNCHANGED <<setup, driver, bound, kill, left, ready, interrupted>>
      BY <1>4 DEF ReadRow
    <2>2. /\ Head(out) \in [round : Nat, thread : Workers]
          /\ Tail(out) \in Seq([round : Nat, thread : Workers])
      BY <2>1, HeadTailProperties DEF DriverTypes
    <2>3. rows' \in Seq([round : Nat, thread : Workers])
      BY <2>1, <2>2, AppendProperties DEF DriverTypes
    <2> QED  BY <2>1, <2>2, <2>3 DEF DriverTypes, LeftInv
  <1>5. CASE ReadAnnouncement \/ Start \/ Bind \/ WaitReady
    BY <1>5 DEF ReadAnnouncement, Start, Bind, WaitReady, DriverTypes, LeftInv
  <1>6. CASE Reset \/ Quit
    BY <1>6 DEF Reset, Quit, DriverTypes, LeftInv
  <1>7. CASE Report
    BY <1>7 DEF Report, DriverTypes, LeftInv
  <1>8. CASE SignalLost
    BY <1>8 DEF SignalLost, DriverTypes, LeftInv
  <1>9. CASE SignalRaises \/ Wait \/ Stop
    BY <1>9 DEF SignalRaises, Wait, Stop, DriverTypes, LeftInv
  <1>10. CASE InterruptFirst \/ Interrupt \/ InterruptAgain
    BY <1>10 DEF InterruptFirst, Interrupt, InterruptAgain, DriverTypes, LeftInv
  <1>11. CASE Fail \/ FailUnbound
    BY <1>11 DEF Fail, FailUnbound, Alive, DriverTypes, LeftInv
  <1> QED  BY <1>1, <1>2, <1>3, <1>4, <1>5, <1>6, <1>7, <1>8, <1>9, <1>10, <1>11
              DEF SessionNext, Reader, DriverStep

\* A step keeps types, ownership and the rounds left.
LEMMA NextSession ==
  ASSUME SessionInv, [SessionNext]_session_vars
  PROVE  SessionInv'
  <1>1. TypeOK' /\ OwnInv'
    BY SessionStep, NextTypeOwn, OutsideTypeOwn DEF SessionInv, SessionTypeOK
  <1>2. DriverTypes' /\ LeftInv'
    BY NextDriver DEF SessionInv, SessionTypeOK
  <1> QED  BY <1>1, <1>2 DEF SessionInv, SessionTypeOK

\* The process, the script, the pipe and the record keep their types.
THEOREM SessionTypeCorrect == SessionSpec => []SessionTypeOK
  <1>1. SessionSpec => []SessionInv
    BY InitSession, NextSession, PTL DEF SessionSpec
  <1>2. SessionInv => SessionTypeOK
    BY DEF SessionInv
  <1> QED  BY <1>1, <1>2, PTL

-----------------------------------------------------------------------------
\* Between two resets all workers are in the same round, and rows are printed
\* for the round they name (main.cpp:24 to 45), when bench_fs.py asks for the
\* rounds, also if Ctrl-C comes in between.
THEOREM SessionRounds ==
  ASSUME Patient
  PROVE  SessionSpec => [](RoundsAgree /\ PrintsCurrentRound)
  <1> DEFINE Inv == SessionInv /\ RoundInv /\ RowInv
  <1>1. SessionInit => Inv
    BY InitSession, InitRounds, InitRow DEF SessionInit
  <1>2. Inv /\ [SessionNext]_session_vars => Inv'
    <2> SUFFICES ASSUME Inv, [SessionNext]_session_vars PROVE Inv'
      OBVIOUS
    <2>1. SessionInv'
      BY NextSession
    <2>2. TypeOK /\ OwnInv
      BY DEF SessionInv, SessionTypeOK
    <2>3. CASE [Next]_vars
      BY <2>1, <2>2, <2>3, NextRounds, NextRow
    <2>4. CASE OutsideStep
      BY <2>1, <2>4, OutsideRounds
    <2> QED  BY <2>3, <2>4, SessionStep
  <1>3. Inv => RoundsAgree /\ PrintsCurrentRound
    BY RowsAreCurrent DEF SessionInv, SessionTypeOK, RoundInv
  <1> HIDE DEF Inv
  <1> QED  BY <1>1, <1>2, <1>3, PTL DEF SessionSpec

-----------------------------------------------------------------------------
\* Nothing moves in a process that has ended.
LEMMA NothingMoves ==
  ASSUME ~Alive
  PROVE  ~Next
  <1>1. ~MainStep
    BY DEF MainStep, Spawn, InstallNext, Announce, Goodbye, Free
  <1>2. \A w : ~WorkerStep(w)
    BY DEF WorkerStep, Claim, Publish, Search, Check, Free
  <1>3. \A s : ~Send(s)
    BY DEF Send
  <1>4. ~KernelStep
    BY DEF KernelStep, DefaultAction, Deliver
  <1>5. \A t : ~HandlerStep(t)
    BY DEF HandlerStep, NullDereference, ReadField, PrintRow, ReadRound, BumpRound, ReadCounter,
           MarkCounter, StopWorker, InHandler
  <1> QED  BY <1>1, <1>2, <1>3, <1>4, <1>5 DEF Next

\* An ended process stays ended.
LEMMA DeadStays ==
  ASSUME ~Alive, [SessionNext]_session_vars
  PROVE  ~Alive'
  <1>1. CASE OutsideStep
    BY <1>1 DEF OutsideStep, Alive
  <1>2. CASE UNCHANGED vars
    BY <1>2 DEF vars, process, Alive
  <1>3. ~Next
    BY NothingMoves
  <1> QED  BY <1>1, <1>2, <1>3, SessionStep

-----------------------------------------------------------------------------
\* A process that is told to end stays told until it ends.

\* What a handler may be about to do.
HandlerPhases == {"row", "print", "round", "bump", "count", "mark", "stop"}

\* A SIGINT is pending, in a handler, or has been dealt with.
Quitting == SIGINT \in pending \/ HandlerRuns(SIGINT) \/ stopped

\* A handler keeps its place until it returns, and that of SIGINT returns when
\* it is through.
LEMMA QuitMoves ==
  ASSUME TypeOK, Quitting, NEW t \in Threads, HandlerStep(t), ~NullDereference(t)
  PROVE  Quitting'
  <1> USE DEF process, signals, slots, counters, history
  <1>1. PICK phase \in HandlerPhases, held \in Held :
          /\ InHandler(t, phase) /\ Advance(t, held) /\ UNCHANGED pending
          /\ \/ phase # "stop" /\ (stopped' = stopped)
             \/ phase = "stop" /\ stopped' = (stopped \/ Returns(t))
    <2>1. CASE ReadField(t) \/ ReadRound(t) \/ ReadCounter(t)
      <3>1. PICK x \in Fields : \E phase \in {"row", "round", "count"} :
              InHandler(t, phase) /\ Advance(t, Load(t, x))
        BY <2>1, NextField DEF ReadField, ReadRound, ReadCounter, Fields
      <3>2. PICK phase \in {"row", "round", "count"} : InHandler(t, phase) /\ Advance(t, Load(t, x))
        BY <3>1
      <3>3. phase # "stop" /\ Load(t, x) \in Held
        BY <3>2, LoadType
      <3>4. UNCHANGED <<pending, stopped>>
        BY <2>1 DEF ReadField, ReadRound, ReadCounter
      <3> QED  BY <3>2, <3>3, <3>4 DEF HandlerPhases
    <2>2. CASE PrintRow(t)
      BY <2>2, NothingHeld DEF PrintRow, HandlerPhases
    <2>3. CASE BumpRound(t)
      BY <2>3, NothingHeld DEF BumpRound, HandlerPhases
    <2>4. CASE MarkCounter(t)
      BY <2>4, NothingHeld DEF MarkCounter, HandlerPhases
    <2>5. CASE StopWorker(t)
      BY <2>5, NothingHeld DEF StopWorker, HandlerPhases
    <2> QED  BY <2>1, <2>2, <2>3, <2>4, <2>5 DEF HandlerStep
  <1>2. CASE SIGINT \in pending \/ stopped
    <2>1. SIGINT \in pending => SIGINT \in pending'
      BY <1>1
    <2>2. stopped => stopped'
      BY <1>1, Zenon
    <2> QED  BY <1>2, <2>1, <2>2, Zenon DEF Quitting
  <1>3. CASE HandlerRuns(SIGINT)
    <2>1. PICK u \in Threads : \E j \in 1..Len(frames[u]) : frames[u][j].sig = SIGINT
      BY <1>3, RunsSomewhere
    <2>2. PICK j \in 1..Len(frames[u]) : frames[u][j].sig = SIGINT
      BY <2>1
    <2>3. CASE j \in 1..Len(frames'[u])
      <3>1. frames'[u][j].sig = SIGINT
        BY <1>1, <2>2, <2>3, FrameMoves
      <3>2. frames' \in [Threads -> Seq(Frame)]
        BY <1>1, HandlerTarget, AdvanceFrames DEF TypeOK, ControlTypes
      <3>3. j \in DOMAIN frames'[u]
        BY <2>3, <3>2
      <3> QED  BY <3>1, <3>3 DEF Quitting, HandlerRuns
    <2>4. CASE j \notin 1..Len(frames'[u])
      <3>1. Returns(t) /\ Top(t).sig = SIGINT /\ Top(t) \in Frame
            /\ Phases(Top(t).sig)[Top(t).phase] = phase
        BY <1>1, <2>2, <2>4, FrameMoves
      <3>2. phase = "stop"
        BY <3>1, StopPhase
      <3> QED  BY <1>1, <3>1, <3>2 DEF Quitting
    <2> QED  BY <2>3, <2>4
  <1> QED  BY <1>2, <1>3 DEF Quitting

\* So do the other steps of the process.
LEMMA QuitStays ==
  ASSUME TypeOK, Quitting, [Next]_vars
  PROVE  Quitting' \/ ~Alive'
  <1> USE DEF process, signals, slots, counters, history
  <1>1. ASSUME UNCHANGED <<frames, stopped>>, pending \subseteq pending' PROVE Quitting'
    BY <1>1 DEF Quitting, HandlerRuns
  <1>2. CASE MainStep
    BY <1>1, <1>2 DEF MainStep, Spawn, InstallNext, Announce, Goodbye
  <1>3. ASSUME NEW w \in Workers, WorkerStep(w) PROVE Quitting'
    BY <1>1, <1>3 DEF WorkerStep, Claim, Publish, Search, Check
  <1>4. ASSUME NEW s \in Signals, Send(s) PROVE Quitting'
    BY <1>1, <1>4 DEF Send
  <1>5. ASSUME NEW s \in Signals, DefaultAction(s) PROVE ~Alive'
    BY <1>5 DEF DefaultAction, Alive
  <1>6. ASSUME NEW s \in Signals, NEW t \in Threads, Deliver(s, t) PROVE Quitting'
    <2>1. pending' = pending \ {s} /\ UNCHANGED stopped
      BY <1>6 DEF Deliver
    <2>2. frames' \in [Threads -> Seq(Frame)]
      BY <1>6, DeliverFrames DEF TypeOK, ControlTypes, Deliver
    <2>3. \A u \in Threads : DOMAIN frames'[u] = 1..Len(frames'[u])
      BY <2>2
    <2>4. CASE s = SIGINT
      <3>1. /\ Len(frames[t]) + 1 \in 1..Len(frames'[t])
            /\ frames'[t][Len(frames[t]) + 1] = handle(SIGINT)
        BY <1>6, <2>4, FrameArrives
      <3>2. HandlerRuns(SIGINT)'
        BY <2>3, <3>1 DEF HandlerRuns, handle
      <3> QED  BY <3>2 DEF Quitting
    <2>5. CASE s # SIGINT /\ HandlerRuns(SIGINT)
      <3>1. PICK u \in Threads : \E j \in 1..Len(frames[u]) : frames[u][j].sig = SIGINT
        BY <2>5, RunsSomewhere
      <3>2. PICK j \in 1..Len(frames[u]) : frames[u][j].sig = SIGINT
        BY <3>1
      <3>3. ~(u = t /\ j = Len(frames[t]) + 1)
        BY <3>2 DEF TypeOK, ControlTypes
      <3>4. j \in 1..Len(frames'[u]) /\ frames'[u][j] = frames[u][j]
        BY <1>6, <3>2, <3>3, FrameArrives
      <3>5. HandlerRuns(SIGINT)'
        BY <2>3, <3>2, <3>4 DEF HandlerRuns
      <3> QED  BY <3>5 DEF Quitting
    <2>6. CASE s # SIGINT /\ ~HandlerRuns(SIGINT)
      BY <2>1, <2>6 DEF Quitting
    <2> QED  BY <2>4, <2>5, <2>6
  <1>7. ASSUME NEW t \in Threads, HandlerStep(t) PROVE Quitting' \/ ~Alive'
    <2>1. CASE NullDereference(t)
      BY <2>1 DEF NullDereference, Alive
    <2> QED  BY <1>7, <2>1, QuitMoves
  <1>8. CASE UNCHANGED vars
    BY <1>1, <1>8 DEF vars
  <1> QED  BY <1>2, <1>3, <1>4, <1>5, <1>6, <1>7, <1>8 DEF Next, KernelStep

\* The same of a process under bench_fs.py, which may be killed besides.
LEMMA EndStays ==
  ASSUME TypeOK, ToldToEnd \/ ~Alive, [SessionNext]_session_vars
  PROVE  ToldToEnd' \/ ~Alive'
  <1>1. CASE ~Alive
    BY <1>1, DeadStays
  <1>2. CASE Quitting
    <2>1. CASE OutsideStep
      <3>1. Quitting'
        BY <1>2, <2>1 DEF OutsideStep, Quitting, HandlerRuns, history
      <3> QED  BY <3>1 DEF Quitting, ToldToEnd
    <2>2. CASE [Next]_vars
      BY <1>2, <2>2, QuitStays DEF Quitting, ToldToEnd
    <2> QED  BY <2>1, <2>2, SessionStep
  <1>3. CASE kill
    <2>1. CASE Fail
      BY <2>1, DeadStays DEF Fail, ToldToEnd
    <2>2. CASE ~Fail
      <3>1. kill' = kill
        BY <2>2 DEF SessionNext, SetupEnds, ProcessStep, Kernel, PipeRow, Reader, ReadAnnouncement,
           ReadRow, DriverStep, Start, Bind, WaitReady, Reset, Report, Quit, SignalLost,
           SignalRaises, Wait, Stop, InterruptFirst, Interrupt, InterruptAgain, FailUnbound,
           session_vars, driver_vars
      <3> QED  BY <1>3, <3>1 DEF ToldToEnd
    <2> QED  BY <2>1, <2>2
  <1> QED  BY <1>1, <1>2, <1>3 DEF ToldToEnd, Quitting

-----------------------------------------------------------------------------
\* A script that is through has waited for the process.  One that ends with an
\* exception has told it to end, or found it ended, unless the exception comes
\* before process is bound.
OrphanInv ==
  /\ driver = "start" => ~bound /\ ~interrupted
  /\ driver = "done" => ~Alive
  /\ driver = "raised" /\ setup # "absent" /\ (bound \/ interrupted) => ToldToEnd \/ ~Alive

\* Every way out of the script keeps to that, and so does what follows it.
LEMMA NextOrphan ==
  ASSUME TypeOK, OrphanInv, [SessionNext]_session_vars
  PROVE  OrphanInv'
  <1>1. ASSUME UNCHANGED <<driver, bound, interrupted>>, setup = "absent" => setup' = "absent"
        PROVE  OrphanInv'
    BY <1>1, DeadStays, EndStays DEF OrphanInv
  <1>2. CASE SetupEnds \/ ProcessStep \/ Kernel \/ UNCHANGED session_vars
    BY <1>1, <1>2 DEF SetupEnds, ProcessStep, Kernel, session_vars, driver_vars
  <1>3. CASE (\E t \in Threads : PipeRow(t)) \/ Reader
    BY <1>1, <1>3 DEF PipeRow, Reader, ReadAnnouncement, ReadRow
  <1>4. CASE Start \/ Bind \/ WaitReady \/ Reset \/ Report \/ Quit \/ SignalLost \/ Stop \/ Interrupt
    BY <1>4 DEF Start, Bind, WaitReady, Reset, Report, Quit, SignalLost, Stop, Interrupt, OrphanInv
  <1>5. CASE SignalRaises \/ Wait
    <2>1. ~Alive /\ driver' \in {"done", "raised"}
      BY <1>5 DEF SignalRaises, Wait, Dead
    <2> QED  BY <2>1, DeadStays DEF OrphanInv
  <1>6. CASE InterruptFirst \/ InterruptAgain
    <2>1. /\ driver' = "raised" /\ UNCHANGED <<setup, process>>
          /\ setup = "absent" \/ (pending' = IF Alive THEN pending \cup {SIGINT} ELSE pending)
      BY <1>6 DEF InterruptFirst, InterruptAgain, SendQuit
    <2>2. Alive' <=> Alive
      BY <2>1 DEF Alive, process
    <2> QED  BY <2>1, <2>2 DEF OrphanInv, ToldToEnd
  <1>7. CASE Fail
    <2>1. driver' = "raised" /\ kill' = Alive /\ UNCHANGED vars
      BY <1>7 DEF Fail
    <2>2. Alive' <=> Alive
      BY <2>1 DEF Alive, vars, process
    <2> QED  BY <2>1, <2>2 DEF OrphanInv, ToldToEnd
  <1>8. CASE FailUnbound
    BY <1>8 DEF FailUnbound, OrphanInv
  <1> QED  BY <1>2, <1>3, <1>4, <1>5, <1>6, <1>7, <1>8 DEF SessionNext, DriverStep

\* When the script has ended, because the series is through, by Ctrl-C or by an
\* error wherever it strikes, the process has ended, or is bound to be stopped
\* by the SIGKILL of bench_fs.py:185 or a SIGINT; except that an error before
\* process is bound leaves it running, as the FIXME at bench_fs.py:184 says.
THEOREM NothingLeftRunning == SessionSpec => []NoOrphan
  <1>1. SessionInit => OrphanInv
    BY DEF SessionInit, OrphanInv
  <1>2. SessionTypeOK /\ OrphanInv /\ [SessionNext]_session_vars => OrphanInv'
    BY NextOrphan DEF SessionTypeOK
  <1>3. OrphanInv => NoOrphan
    BY DEF OrphanInv, NoOrphan, Closed, Dead
  <1> QED  BY <1>1, <1>2, <1>3, SessionTypeCorrect, PTL DEF SessionSpec

-----------------------------------------------------------------------------
\* The refinement of MeasurementSeries.

\* The frames of the handlers of s.
Running(s) == {f \in Frame : \E t \in Threads : \E j \in 1..Len(frames[t]) :
                f = frames[t][j] /\ f.sig = s}
Underway(s) == s \in pending \/ Running(s) # {}

\* Everything the process has printed, read or not.
log == rows \o out
SeriesRow == [round : 1..REPETITIONS, thread : Workers]
Printed(row) == \E m \in 1..Len(log) : log[m] = row

\* What is printed is a measurement so far.
LogInv ==
  /\ \A m \in 1..Len(log) : log[m] \in SeriesRow
  /\ \A m, n \in 1..Len(log) : log[m] = log[n] => m = n
  /\ \A m \in 1..Len(log) : \A row \in SeriesRow : row.round < log[m].round =>
       \E n \in 1..(m - 1) : log[n] = row

\* a resets have been asked for: the last one may be under way.
RoundsAre(a) ==
  /\ ~Underway(SIGUSR2) => \A w \in Workers : round[w] = a
  /\ SIGUSR2 \in pending => \A w \in Workers : round[w] = a - 1
  /\ \A f \in Running(SIGUSR2) : Halfway(f, a - 1)

\* b reports have been asked for: the last one may be under way.
PrintedIs(b) ==
  /\ ~Underway(SIGUSR1) => \A row \in SeriesRow : Printed(row) <=> row.round <= b
  /\ SIGUSR1 \in pending => \A row \in SeriesRow : Printed(row) <=> row.round < b
  /\ \A f \in Running(SIGUSR1) : \A row \in SeriesRow : Printed(row) <=>
       \/ row.round < b
       \/ row.round = b /\ \E k \in Slots : k < f.slot /\ thread_args[k] = row.thread

\* What the script has asked for, as far as its next step tells.
Asked(a, b) ==
  /\ a \in {b, b + 1} /\ a <= REPETITIONS
  /\ driver \in {"start", "ready", "reset", "report", "quit", "wait"} => b = REPETITIONS - left
  /\ driver \in {"start", "ready", "reset", "quit", "wait"} => a = b
  /\ driver = "report" => a = b + 1
  /\ driver \in {"quit", "wait"} => left = 0
  /\ Underway(SIGUSR1) => a = b /\ b # 0
  /\ Underway(SIGUSR2) => a = b + 1

Counts(a, b) == Asked(a, b) /\ RoundsAre(a) /\ PrintedIs(b)
SeriesInv == fate = "running" => \E b \in Nat : \E a \in Nat : Counts(a, b)

\* Nobody stops the workers until the script does or Ctrl-C is pressed, and
\* main returns only when they have stopped.
StopCause ==
  driver \in {"start", "ready", "reset", "report", "quit"} =>
    /\ SIGINT \notin pending /\ Running(SIGINT) = {}
    /\ \A w \in Workers : (Provisioned(w) => cont[w] = 1) /\ pc[w] # "done"
ExitInv ==
  /\ main = "exited" => fate = "running" /\ \A w \in Workers : pc[w] = "done"
  /\ setup # "ok" => main = "spawn"

-----------------------------------------------------------------------------
\* The frame on top is that of a running handler.
LEMMA TopRuns ==
  ASSUME TypeOK, NEW t \in Threads, NEW phase, InHandler(t, phase)
  PROVE  Top(t) \in Running(Top(t).sig)
  <1>1. /\ frames[t] # <<>> /\ Top(t) \in Frame /\ frames \in [Threads -> Seq(Frame)]
    BY HandlerTarget DEF TypeOK, ControlTypes
  <1>2. Len(frames[t]) \in 1..Len(frames[t]) /\ Top(t) = frames[t][Len(frames[t])]
    BY <1>1, TopType DEF Top
  <1> QED  BY <1>1, <1>2 DEF Running

\* The handler that works on the rounds is alone.
LEMMA RunningTop ==
  ASSUME TypeOK, AloneInv, NEW t \in Threads, NEW phase, InHandler(t, phase),
         Measures(Top(t).sig), NEW s, Measures(s)
  PROVE  /\ s \notin pending
         /\ Running(s) = IF s = Top(t).sig THEN {Top(t)} ELSE {}
  <1> DEFINE n == Len(frames[t])
  <1>1. /\ frames[t] # <<>> /\ Top(t) \in Frame /\ frames \in [Threads -> Seq(Frame)]
    BY HandlerTarget DEF TypeOK, ControlTypes
  <1>2. n \in 1..n /\ Top(t) = frames[t][n]
    BY <1>1, TopType DEF Top
  <1>3. s \notin pending
    BY <1>2 DEF AloneInv
  <1>4. \A u \in Threads : \A j \in 1..Len(frames[u]) : frames[u][j].sig = s => u = t /\ j = n
    BY <1>2 DEF AloneInv
  <1> QED  BY <1>1, <1>2, <1>3, <1>4 DEF Running

\* Its step moves its frame, or ends it.
LEMMA RunningMoves ==
  ASSUME TypeOK, AloneInv, NEW t \in Threads, NEW held \in Held, NEW phase,
         InHandler(t, phase), Advance(t, held), Measures(Top(t).sig), NEW s, Measures(s)
  PROVE  /\ s # Top(t).sig \/ Returns(t) => Running(s)' = {}
         /\ s = Top(t).sig /\ ~Returns(t) => Running(s)' # {}
         /\ \A g \in Running(s)' :
              /\ g.sig = Top(t).sig /\ g.held = held
              /\ g.slot = IF LastPhase(Top(t)) THEN Top(t).slot + 1 ELSE Top(t).slot
              /\ g.phase = IF LastPhase(Top(t)) THEN 1 ELSE Top(t).phase + 1
  <1> DEFINE n == Len(frames[t])
             f == Top(t)
  <1>1. /\ frames[t] # <<>> /\ frames \in [Threads -> Seq(Frame)]
        /\ n \in 1..n /\ f = frames[t][n]
    BY HandlerTarget, FrameMoves DEF TypeOK, ControlTypes
  <1>2. frames' \in [Threads -> Seq(Frame)]
    BY <1>1, AdvanceFrames
  <1>3. \A u \in Threads : \A j \in 1..Len(frames[u]) : Measures(frames[u][j].sig) => u = t /\ j = n
    BY <1>1 DEF AloneInv
  <1>4. ASSUME NEW u \in Threads, NEW j \in 1..Len(frames'[u]), frames'[u][j].sig = s
        PROVE  /\ u = t /\ j = n /\ ~Returns(t)
               /\ frames'[u][j].sig = f.sig /\ frames'[u][j].held = held
               /\ frames'[u][j].slot = IF LastPhase(f) THEN f.slot + 1 ELSE f.slot
               /\ frames'[u][j].phase = IF LastPhase(f) THEN 1 ELSE f.phase + 1
    <2>1. u = t /\ j = n
      BY <1>3, <1>4, FrameMoves
    <2> QED  BY <2>1, FrameMoves
  <1>5. ASSUME s = f.sig, ~Returns(t) PROVE frames'[t][n] \in Running(s)'
    <2>1. n \in 1..Len(frames'[t])
      BY <1>1, <1>5, FrameMoves
    <2>2. frames'[t][n] \in Frame
      BY <1>2, <2>1, ElementOfSeq
    <2>3. frames'[t][n].sig = s
      BY <1>5, <2>1, FrameMoves
    <2> QED  BY <2>1, <2>2, <2>3 DEF Running
  <1> HIDE DEF n, f
  <1>6. \A g \in Running(s)' : \E u \in Threads : \E j \in 1..Len(frames'[u]) :
          g = frames'[u][j] /\ frames'[u][j].sig = s
    BY DEF Running
  <1> QED  BY <1>4, <1>5, <1>6 DEF f

\* What a step leaves of the frames of one signal's handlers.
LEMMA SameRunning ==
  ASSUME NEW s,
         \A u \in Threads : \A j \in 1..Len(frames'[u]) : frames'[u][j].sig = s =>
           j \in 1..Len(frames[u]) /\ frames'[u][j] = frames[u][j],
         \A u \in Threads : \A j \in 1..Len(frames[u]) : frames[u][j].sig = s =>
           j \in 1..Len(frames'[u]) /\ frames'[u][j] = frames[u][j]
  PROVE  Running(s)' = Running(s)
  <1>1. ASSUME NEW f, f \in Running(s)' PROVE f \in Running(s)
    <2>1. PICK u \in Threads : \E j \in 1..Len(frames'[u]) : f = frames'[u][j] /\ f.sig = s /\ f \in Frame
      BY <1>1 DEF Running
    <2>2. PICK j \in 1..Len(frames'[u]) : f = frames'[u][j] /\ f.sig = s /\ f \in Frame
      BY <2>1
    <2>3. j \in 1..Len(frames[u]) /\ f = frames[u][j]
      BY <2>2
    <2> QED  BY <2>2, <2>3 DEF Running
  <1>2. ASSUME NEW f, f \in Running(s) PROVE f \in Running(s)'
    <2>1. PICK u \in Threads : \E j \in 1..Len(frames[u]) : f = frames[u][j] /\ f.sig = s /\ f \in Frame
      BY <1>2 DEF Running
    <2>2. PICK j \in 1..Len(frames[u]) : f = frames[u][j] /\ f.sig = s /\ f \in Frame
      BY <2>1
    <2>3. j \in 1..Len(frames'[u]) /\ f = frames'[u][j]
      BY <2>2
    <2> QED  BY <2>2, <2>3 DEF Running
  <1> QED  BY <1>1, <1>2

\* The step of any handler leaves the others' frames.
LEMMA RunningStays ==
  ASSUME TypeOK, NEW t \in Threads, NEW held \in Held, NEW phase,
         InHandler(t, phase), Advance(t, held), NEW s, s # Top(t).sig
  PROVE  Running(s)' = Running(s)
  <1> DEFINE n == Len(frames[t])
  <1>1. /\ frames[t] # <<>> /\ frames \in [Threads -> Seq(Frame)]
        /\ n \in 1..n /\ Top(t) = frames[t][n]
    BY HandlerTarget, FrameMoves DEF TypeOK, ControlTypes
  <1>2. ASSUME NEW u \in Threads, NEW j \in 1..Len(frames'[u]), frames'[u][j].sig = s
        PROVE  j \in 1..Len(frames[u]) /\ frames'[u][j] = frames[u][j]
    <2>1. j \in 1..Len(frames[u])
      BY FrameMoves
    <2>2. CASE ~(u = t /\ j = n)
      BY <2>1, <2>2, FrameMoves
    <2>3. CASE u = t /\ j = n
      <3>1. frames'[u][j].sig = Top(t).sig
        BY <2>3, FrameMoves
      <3> QED  BY <1>2, <3>1
    <2> QED  BY <2>2, <2>3
  <1>3. ASSUME NEW u \in Threads, NEW j \in 1..Len(frames[u]), frames[u][j].sig = s
        PROVE  j \in 1..Len(frames'[u]) /\ frames'[u][j] = frames[u][j]
    <2>1. ~(u = t /\ j = n)
      BY <1>1, <1>3
    <2> QED  BY <2>1, FrameMoves
  <1> QED  BY <1>2, <1>3, SameRunning

\* A handler starts at its first slot.
LEMMA RunningArrives ==
  ASSUME TypeOK, AloneInv, NEW s \in Signals, NEW t \in Threads, Deliver(s, t), NEW r
  PROVE  /\ r # s => Running(r)' = Running(r)
         /\ r = s /\ Measures(s) => Running(r) = {} /\ Running(r)' = {handle(s)}
  <1> DEFINE n == Len(frames[t]) + 1
  <1>1. s \in pending /\ handle(s) \in Frame /\ handle(s).sig = s
    BY HandleType DEF Deliver, handle
  <1>2. ASSUME r # s PROVE Running(r)' = Running(r)
    <2>1. ASSUME NEW u \in Threads, NEW j \in 1..Len(frames'[u]), frames'[u][j].sig = r
          PROVE  j \in 1..Len(frames[u]) /\ frames'[u][j] = frames[u][j]
      BY <1>1, <1>2, <2>1, FrameArrives
    <2>2. ASSUME NEW u \in Threads, NEW j \in 1..Len(frames[u])
          PROVE  j \in 1..Len(frames'[u]) /\ frames'[u][j] = frames[u][j]
      <3>1. j # n \/ u # t
        BY DEF TypeOK, ControlTypes
      <3> QED  BY <3>1, FrameArrives
    <2> QED  BY <2>1, <2>2, SameRunning
  <1>3. ASSUME r = s, Measures(s) PROVE Running(r) = {} /\ Running(r)' = {handle(s)}
    <2>1. \A u \in Threads : \A j \in 1..Len(frames[u]) : frames[u][j].sig # s
      BY <1>1, <1>3 DEF AloneInv
    <2>2. ASSUME NEW u \in Threads, NEW j \in 1..Len(frames'[u]), frames'[u][j].sig = s
          PROVE  frames'[u][j] = handle(s)
      <3>1. CASE u = t /\ j = n
        BY <3>1, FrameArrives
      <3>2. CASE ~(u = t /\ j = n)
        <4>1. j \in 1..Len(frames[u]) /\ frames'[u][j] = frames[u][j]
          BY <3>2, FrameArrives
        <4> QED  BY <2>1, <2>2, <4>1
      <3> QED  BY <3>1, <3>2
    <2>3. frames'[t][n] = handle(s) /\ n \in 1..Len(frames'[t])
      BY FrameArrives
    <2> HIDE DEF n
    <2> QED  BY <1>1, <1>3, <2>1, <2>2, <2>3 DEF Running
  <1> QED  BY <1>2, <1>3

\* With the handlers stays what is under way.
LEMMA RunningSame ==
  ASSUME UNCHANGED frames, NEW s
  PROVE  Running(s)' = Running(s)
  BY DEF Running

-----------------------------------------------------------------------------
\* Steps that touch no round and no handler of SIGUSR2.
LEMMA RoundsKeep ==
  ASSUME NEW a, RoundsAre(a), UNCHANGED <<round, thread_args>>,
         SIGUSR2 \in pending' <=> SIGUSR2 \in pending, Running(SIGUSR2)' = Running(SIGUSR2)
  PROVE  RoundsAre(a)'
  BY DEF RoundsAre, Underway, Halfway, Raised

\* What a handler's step says of the rounds that it is halfway through.
LEMMA RoundsMove ==
  ASSUME TypeOK, OwnInv, RoundInv, NEW a \in Nat, RoundsAre(a), Underway(SIGUSR2) => a # 0,
         NEW t \in Threads, Top(t).sig = SIGUSR2,
         ReadRound(t) \/ BumpRound(t) \/ ReadCounter(t) \/ MarkCounter(t)
  PROVE  RoundsAre(a)'
  <1> DEFINE f == Top(t)
  <1> USE DEF counters, slots, signals
  <1>1. PICK phase \in {"round", "bump", "count", "mark"}, held \in Held :
          InHandler(t, phase) /\ Advance(t, held)
    BY LoadType, NothingHeld DEF ReadRound, BumpRound, ReadCounter, MarkCounter, Fields
  <1>2. /\ Measures(SIGUSR2) /\ AloneInv /\ UNCHANGED pending
    BY DEF Measures, RoundInv, ReadRound, BumpRound, ReadCounter, MarkCounter
  <1>3. SIGUSR2 \notin pending /\ Running(SIGUSR2) = {f}
    BY <1>1, <1>2, RunningTop
  <1>4. a - 1 \in Nat /\ Halfway(f, a - 1)
    BY <1>3 DEF RoundsAre, Underway
  <1>5. f \in Frame
    BY <1>1, TopOk
  <1>6. CASE ReadRound(t)
    <2> DEFINE now == Load(t, "round")
    <2>1. InHandler(t, "round") /\ Advance(t, now) /\ now \in Held
      BY <1>6, LoadType DEF ReadRound, Fields
    <2>2. ~LastPhase(f) /\ f.phase = 1
      BY <1>5, <2>1, TopOk, PhaseTable
    <2> HIDE DEF now
    <2>3. ASSUME NEW g \in Running(SIGUSR2)' PROVE Halfway(g, a - 1)'
      <3>1. g.held = now /\ g.slot = f.slot /\ g.phase = 2
        BY <1>2, <2>1, <2>2, <2>3, RunningMoves
      <3> QED  BY <1>4, <1>6, <3>1, ReadHalfway DEF now
    <2>4. Running(SIGUSR2)' # {}
      BY <1>2, <2>1, <2>2, RunningMoves DEF Returns
    <2> QED  BY <1>2, <1>3, <2>3, <2>4 DEF RoundsAre, Underway
  <1>7. CASE BumpRound(t)
    <2>1. InHandler(t, "bump") /\ Advance(t, Nothing)
      BY <1>7 DEF BumpRound
    <2>2. ~LastPhase(f) /\ f.phase = 2
      BY <1>5, <2>1, TopOk, PhaseTable
    <2>3. ASSUME NEW g \in Running(SIGUSR2)' PROVE Halfway(g, a - 1)'
      <3>1. g.slot = f.slot /\ g.phase = 3
        BY <1>2, <2>1, <2>2, <2>3, NothingHeld, RunningMoves
      <3> QED  BY <1>4, <1>7, <3>1, BumpHalfway
    <2>4. Running(SIGUSR2)' # {}
      BY <1>2, <2>1, <2>2, NothingHeld, RunningMoves DEF Returns
    <2> QED  BY <1>2, <1>3, <2>3, <2>4 DEF RoundsAre, Underway
  <1>8. CASE ReadCounter(t)
    <2> DEFINE now == Load(t, "ctr")
    <2>1. /\ InHandler(t, "count") /\ Advance(t, now) /\ now \in Held
          /\ UNCHANGED <<thread_args, round>>
      BY <1>8, LoadType DEF ReadCounter, Fields
    <2>2. ~LastPhase(f) /\ f.phase = 3
      BY <1>5, <2>1, TopOk, PhaseTable
    <2> HIDE DEF now
    <2>3. ASSUME NEW g \in Running(SIGUSR2)' PROVE Halfway(g, a - 1)'
      <3>1. g.slot = f.slot /\ g.phase = 4
        BY <1>2, <2>1, <2>2, <2>3, RunningMoves
      <3>2. Raised(g)' = Raised(f)
        BY <2>1, <2>2, <3>1 DEF Raised
      <3> QED  BY <1>4, <2>1, <3>1, <3>2 DEF Halfway
    <2>4. Running(SIGUSR2)' # {}
      BY <1>2, <2>1, <2>2, RunningMoves DEF Returns
    <2> QED  BY <1>2, <1>3, <2>3, <2>4 DEF RoundsAre, Underway
  <1>9. CASE MarkCounter(t)
    <2>1. InHandler(t, "mark") /\ Advance(t, Nothing)
      BY <1>9 DEF MarkCounter
    <2>2. LastPhase(f)
      BY <1>5, <2>1, TopOk, PhaseTable
    <2>3. ASSUME NEW g \in Running(SIGUSR2)' PROVE Halfway(g, a - 1)'
      <3>1. g.slot = f.slot + 1 /\ g.phase = 1
        BY <1>2, <2>1, <2>2, <2>3, NothingHeld, RunningMoves
      <3> QED  BY <1>4, <1>9, <3>1, MarkHalfway
    <2>4. ~Returns(t) => Running(SIGUSR2)' # {}
      BY <1>2, <2>1, NothingHeld, RunningMoves
    <2>5. Returns(t) => \A w \in Workers : round'[w] = a
      <3>1. Returns(t) => \A w \in Workers : round'[w] = (a - 1) + 1
        BY <1>4, <1>9, MarkHalfway
      <3> QED  BY <3>1
    <2> QED  BY <1>2, <1>3, <2>3, <2>4, <2>5 DEF RoundsAre, Underway
  <1> QED  BY <1>6, <1>7, <1>8, <1>9

\* Every step of a handler that does not crash.
LEMMA HandlerMoves ==
  ASSUME TypeOK, NEW t \in Threads, HandlerStep(t)
  PROVE  \/ NullDereference(t)
         \/ /\ UNCHANGED <<main, fate, pending, thread_args>>
            /\ Top(t) \in Frame /\ Top(t).sig \in Signals
            /\ \E phase \in HandlerPhases : \E held \in Held :
                 /\ InHandler(t, phase) /\ Advance(t, held)
                 /\ Phases(Top(t).sig)[Top(t).phase] = phase
                 /\ phase = "row" <=> ReadField(t)
                 /\ phase = "print" <=> PrintRow(t)
                 /\ phase = "round" <=> ReadRound(t)
                 /\ phase = "bump" <=> BumpRound(t)
                 /\ phase = "count" <=> ReadCounter(t)
                 /\ phase = "mark" <=> MarkCounter(t)
                 /\ phase = "stop" <=> StopWorker(t)
  <1> USE DEF counters, slots, signals, process, history
  <1>1. ASSUME NEW phase, InHandler(t, phase)
        PROVE  Top(t) \in Frame /\ Top(t).sig \in Signals /\ Phases(Top(t).sig)[Top(t).phase] = phase
    BY <1>1, HandlerTarget, TopType DEF InHandler, At, TypeOK, ControlTypes
  <1>2. \A phase : InHandler(t, phase) =>
          /\ ReadField(t) => phase = "row"
          /\ PrintRow(t) => phase = "print"
          /\ ReadRound(t) => phase = "round"
          /\ BumpRound(t) => phase = "bump"
          /\ ReadCounter(t) => phase = "count"
          /\ MarkCounter(t) => phase = "mark"
          /\ StopWorker(t) => phase = "stop"
    BY <1>1 DEF ReadField, PrintRow, ReadRound, BumpRound, ReadCounter, MarkCounter, StopWorker
  <1>3. CASE ReadField(t)
    <2> DEFINE x == LoadOrder[Top(t).phase]
    <2>1. InHandler(t, "row") /\ Advance(t, Load(t, x)) /\ Load(t, x) \in Held
      BY <1>3, NextField, LoadType DEF ReadField
    <2> HIDE DEF x
    <2> QED  BY <1>1, <1>2, <1>3, <2>1 DEF ReadField, HandlerPhases
  <1>4. CASE PrintRow(t)
    BY <1>1, <1>2, <1>4, NothingHeld DEF PrintRow, HandlerPhases
  <1>5. CASE ReadRound(t)
    <2>1. InHandler(t, "round") /\ Advance(t, Load(t, "round")) /\ Load(t, "round") \in Held
      BY <1>5, LoadType DEF ReadRound, Fields
    <2> QED  BY <1>1, <1>2, <1>5, <2>1 DEF ReadRound, HandlerPhases
  <1>6. CASE BumpRound(t)
    BY <1>1, <1>2, <1>6, NothingHeld DEF BumpRound, HandlerPhases
  <1>7. CASE ReadCounter(t)
    <2>1. InHandler(t, "count") /\ Advance(t, Load(t, "ctr")) /\ Load(t, "ctr") \in Held
      BY <1>7, LoadType DEF ReadCounter, Fields
    <2> QED  BY <1>1, <1>2, <1>7, <2>1 DEF ReadCounter, HandlerPhases
  <1>8. CASE MarkCounter(t)
    BY <1>1, <1>2, <1>8, NothingHeld DEF MarkCounter, HandlerPhases
  <1>9. CASE StopWorker(t)
    BY <1>1, <1>2, <1>9, NothingHeld DEF StopWorker, HandlerPhases
  <1> QED  BY <1>3, <1>4, <1>5, <1>6, <1>7, <1>8, <1>9 DEF HandlerStep

\* The resets asked for stay what they are while handlers run.
LEMMA RoundsHandler ==
  ASSUME TypeOK, OwnInv, RoundInv, NEW a \in Nat, RoundsAre(a), Underway(SIGUSR2) => a # 0,
         NEW t \in Threads, HandlerStep(t), ~NullDereference(t)
  PROVE  RoundsAre(a)'
  <1>1. PICK phase \in HandlerPhases, held \in Held :
          /\ InHandler(t, phase) /\ Advance(t, held)
          /\ Phases(Top(t).sig)[Top(t).phase] = phase
          /\ phase = "row" <=> ReadField(t)
          /\ phase = "print" <=> PrintRow(t)
          /\ phase = "round" <=> ReadRound(t)
          /\ phase = "bump" <=> BumpRound(t)
          /\ phase = "count" <=> ReadCounter(t)
          /\ phase = "mark" <=> MarkCounter(t)
          /\ phase = "stop" <=> StopWorker(t)
    BY HandlerMoves
  <1>2. UNCHANGED <<pending, thread_args>> /\ Top(t) \in Frame /\ Top(t).sig \in Signals
    BY HandlerMoves
  <1>3. CASE Top(t).sig = SIGUSR2
    <2>1. phase \in {"round", "bump", "count", "mark"}
      BY <1>1, <1>2, <1>3, PhaseTable DEF HandlerPhases, SIGUSR1, SIGUSR2, SIGINT
    <2> QED  BY <1>1, <1>3, <2>1, RoundsMove
  <1>4. CASE Top(t).sig # SIGUSR2
    <2>1. Running(SIGUSR2)' = Running(SIGUSR2)
      BY <1>1, <1>4, RunningStays
    <2>2. phase \in {"row", "print", "stop"}
      BY <1>1, <1>2, <1>4, PhaseTable DEF HandlerPhases
    <2>3. UNCHANGED round
      BY <1>1, <2>2 DEF ReadField, PrintRow, StopWorker, counters
    <2> QED  BY <1>2, <2>1, <2>3, RoundsKeep
  <1> QED  BY <1>3, <1>4

-----------------------------------------------------------------------------
\* A handler of SIGUSR1 or SIGUSR2 has gone through the slots behind it.
LEMMA RunningReached ==
  ASSUME RoundInv, NEW s, Measures(s), NEW f \in Running(s)
  PROVE  f \in Frame /\ Reached(f) /\ f.sig = s
  BY DEF Running, RoundInv, FramesInv, FrameOk

\* A worker that is published has no part in a reset or report under way.
LEMMA RoundsPublish ==
  ASSUME TypeOK, OwnInv, RoundInv, NEW a, RoundsAre(a), NEW w \in Workers, Publish(w)
  PROVE  RoundsAre(a)'
  <1>1. /\ UNCHANGED <<frames, pending, round>>
        /\ \A g : Reached(g) => Raised(g)' = Raised(g)
    BY PublishKeeps DEF RoundInv
  <1>2. Running(SIGUSR2)' = Running(SIGUSR2)
    BY <1>1, RunningSame
  <1>3. ASSUME NEW f \in Running(SIGUSR2) PROVE Halfway(f, a - 1)'
    <2>1. Raised(f)' = Raised(f)
      BY <1>1, RunningReached DEF Measures
    <2>2. Halfway(f, a - 1)
      BY DEF RoundsAre
    <2> QED  BY <1>1, <2>1, <2>2 DEF Halfway
  <1> QED  BY <1>1, <1>2, <1>3 DEF RoundsAre, Underway

\* Nor does it change what the slots behind a SIGUSR1 handler hold.
LEMMA PrintedPublish ==
  ASSUME TypeOK, OwnInv, RoundInv, NEW b, PrintedIs(b), NEW w \in Workers, Publish(w),
         log' = log
  PROVE  PrintedIs(b)'
  <1>1. /\ UNCHANGED <<frames, pending>>
        /\ \A k \in Slots : thread_args[k] # NoArgs => thread_args'[k] = thread_args[k]
    BY PublishKeeps DEF RoundInv
  <1>2. Running(SIGUSR1)' = Running(SIGUSR1)
    BY <1>1, RunningSame
  <1>3. ASSUME NEW f \in Running(SIGUSR1), NEW k \in Slots, k < f.slot
        PROVE  thread_args'[k] = thread_args[k]
    BY <1>1, <1>3, RunningReached DEF Reached, Measures
  <1>4. \A row : Printed(row)' <=> Printed(row)
    BY DEF Printed
  <1> QED  BY <1>1, <1>2, <1>3, <1>4 DEF PrintedIs, Underway

\* A handler begins before its first slot.
LEMMA RoundsDeliver ==
  ASSUME TypeOK, RoundInv, NEW a \in Nat, RoundsAre(a), Underway(SIGUSR2) => a # 0,
         NEW s \in Signals, NEW t \in Threads, Deliver(s, t)
  PROVE  RoundsAre(a)'
  <1>1. /\ AloneInv /\ s \in pending /\ pending' = pending \ {s}
        /\ UNCHANGED <<round, thread_args>>
    BY DEF RoundInv, Deliver, slots, counters
  <1>2. CASE s = SIGUSR2
    <2>1. Running(SIGUSR2)' = {handle(s)} /\ SIGUSR2 \notin pending'
      BY <1>1, <1>2, RunningArrives DEF Measures
    <2>2. a - 1 \in Nat /\ \A w \in Workers : round[w] = a - 1
      BY <1>1, <1>2 DEF RoundsAre, Underway
    <2>3. handle(s).slot = 0 /\ handle(s).phase = 1
      BY DEF handle
    <2>4. Raised(handle(s))' = {}
      BY <2>3 DEF Raised, Slots
    <2>5. Halfway(handle(s), a - 1)'
      BY <1>1, <2>2, <2>3, <2>4 DEF Halfway
    <2> QED  BY <2>1, <2>5 DEF RoundsAre, Underway
  <1>3. CASE s # SIGUSR2
    <2>1. Running(SIGUSR2)' = Running(SIGUSR2)
      BY <1>1, <1>3, RunningArrives
    <2> QED  BY <1>1, <1>3, <2>1, RoundsKeep
  <1> QED  BY <1>2, <1>3

\* Steps that print nothing and touch no handler of SIGUSR1.
LEMMA PrintedKeep ==
  ASSUME NEW b, PrintedIs(b), log' = log, UNCHANGED thread_args,
         SIGUSR1 \in pending' <=> SIGUSR1 \in pending, Running(SIGUSR1)' = Running(SIGUSR1)
  PROVE  PrintedIs(b)'
  <1>1. \A row : Printed(row)' <=> Printed(row)
    BY DEF Printed
  <1> QED  BY <1>1 DEF PrintedIs, Underway

\* The same of the rows.
LEMMA PrintedDeliver ==
  ASSUME TypeOK, RoundInv, NEW b \in Nat, PrintedIs(b), log' = log,
         NEW s \in Signals, NEW t \in Threads, Deliver(s, t)
  PROVE  PrintedIs(b)'
  <1>1. /\ AloneInv /\ s \in pending /\ pending' = pending \ {s} /\ UNCHANGED thread_args
    BY DEF RoundInv, Deliver, slots
  <1>2. CASE s = SIGUSR1
    <2>1. Running(SIGUSR1)' = {handle(s)} /\ SIGUSR1 \notin pending'
      BY <1>1, <1>2, RunningArrives DEF Measures
    <2>2. \A k \in Slots : ~(k < handle(s).slot)
      BY DEF handle, Slots
    <2>3. \A row : Printed(row)' <=> Printed(row)
      BY DEF Printed
    <2>4. \A row \in SeriesRow : Printed(row) <=> row.round < b
      BY <1>1, <1>2 DEF PrintedIs
    <2> QED  BY <2>1, <2>2, <2>3, <2>4 DEF PrintedIs, Underway
  <1>3. CASE s # SIGUSR1
    <2>1. Running(SIGUSR1)' = Running(SIGUSR1)
      BY <1>1, <1>3, RunningArrives
    <2> QED  BY <1>1, <1>3, <2>1, PrintedKeep
  <1> QED  BY <1>2, <1>3

\* A handler that loads a field of its row stays in its slot.
LEMMA PrintedHandler ==
  ASSUME TypeOK, RoundInv, NEW b \in Nat, PrintedIs(b), log' = log,
         NEW t \in Threads, HandlerStep(t), ~NullDereference(t), ~PrintRow(t)
  PROVE  PrintedIs(b)'
  <1>1. PICK phase \in HandlerPhases, held \in Held :
          /\ InHandler(t, phase) /\ Advance(t, held)
          /\ Phases(Top(t).sig)[Top(t).phase] = phase
          /\ phase # "print"
    BY HandlerMoves
  <1>2. UNCHANGED <<pending, thread_args>> /\ Top(t) \in Frame /\ Top(t).sig \in Signals
    BY HandlerMoves
  <1>3. CASE Top(t).sig = SIGUSR1
    <2>1. phase = "row" /\ ~LastPhase(Top(t)) /\ Measures(SIGUSR1) /\ AloneInv
      BY <1>1, <1>2, <1>3, PhaseTable
         DEF HandlerPhases, SIGUSR1, SIGUSR2, SIGINT, Measures, RoundInv
    <2>2. SIGUSR1 \notin pending /\ Running(SIGUSR1) = {Top(t)}
      BY <1>1, <1>3, <2>1, RunningTop
    <2>3. Running(SIGUSR1)' # {} /\ \A g \in Running(SIGUSR1)' : g.slot = Top(t).slot
      BY <1>1, <1>3, <2>1, RunningMoves DEF Returns
    <2>4. \A row : Printed(row)' <=> Printed(row)
      BY DEF Printed
    <2> QED  BY <1>2, <2>2, <2>3, <2>4 DEF PrintedIs, Underway
  <1>4. CASE Top(t).sig # SIGUSR1
    <2>1. Running(SIGUSR1)' = Running(SIGUSR1)
      BY <1>1, <1>4, RunningStays
    <2> QED  BY <1>2, <2>1, PrintedKeep
  <1> QED  BY <1>3, <1>4

-----------------------------------------------------------------------------
\* Reading a row moves it from the pipe to the record.
LEMMA ReadKeepsLog ==
  ASSUME DriverTypes, ReadRow
  PROVE  log' = log
  <1> DEFINE S == [round : Nat, thread : Workers]
  <1>1. rows \in Seq(S) /\ out \in Seq(S) /\ out # <<>>
    BY DEF DriverTypes, ReadRow
  <1>2. rows' = Append(rows, Head(out)) /\ out' = Tail(out)
    BY DEF ReadRow
  <1> HIDE DEF S
  <1>3. /\ Head(out) = out[1] /\ Head(out) \in S /\ Tail(out) \in Seq(S)
        /\ Len(Tail(out)) = Len(out) - 1
        /\ \A m \in 1..Len(Tail(out)) : Tail(out)[m] = out[m + 1]
    BY <1>1, HeadTailProperties
  <1>4. /\ rows' \in Seq(S) /\ Len(rows') = Len(rows) + 1
        /\ \A m \in 1..Len(rows) : rows'[m] = rows[m]
        /\ rows'[Len(rows) + 1] = Head(out)
    BY <1>1, <1>2, <1>3, AppendProperties
  <1>5. /\ log \in Seq(S) /\ Len(log) = Len(rows) + Len(out)
        /\ \A m \in 1..Len(rows) + Len(out) :
             log[m] = IF m <= Len(rows) THEN rows[m] ELSE out[m - Len(rows)]
    BY <1>1, ConcatProperties DEF log
  <1>6. /\ log' \in Seq(S) /\ Len(log') = Len(rows') + Len(out')
        /\ \A m \in 1..Len(rows') + Len(out') :
             log'[m] = IF m <= Len(rows') THEN rows'[m] ELSE out'[m - Len(rows')]
    BY <1>2, <1>3, <1>4, ConcatProperties DEF log
  <1>7. Len(rows) \in Nat /\ Len(out) \in Nat \ {0}
    BY <1>1, EmptySeq, LenProperties
  <1>8. ASSUME NEW m \in 1..Len(log') PROVE log'[m] = log[m]
    <2>1. CASE m <= Len(rows)
      BY <1>2, <1>3, <1>4, <1>5, <1>6, <1>7, <2>1
    <2>2. CASE m = Len(rows) + 1
      BY <1>2, <1>3, <1>4, <1>5, <1>6, <1>7, <2>2
    <2>3. CASE m > Len(rows) + 1
      <3>1. m - Len(rows') \in 1..Len(Tail(out)) /\ (m - Len(rows')) + 1 = m - Len(rows)
        BY <1>2, <1>3, <1>4, <1>6, <1>7, <2>3
      <3>2. out'[m - Len(rows')] = out[m - Len(rows)]
        BY <1>2, <1>3, <3>1
      <3> QED  BY <1>2, <1>3, <1>4, <1>5, <1>6, <1>7, <2>3, <3>2
    <2> QED  BY <1>6, <1>7, <2>1, <2>2, <2>3
  <1>9. Len(log') = Len(log)
    BY <1>2, <1>3, <1>4, <1>5, <1>6, <1>7
  <1> QED  BY <1>5, <1>6, <1>8, <1>9, SeqEqual

\* Printing one adds it at the end.
LEMMA PrintGrowsLog ==
  ASSUME DriverTypes, NEW row \in [round : Nat, thread : Workers],
         out' = Append(out, row), UNCHANGED rows
  PROVE  /\ Len(log) \in Nat /\ Len(log') = Len(log) + 1
         /\ \A m \in 1..Len(log) : log'[m] = log[m]
         /\ log'[Len(log) + 1] = row
  <1> DEFINE S == [round : Nat, thread : Workers]
  <1>1. rows \in Seq(S) /\ out \in Seq(S) /\ row \in S
    BY DEF DriverTypes
  <1> HIDE DEF S
  <1>2. /\ out' \in Seq(S) /\ Len(out') = Len(out) + 1
        /\ \A m \in 1..Len(out) : out'[m] = out[m]
        /\ out'[Len(out) + 1] = row
    BY <1>1, AppendProperties
  <1>3. /\ Len(log) = Len(rows) + Len(out)
        /\ \A m \in 1..Len(rows) + Len(out) :
             log[m] = IF m <= Len(rows) THEN rows[m] ELSE out[m - Len(rows)]
    BY <1>1, ConcatProperties DEF log
  <1>4. /\ Len(log') = Len(rows) + Len(out')
        /\ \A m \in 1..Len(rows) + Len(out') :
             log'[m] = IF m <= Len(rows) THEN rows[m] ELSE out'[m - Len(rows)]
    <2>1. rows \in Seq(S) /\ out' \in Seq(S)
      BY <1>1, <1>2
    <2>2. \A p, q \in Seq(S) :
            /\ Len(p \o q) = Len(p) + Len(q)
            /\ \A m \in 1..Len(p) + Len(q) :
                 (p \o q)[m] = IF m <= Len(p) THEN p[m] ELSE q[m - Len(p)]
      BY ConcatProperties
    <2>3. log' = rows \o out'
      BY DEF log
    <2> QED  BY <2>1, <2>2, <2>3
  <1>5. Len(rows) \in Nat /\ Len(out) \in Nat
    BY <1>1, LenProperties
  <1>6. ASSUME NEW m \in 1..Len(log) PROVE log'[m] = log[m]
    <2>1. m \in 1..Len(rows) + Len(out) /\ m \in 1..Len(rows) + Len(out')
      BY <1>2, <1>3, <1>5, <1>6
    <2>2. CASE m <= Len(rows)
      BY <1>3, <1>4, <2>1, <2>2
    <2>3. CASE ~(m <= Len(rows))
      <3>1. m - Len(rows) \in 1..Len(out)
        BY <1>5, <2>1, <2>3
      <3>2. out'[m - Len(rows)] = out[m - Len(rows)]
        BY <1>2, <3>1
      <3> QED  BY <1>3, <1>4, <2>1, <2>3, <3>2
    <2> QED  BY <2>2, <2>3
  <1>7. log'[Len(log) + 1] = row
    <2> DEFINE m == Len(log) + 1
    <2>1. m \in 1..Len(rows) + Len(out') /\ ~(m <= Len(rows)) /\ m - Len(rows) = Len(out) + 1
      BY <1>2, <1>3, <1>5
    <2> HIDE DEF m
    <2>2. log'[m] = out'[m - Len(rows)]
      BY <1>4, <2>1
    <2> QED  BY <1>2, <2>1, <2>2 DEF m
  <1> QED  BY <1>2, <1>3, <1>4, <1>5, <1>6, <1>7

\* What a row that is printed says.
LEMMA PrintedRow ==
  ASSUME TypeOK, OwnInv, RoundInv, RowInv, NEW a \in Nat, NEW b \in Nat, Counts(a, b),
         NEW t \in Threads, PrintRow(t)
  PROVE  LET f == Top(t)
             row == [round |-> Row(t)["round"], thread |-> Target(t)]
         IN  /\ row \in SeriesRow /\ row.round = b /\ row.thread = thread_args[f.slot]
             /\ f.slot \in Slots /\ thread_args[f.slot] # NoArgs /\ Reached(f)
             /\ f.sig = SIGUSR1 /\ f.phase = 3 /\ LastPhase(f)
             /\ SIGUSR1 \notin pending /\ Running(SIGUSR1) = {f}
  <1> DEFINE f == Top(t)
  <1>1. InHandler(t, "print")
    BY DEF PrintRow
  <1>2. /\ f \in Frame /\ f.slot \in Slots /\ FrameOk(f)
        /\ Target(t) = thread_args[f.slot] /\ Target(t) # NoArgs /\ Target(t) \in Workers
        /\ f.sig = SIGUSR1 /\ f.phase = 3 /\ LastPhase(f)
    BY <1>1, TopOk, PhaseTable
  <1>3. Measures(SIGUSR1) /\ Measures(SIGUSR2) /\ SIGUSR1 # SIGUSR2 /\ AloneInv
    BY DEF Measures, SIGUSR1, SIGUSR2, RoundInv
  <1>4. /\ SIGUSR1 \notin pending /\ Running(SIGUSR1) = {f}
        /\ SIGUSR2 \notin pending /\ Running(SIGUSR2) = {}
    BY <1>1, <1>2, <1>3, RunningTop
  <1>5. a = b /\ b # 0 /\ a <= REPETITIONS
    BY <1>4 DEF Counts, Asked, Underway
  <1>6. round[Target(t)] = a
    BY <1>2, <1>4 DEF Counts, RoundsAre, Underway
  <1>7. Row(t)["round"] = b /\ Reached(f)
    <2>1. Row(t)["round"] = round[Target(t)]
      BY <1>1, <1>2, RowsAreCurrent DEF InHandler, PrintsCurrentRound
    <2> QED  BY <1>2, <1>3, <1>5, <1>6, <2>1 DEF FrameOk
  <1> HIDE DEF f
  <1> QED  BY <1>2, <1>4, <1>5, <1>7 DEF SeriesRow, f

\* It is a new one, and it comes after all rows of the rounds before.
LEMMA PrintIsNew ==
  ASSUME TypeOK, OwnInv, RoundInv, RowInv, DriverTypes, LogInv,
         NEW a \in Nat, NEW b \in Nat, Counts(a, b), NEW t \in Threads, PipeRow(t)
  PROVE  LogInv' /\ PrintedIs(b)'
  <1> DEFINE f == Top(t)
             row == [round |-> Row(t)["round"], thread |-> Target(t)]
  <1>1. /\ PrintRow(t) /\ out' = Append(out, row) /\ UNCHANGED rows
        /\ UNCHANGED <<pending, thread_args>> /\ Advance(t, Nothing) /\ InHandler(t, "print")
    BY DEF PipeRow, PrintRow, signals, slots
  <1>2. /\ row \in SeriesRow /\ row.round = b /\ row.thread = thread_args[f.slot]
        /\ f.slot \in Slots /\ thread_args[f.slot] # NoArgs /\ Reached(f)
        /\ f.sig = SIGUSR1 /\ f.phase = 3 /\ LastPhase(f)
        /\ SIGUSR1 \notin pending /\ Running(SIGUSR1) = {f}
    BY <1>1, PrintedRow
  <1>3. row \in [round : Nat, thread : Workers]
    BY <1>1, RowType
  <1>4. Returns(t) <=> f.slot + 1 = nprocs
    BY <1>2 DEF Returns
  <1> HIDE DEF row
  <1>5. /\ Len(log) \in Nat /\ Len(log') = Len(log) + 1
        /\ \A m \in 1..Len(log) : log'[m] = log[m]
        /\ log'[Len(log) + 1] = row
    BY <1>1, <1>3, PrintGrowsLog
  <1>6. \A x \in SeriesRow : Printed(x) <=>
          \/ x.round < b
          \/ x.round = b /\ \E k \in Slots : k < f.slot /\ thread_args[k] = x.thread
    BY <1>2 DEF Counts, PrintedIs
  <1>7. ~Printed(row)
    <2> SUFFICES ASSUME NEW k \in Slots, k < f.slot, thread_args[k] = row.thread PROVE FALSE
      BY <1>2, <1>6
    <2>1. k = f.slot
      BY <1>2, OneSlot
    <2> HIDE DEF f
    <2> QED  BY <1>2, <2>1 DEF Slots
  <1>8. \A x : Printed(x)' <=> Printed(x) \/ x = row
    BY <1>5 DEF Printed
  <1> HIDE DEF f
  <1>9. LogInv'
    <2>1. \A m \in 1..Len(log') : m \in 1..Len(log) \/ m = Len(log) + 1
      BY <1>5
    <2>2. \A m \in 1..Len(log') : log'[m] \in SeriesRow
      BY <1>2, <1>5, <2>1 DEF LogInv
    <2>3. \A m, n \in 1..Len(log') : log'[m] = log'[n] => m = n
      BY <1>5, <1>7, <2>1 DEF LogInv, Printed
    <2>4. ASSUME NEW m \in 1..Len(log'), NEW x \in SeriesRow, x.round < log'[m].round
          PROVE  \E n \in 1..(m - 1) : log'[n] = x
      <3>1. CASE m \in 1..Len(log)
        <4>1. PICK n \in 1..(m - 1) : log[n] = x
          BY <1>5, <2>4, <3>1 DEF LogInv
        <4> QED  BY <1>5, <3>1, <4>1
      <3>2. CASE m = Len(log) + 1
        <4>1. PICK n \in 1..Len(log) : log[n] = x
          BY <1>2, <1>5, <1>6, <2>4, <3>2 DEF Printed
        <4> QED  BY <1>5, <3>2, <4>1
      <3> QED  BY <2>1, <3>1, <3>2
    <2> QED  BY <2>2, <2>3, <2>4 DEF LogInv
  <1>10. ASSUME NEW x \in SeriesRow
         PROVE  Printed(x)' <=>
                  \/ x.round < b
                  \/ x.round = b /\ \E k \in Slots : (k < f.slot \/ k = f.slot) /\ thread_args[k] = x.thread
    <2>1. x = row <=> x.round = b /\ x.thread = thread_args[f.slot]
      BY <1>2 DEF SeriesRow
    <2> QED  BY <1>2, <1>6, <1>8, <2>1
  <1>11. PrintedIs(b)'
    <2>1. Measures(SIGUSR1) /\ AloneInv
      BY DEF Measures, RoundInv
    <2>2. /\ Returns(t) => Running(SIGUSR1)' = {}
          /\ ~Returns(t) => Running(SIGUSR1)' # {}
          /\ \A g \in Running(SIGUSR1)' : g.slot = f.slot + 1
      BY <1>1, <1>2, <2>1, NothingHeld, RunningMoves DEF f
    <2>3. \A k \in Slots : k < f.slot + 1 <=> k < f.slot \/ k = f.slot
      BY <1>2 DEF Slots
    <2>4. ASSUME Returns(t), NEW x \in SeriesRow PROVE Printed(x)' <=> x.round <= b
      <3>1. \A k \in Slots : k < f.slot \/ k = f.slot
        BY <1>2, <1>4, <2>4 DEF Slots
      <3>2. \A k \in Slots : thread_args[k] # NoArgs
        BY <1>2, <3>1 DEF Reached
      <3>3. \E k \in Slots : thread_args[k] = x.thread
        BY <3>2, FullTable DEF SeriesRow
      <3>4. Printed(x)' <=> x.round < b \/ x.round = b
        BY <1>10, <3>1, <3>3
      <3> QED  BY <3>4 DEF SeriesRow
    <2>5. \A g \in Running(SIGUSR1)' : \A x \in SeriesRow : Printed(x)' <=>
            \/ x.round < b
            \/ x.round = b /\ \E k \in Slots : k < g.slot /\ thread_args'[k] = x.thread
      BY <1>1, <1>10, <2>2, <2>3
    <2> QED  BY <1>1, <1>2, <2>2, <2>4, <2>5 DEF PrintedIs, Underway
  <1> QED  BY <1>9, <1>11

-----------------------------------------------------------------------------
\* What is under way ends, and begins by a signal only.
LEMMA UnderwayHandler ==
  ASSUME TypeOK, RoundInv, NEW t \in Threads, HandlerStep(t), ~NullDereference(t),
         NEW s, Measures(s), Underway(s)'
  PROVE  Underway(s)
  <1>1. PICK phase \in HandlerPhases, held \in Held :
          InHandler(t, phase) /\ Advance(t, held)
    BY HandlerMoves
  <1>2. UNCHANGED pending /\ AloneInv
    BY HandlerMoves DEF RoundInv
  <1>3. CASE s = Top(t).sig
    BY <1>1, <1>2, <1>3, RunningTop DEF Underway
  <1>4. CASE s # Top(t).sig
    BY <1>1, <1>2, <1>4, RunningStays DEF Underway
  <1> QED  BY <1>3, <1>4

\* A signal that is delivered has been under way already.
LEMMA UnderwayDeliver ==
  ASSUME TypeOK, RoundInv, NEW s \in Signals, NEW t \in Threads, Deliver(s, t),
         NEW r, Underway(r)'
  PROVE  Underway(r)
  <1>1. s \in pending /\ pending' = pending \ {s} /\ AloneInv
    BY DEF Deliver, RoundInv
  <1> QED  BY <1>1, RunningArrives DEF Underway

\* While the script goes on as before, so do its numbers.
LEMMA AskedKeep ==
  ASSUME NEW a, NEW b, Asked(a, b), UNCHANGED <<driver, left>>,
         \A s : Measures(s) /\ Underway(s)' => Underway(s)
  PROVE  Asked(a, b)'
  BY DEF Asked, Measures

\* Steps that touch neither handlers nor slots nor rounds nor rows.
LEMMA CountsStay ==
  ASSUME NEW a, NEW b, Counts(a, b), UNCHANGED <<frames, thread_args, round>>, log' = log,
         pending' \in {pending, pending \cup {SIGINT}}
  PROVE  /\ RoundsAre(a)' /\ PrintedIs(b)'
         /\ \A s : Measures(s) => (Underway(s)' <=> Underway(s))
  <1>1. \A s : Running(s)' = Running(s)
    BY RunningSame
  <1>2. \A s : Measures(s) => (s \in pending' <=> s \in pending)
    BY DEF Measures, SIGUSR1, SIGUSR2, SIGINT
  <1>3. Measures(SIGUSR1) /\ Measures(SIGUSR2)
    BY DEF Measures
  <1> QED  BY <1>1, <1>2, <1>3, RoundsKeep, PrintedKeep DEF Counts, Underway

\* The worker steps and the steps of main.
LEMMA CountsWorker ==
  ASSUME TypeOK, OwnInv, RoundInv, NEW a, NEW b, Counts(a, b),
         MainStep \/ \E w \in Workers : WorkerStep(w), UNCHANGED driver_vars
  PROVE  Counts(a, b)'
  <1> USE DEF process, signals, slots, counters, history
  <1>1. log' = log /\ UNCHANGED <<driver, left>>
    BY DEF log, driver_vars
  <1>2. ASSUME UNCHANGED <<frames, thread_args, round, pending>> PROVE Counts(a, b)'
    BY <1>1, <1>2, CountsStay, AskedKeep DEF Counts
  <1>3. CASE MainStep
    BY <1>2, <1>3 DEF MainStep, Spawn, InstallNext, Announce, Goodbye
  <1>4. ASSUME NEW w \in Workers, Claim(w) \/ Search(w) \/ Check(w) PROVE Counts(a, b)'
    BY <1>2, <1>4 DEF Claim, Search, Check
  <1>5. ASSUME NEW w \in Workers, Publish(w) PROVE Counts(a, b)'
    <2>1. UNCHANGED <<frames, pending>>
      BY <1>5 DEF Publish
    <2>2. \A s : Underway(s)' <=> Underway(s)
      BY <2>1, RunningSame DEF Underway
    <2> QED  BY <1>1, <1>5, <2>2, RoundsPublish, PrintedPublish, AskedKeep DEF Counts
  <1> QED  BY <1>3, <1>4, <1>5 DEF WorkerStep

\* A signal that is delivered.
LEMMA CountsDeliver ==
  ASSUME TypeOK, RoundInv, NEW a \in Nat, NEW b \in Nat, Counts(a, b),
         NEW s \in Signals, NEW t \in Threads, Deliver(s, t), UNCHANGED driver_vars
  PROVE  Counts(a, b)'
  <1>1. log' = log /\ UNCHANGED <<driver, left>>
    BY DEF log, driver_vars
  <1>2. Underway(SIGUSR2) => a # 0
    BY DEF Counts, Asked
  <1> QED  BY <1>1, <1>2, RoundsDeliver, PrintedDeliver, UnderwayDeliver, AskedKeep DEF Counts

\* A handler at work.
LEMMA CountsHandler ==
  ASSUME TypeOK, OwnInv, RoundInv, RowInv, DriverTypes, LogInv,
         NEW a \in Nat, NEW b \in Nat, Counts(a, b), NEW t \in Threads, ~NullDereference(t),
         PipeRow(t) \/ (QuietHandlerStep(t) /\ UNCHANGED driver_vars)
  PROVE  Counts(a, b)' /\ LogInv'
  <1>1. HandlerStep(t) /\ UNCHANGED <<driver, left>>
    BY DEF PipeRow, QuietHandlerStep, HandlerStep, driver_vars
  <1>2. Underway(SIGUSR2) => a # 0
    BY DEF Counts, Asked
  <1>3. RoundsAre(a)' /\ Asked(a, b)'
    BY <1>1, <1>2, RoundsHandler, UnderwayHandler, AskedKeep DEF Counts
  <1>4. CASE PipeRow(t)
    BY <1>3, <1>4, PrintIsNew DEF Counts
  <1>5. CASE QuietHandlerStep(t) /\ UNCHANGED driver_vars
    <2>1. log' = log
      BY <1>5 DEF log, driver_vars
    <2>2. ~PrintRow(t)
      BY <1>1, <1>5, HandlerMoves DEF QuietHandlerStep
    <2>3. LogInv'
      BY <2>1 DEF LogInv
    <2> QED  BY <1>1, <1>3, <2>1, <2>2, <2>3, PrintedHandler DEF Counts
  <1> QED  BY <1>4, <1>5

-----------------------------------------------------------------------------
\* A sender that waits sends when nothing is under way.
LEMMA QuietSend ==
  ASSUME Patient, TypeOK, NEW s \in Signals, s # SIGINT, Send(s)
  PROVE  /\ \A r : ~Underway(r) /\ Running(r)' = {}
         /\ pending' = {s}
         /\ UNCHANGED <<fate, thread_args, round>>
  <1>1. pending = {} /\ \A r \in Signals : ~HandlerRuns(r)
    BY DEF Send, Quiet
  <1>2. pending' = pending \cup {s} /\ UNCHANGED <<frames, fate, thread_args, round>>
    BY DEF Send, process, slots, counters
  <1>3. \A r \in Signals : Running(r) = {}
    BY <1>1, RunsSomewhere DEF Running
  <1>4. \A r : Running(r) = {}
    <2> SUFFICES ASSUME NEW r, NEW f \in Running(r) PROVE FALSE
      OBVIOUS
    <2>1. f \in Frame /\ f.sig = r
      BY DEF Running
    <2>2. r \in Signals
      BY <2>1 DEF Frame
    <2> QED  BY <1>3, <2>2
  <1> QED  BY <1>1, <1>2, <1>4, RunningSame DEF Underway

\* The script asks for one more reset.
LEMMA CountsReset ==
  ASSUME Patient, TypeOK, DriverTypes, LeftInv, NEW a \in Nat, NEW b \in Nat, Counts(a, b), Reset
  PROVE  Counts(a + 1, b)'
  <1>1. /\ Send(SIGUSR2) /\ driver = "reset" /\ driver' = "report" /\ log' = log /\ UNCHANGED left
    BY DEF Reset, log
  <1>2. SIGUSR2 \in Signals /\ SIGUSR2 # SIGINT /\ SIGUSR1 # SIGUSR2
    BY DEF Signals, SIGUSR1, SIGUSR2, SIGINT
  <1>3. /\ \A r : ~Underway(r) /\ Running(r)' = {}
        /\ pending' = {SIGUSR2} /\ UNCHANGED <<fate, thread_args, round>>
    BY <1>1, <1>2, QuietSend
  <1>4. a = b /\ b = REPETITIONS - left /\ left # 0 /\ left \in 0..REPETITIONS
    BY <1>1 DEF Counts, Asked, LeftInv, DriverTypes
  <1>5. RoundsAre(a + 1)'
    <2>1. \A w \in Workers : round'[w] = (a + 1) - 1
      BY <1>3 DEF Counts, RoundsAre
    <2> QED  BY <1>3, <2>1 DEF RoundsAre, Underway
  <1>6. PrintedIs(b)'
    <2>1. \A row : Printed(row)' <=> Printed(row)
      BY <1>1 DEF Printed
    <2> QED  BY <1>2, <1>3, <2>1 DEF Counts, PrintedIs, Underway
  <1>7. ~Underway(SIGUSR1)'
    BY <1>2, <1>3 DEF Underway
  <1>8. Asked(a + 1, b)'
    BY <1>1, <1>4, <1>7 DEF Asked
  <1> QED  BY <1>5, <1>6, <1>8 DEF Counts

\* The script asks for one more report.
LEMMA CountsReport ==
  ASSUME Patient, TypeOK, DriverTypes, LeftInv, NEW a \in Nat, NEW b \in Nat, Counts(a, b), Report
  PROVE  Counts(a, b + 1)'
  <1>1. /\ Send(SIGUSR1) /\ driver = "report" /\ log' = log /\ left' = left - 1
        /\ driver' = IF left = 1 THEN "quit" ELSE "reset"
    BY DEF Report, log
  <1>2. SIGUSR1 \in Signals /\ SIGUSR1 # SIGINT /\ SIGUSR1 # SIGUSR2
    BY DEF Signals, SIGUSR1, SIGUSR2, SIGINT
  <1>3. /\ \A r : ~Underway(r) /\ Running(r)' = {}
        /\ pending' = {SIGUSR1} /\ UNCHANGED <<fate, thread_args, round>>
    BY <1>1, <1>2, QuietSend
  <1>4. a = b + 1 /\ b = REPETITIONS - left /\ left # 0 /\ left \in 0..REPETITIONS
        /\ a <= REPETITIONS
    BY <1>1 DEF Counts, Asked, LeftInv, DriverTypes
  <1>5. ~Underway(SIGUSR2)'
    BY <1>2, <1>3 DEF Underway
  <1>6. RoundsAre(a)'
    BY <1>2, <1>3, <1>5 DEF Counts, RoundsAre
  <1>7. PrintedIs(b + 1)'
    <2>1. \A row : Printed(row)' <=> Printed(row)
      BY <1>1 DEF Printed
    <2>2. \A row \in SeriesRow : Printed(row)' <=> row.round <= b
      BY <1>3, <2>1 DEF Counts, PrintedIs
    <2>3. \A row \in SeriesRow : row.round <= b <=> row.round < b + 1
      BY DEF SeriesRow
    <2> QED  BY <1>3, <2>2, <2>3 DEF PrintedIs, Underway
  <1>8. Asked(a, b + 1)'
    <2>1. driver' \in {"quit", "reset"} /\ (driver' = "quit" => left' = 0)
      BY <1>1
    <2>2. b + 1 = REPETITIONS - left'
      BY <1>1, <1>4
    <2> QED  BY <1>4, <1>5, <2>1, <2>2 DEF Asked
  <1> QED  BY <1>6, <1>7, <1>8 DEF Counts

\* Every other step of the script, the reading thread and Ctrl-C.
Aside == \/ SetupEnds \/ Reader \/ Start \/ Bind \/ WaitReady \/ Quit \/ SignalRaises \/ Wait \/ Stop
         \/ InterruptFirst \/ Interrupt \/ InterruptAgain \/ Fail \/ FailUnbound
         \/ UNCHANGED session_vars

\* They let the process be, but for one more SIGINT or a setup that fails.
LEMMA AsideStays ==
  ASSUME DriverTypes, Aside
  PROVE  /\ UNCHANGED <<main, frames, pc, slots, cont, counters>> /\ log' = log
         /\ pending' \in {pending, pending \cup {SIGINT}}
         /\ fate' = fate \/ (setup = "busy" /\ fate' = "crashed")
         /\ UNCHANGED left
         /\ \/ driver' = driver
            \/ driver = "start" /\ driver' = "ready"
            \/ driver = "ready" /\ driver' = "reset"
            \/ driver = "quit" /\ driver' = "wait"
            \/ driver' \in {"stop", "waitstop", "done", "raised"}
         /\ driver' \in {"start", "ready", "reset", "report", "quit"} => UNCHANGED pending
  <1> USE DEF vars, process, signals, slots, counters, history
  <1>1. CASE SetupEnds
    BY <1>1 DEF SetupEnds, log
  <1>2. CASE ReadRow
    BY <1>2, ReadKeepsLog DEF ReadRow
  <1>3. CASE ReadAnnouncement \/ Start \/ Bind \/ WaitReady
    BY <1>3 DEF ReadAnnouncement, Start, Bind, WaitReady, log
  <1>4. CASE Quit
    BY <1>4 DEF Quit, Send, log
  <1>5. CASE SignalRaises \/ Wait \/ Fail \/ FailUnbound
    BY <1>5 DEF SignalRaises, Wait, Fail, FailUnbound, log
  <1>6. CASE Stop \/ Interrupt \/ InterruptAgain
    BY <1>6 DEF Stop, Interrupt, InterruptAgain, SendQuit, log
  <1>7. CASE InterruptFirst
    BY <1>7 DEF InterruptFirst, SendQuit, log
  <1>8. CASE UNCHANGED session_vars
    BY <1>8 DEF session_vars, driver_vars, log
  <1> QED  BY <1>1, <1>2, <1>3, <1>4, <1>5, <1>6, <1>7, <1>8 DEF Aside, Reader

\* They change none of the numbers.
LEMMA CountsAside ==
  ASSUME DriverTypes, LeftInv, NEW a \in Nat, NEW b \in Nat, Counts(a, b), Aside
  PROVE  Counts(a, b)'
  <1>1. /\ UNCHANGED <<frames, thread_args, round>> /\ log' = log
        /\ pending' \in {pending, pending \cup {SIGINT}}
        /\ UNCHANGED left
    BY AsideStays DEF slots, counters
  <1>2. /\ RoundsAre(a)' /\ PrintedIs(b)'
        /\ Underway(SIGUSR1)' <=> Underway(SIGUSR1)
        /\ Underway(SIGUSR2)' <=> Underway(SIGUSR2)
    BY <1>1, CountsStay DEF Measures
  <1>3. Asked(a, b)
    BY DEF Counts
  <1>4. \/ driver' = driver
        \/ driver = "start" /\ driver' = "ready"
        \/ driver = "ready" /\ driver' = "reset"
        \/ driver = "quit" /\ driver' = "wait"
        \/ driver' \in {"stop", "waitstop", "done", "raised"}
    BY AsideStays
  <1>5. Asked(a, b)'
    BY <1>1, <1>2, <1>3, <1>4 DEF Asked
  <1> QED  BY <1>2, <1>5 DEF Counts

-----------------------------------------------------------------------------
\* The kinds of steps a session has.
LEMMA SessionKinds ==
  ASSUME [SessionNext]_session_vars
  PROVE  \/ Aside \/ Reset \/ Report \/ SignalLost
         \/ ProcessStep \/ Kernel \/ \E t \in Threads : PipeRow(t)
  BY DEF SessionNext, Aside, DriverStep

\* main returns when all workers have, and not before it has been set up.
LEMMA NextExit ==
  ASSUME DriverTypes, ExitInv, [SessionNext]_session_vars
  PROVE  ExitInv'
  <1> USE DEF process, signals, slots, counters, history
  <1>1. CASE Aside
    <2>1. UNCHANGED <<main, pc>> /\ (fate' = fate \/ setup = "busy")
      BY <1>1, AsideStays
    <2>2. setup' # "ok" => setup # "ok"
      BY <1>1 DEF Aside, SetupEnds, Reader, ReadAnnouncement, ReadRow, Start, Bind, WaitReady, Quit,
                  SignalRaises, Wait, Stop, InterruptFirst, Interrupt, InterruptAgain, Fail,
                  FailUnbound, session_vars, driver_vars
    <2> QED  BY <2>1, <2>2 DEF ExitInv
  <1>2. CASE Reset \/ Report
    BY <1>2 DEF Reset, Report, Send, ExitInv
  <1>3. CASE SignalLost
    BY <1>3 DEF SignalLost, vars, ExitInv
  <1>4. CASE ProcessStep \/ (Kernel /\ KernelStep) \/ \E t \in Threads : PipeRow(t)
    <2>1. Next /\ UNCHANGED setup
      BY <1>4 DEF ProcessStep, Kernel, PipeRow, QuietHandlerStep, HandlerStep, Next, driver_vars
    <2>2. main # "exited" /\ fate = "running"
      BY <2>1, NothingMoves DEF Alive
    <2>3. main' # main => setup = "ok"
      BY <1>4 DEF ProcessStep, KernelStep, DefaultAction, Deliver, PipeRow, PrintRow
    <2>4. main' = "exited" => fate' = "running" /\ \A w \in Workers : pc'[w] = "done"
      <3>1. CASE MainStep
        BY <2>2, <3>1 DEF MainStep, Spawn, InstallNext, Announce, Goodbye
      <3>2. CASE ~MainStep
        <4>1. UNCHANGED main
          BY <2>1, <3>2 DEF Next, WorkerStep, Claim, Publish, Search, Check, Send, KernelStep,
                DefaultAction, Deliver, HandlerStep, NullDereference, ReadField, PrintRow,
                ReadRound, BumpRound, ReadCounter, MarkCounter, StopWorker
        <4> QED  BY <2>2, <4>1
      <3> QED  BY <3>1, <3>2
    <2> QED  BY <2>1, <2>3, <2>4 DEF ExitInv
  <1>5. CASE Kernel /\ Sigkill
    BY <1>5 DEF Kernel, Sigkill, Alive, driver_vars, ExitInv
  <1> QED  BY <1>1, <1>2, <1>3, <1>4, <1>5, SessionKinds DEF Kernel

\* A process that is to be signalled still runs, or has been killed.
LEMMA NotReturned ==
  ASSUME StopCause, ExitInv, Workers # {}, driver \in {"start", "ready", "reset", "report", "quit"}
  PROVE  main # "exited"
  BY DEF StopCause, ExitInv

\* Nobody is stopped before the script has sent its SIGINT.
LEMMA NextStopCause ==
  ASSUME ~Mismatches, TypeOK, OwnInv, RoundInv, DriverTypes, StopCause, [SessionNext]_session_vars
  PROVE  StopCause'
  <1> DEFINE Early == {"start", "ready", "reset", "report", "quit"}
             Going == \A w \in Workers : (Provisioned(w) => cont[w] = 1) /\ pc[w] # "done"
  <1> USE DEF process, signals, slots, counters, history
  <1> SUFFICES ASSUME driver' \in Early
               PROVE  SIGINT \notin pending' /\ Running(SIGINT)' = {} /\ Going'
    BY DEF StopCause
  <1>1. driver \in Early
    <2>1. CASE Aside
      BY <2>1, AsideStays
    <2>2. CASE Reset \/ Report \/ SignalLost
      BY <2>2 DEF Reset, Report, SignalLost
    <2>3. CASE ProcessStep \/ Kernel \/ \E t \in Threads : PipeRow(t)
      BY <2>3 DEF ProcessStep, Kernel, PipeRow, driver_vars
    <2> QED  BY <2>1, <2>2, <2>3, SessionKinds
  <1>2. SIGINT \notin pending /\ Running(SIGINT) = {} /\ Going
    BY <1>1 DEF StopCause
  <1>3. ASSUME UNCHANGED <<frames, pc, cont>>, SIGINT \in pending' => SIGINT \in pending
        PROVE  SIGINT \notin pending' /\ Running(SIGINT)' = {} /\ Going'
    BY <1>2, <1>3, RunningSame DEF Provisioned
  <1> HIDE DEF Early, Going
  <1>4. CASE Aside
    BY <1>3, <1>4, AsideStays DEF Early
  <1>5. CASE Reset \/ Report \/ SignalLost
    BY <1>3, <1>5 DEF Reset, Report, SignalLost, Send, vars, SIGINT, SIGUSR1, SIGUSR2
  <1>6. CASE ProcessStep
    <2>1. CASE MainStep
      BY <1>3, <2>1 DEF MainStep, Spawn, InstallNext, Announce, Goodbye
    <2>2. ASSUME NEW w \in Workers, WorkerStep(w)
          PROVE  SIGINT \notin pending' /\ Running(SIGINT)' = {} /\ Going'
      <3>1. UNCHANGED <<frames, pending>>
        BY <2>2 DEF WorkerStep, Claim, Publish, Search, Check
      <3>2. ASSUME Claim(w) PROVE Going'
        BY <1>2, <3>2 DEF Claim, Going, Provisioned, TypeOK, SlotTypes
      <3>3. ASSUME Publish(w) PROVE Going'
        BY <1>2, <3>3 DEF Publish, Going, Provisioned, TypeOK, SlotTypes, CounterTypes
      <3>4. ASSUME Search(w) PROVE Going'
        <4>1. pc' = [pc EXCEPT ![w] = "check"] /\ UNCHANGED cont /\ pc[w] = "search"
          BY <3>4 DEF Search, Wrong
        <4> QED  BY <1>2, <4>1 DEF Going, Provisioned, TypeOK, SlotTypes
      <3>5. ASSUME Check(w) PROVE Going'
        <4>1. cont[w] # 0
          BY <1>2, <3>5 DEF Check, Going, Provisioned
        <4>2. pc' = [pc EXCEPT ![w] = "search"] /\ UNCHANGED cont /\ pc[w] = "check"
          BY <3>5, <4>1 DEF Check
        <4> QED  BY <1>2, <4>2 DEF Going, Provisioned, TypeOK, SlotTypes
      <3>6. Going'
        BY <2>2, <3>2, <3>3, <3>4, <3>5 DEF WorkerStep
      <3> QED  BY <1>2, <3>1, <3>6, RunningSame
    <2>3. ASSUME NEW t \in Threads, QuietHandlerStep(t)
          PROVE  SIGINT \notin pending' /\ Running(SIGINT)' = {} /\ Going'
      <3>1. HandlerStep(t)
        BY <2>3 DEF QuietHandlerStep, HandlerStep
      <3>2. CASE NullDereference(t)
        BY <1>3, <3>2 DEF NullDereference
      <3>3. CASE ~NullDereference(t)
        <4>1. PICK phase \in HandlerPhases, held \in Held :
                /\ InHandler(t, phase) /\ Advance(t, held)
                /\ Phases(Top(t).sig)[Top(t).phase] = phase
                /\ phase = "stop" <=> StopWorker(t)
          BY <3>1, <3>3, HandlerMoves
        <4>2. UNCHANGED pending /\ Top(t) \in Frame /\ Top(t).sig # SIGINT
          <5>1. Top(t) \in Running(Top(t).sig)
            BY <4>1, TopRuns
          <5> QED  BY <1>2, <3>1, <3>3, <5>1, HandlerMoves
        <4>3. ~StopWorker(t)
          BY <4>1, <4>2, PhaseTable
        <4>4. UNCHANGED <<pc, cont>>
          BY <2>3, <4>3 DEF QuietHandlerStep, NullDereference, ReadField, ReadRound, BumpRound,
                            ReadCounter, MarkCounter
        <4>5. Running(SIGINT)' = Running(SIGINT)
          BY <4>1, <4>2, RunningStays
        <4> QED  BY <1>2, <4>2, <4>4, <4>5 DEF Going, Provisioned
      <3> QED  BY <3>2, <3>3
    <2> QED  BY <1>6, <2>1, <2>2, <2>3 DEF ProcessStep
  <1>7. CASE Kernel
    <2>1. ASSUME NEW s \in Signals, DefaultAction(s)
          PROVE  SIGINT \notin pending' /\ Running(SIGINT)' = {} /\ Going'
      BY <1>3, <2>1 DEF DefaultAction
    <2>2. ASSUME NEW s \in Signals, NEW t \in Threads, Deliver(s, t)
          PROVE  SIGINT \notin pending' /\ Running(SIGINT)' = {} /\ Going'
      <3>1. s # SIGINT /\ pending' \subseteq pending /\ UNCHANGED <<pc, cont>>
        BY <1>2, <2>2 DEF Deliver
      <3>2. Running(SIGINT)' = Running(SIGINT)
        BY <2>2, <3>1, RunningArrives DEF RoundInv
      <3> QED  BY <1>2, <3>1, <3>2 DEF Going, Provisioned
    <2>3. CASE Sigkill
      BY <1>3, <2>3 DEF Sigkill
    <2> QED  BY <1>7, <2>1, <2>2, <2>3 DEF Kernel, KernelStep
  <1>8. ASSUME NEW t \in Threads, PipeRow(t)
        PROVE  SIGINT \notin pending' /\ Running(SIGINT)' = {} /\ Going'
    <2>1. /\ InHandler(t, "print") /\ Advance(t, Nothing) /\ UNCHANGED <<pending, pc, cont>>
      BY <1>8 DEF PipeRow, PrintRow
    <2>2. Top(t).sig # SIGINT
      BY <2>1, TopOk, PhaseTable DEF SIGINT, SIGUSR1
    <2>3. Running(SIGINT)' = Running(SIGINT)
      BY <2>1, <2>2, NothingHeld, RunningStays
    <2> QED  BY <1>2, <2>1, <2>3 DEF Going, Provisioned
  <1> QED  BY <1>4, <1>5, <1>6, <1>7, <1>8, SessionKinds

-----------------------------------------------------------------------------
\* The script knows how many rounds it has asked for, and what is printed is
\* what it has asked for.
MeasureInv == /\ SessionInv /\ RoundInv /\ RowInv /\ StopCause /\ ExitInv
              /\ LogInv /\ SeriesInv

\* At the start nothing has been asked for.
LEMMA InitMeasure == SessionInit => MeasureInv
  <1> SUFFICES ASSUME SessionInit PROVE MeasureInv
    OBVIOUS
  <1>1. SessionInv /\ RoundInv /\ RowInv
    BY InitSession, InitRounds, InitRow DEF SessionInit
  <1>2. /\ driver = "start" /\ left = REPETITIONS /\ setup = "absent" /\ rows = <<>> /\ out = <<>>
        /\ main = "spawn" /\ pending = {} /\ Init
    BY DEF SessionInit, Init
  <1>3. \A s : Running(s) = {} /\ ~Underway(s)
    <2>1. \A t \in Threads : Len(frames[t]) = 0
      BY <1>2, EmptySeq DEF Init
    <2> QED  BY <1>2, <2>1 DEF Running, Underway
  <1>4. StopCause
    BY <1>2, <1>3 DEF StopCause, Init, Provisioned
  <1>5. ExitInv
    BY <1>2 DEF ExitInv
  <1>6. Len(log) = 0
    BY <1>2, ConcatEmptySeq, EmptySeq DEF log
  <1>7. LogInv
    BY <1>6 DEF LogInv
  <1>8. Counts(0, 0)
    <2>1. RoundsAre(0)
      BY <1>2, <1>3 DEF RoundsAre, Init
    <2>2. PrintedIs(0)
      <3>1. \A row \in SeriesRow : ~Printed(row) /\ ~(row.round <= 0)
        BY <1>6 DEF Printed, SeriesRow
      <3> QED  BY <1>2, <1>3, <3>1 DEF PrintedIs
    <2>3. Asked(0, 0)
      BY <1>2, <1>3 DEF Asked
    <2> QED  BY <2>1, <2>2, <2>3 DEF Counts
  <1>9. SeriesInv
    BY <1>8, 0 \in Nat DEF SeriesInv
  <1> QED  BY <1>1, <1>4, <1>5, <1>7, <1>9 DEF MeasureInv

\* A step from a state in which a reset and b reports have been asked for.
LEMMA NextCounts ==
  ASSUME Patient, ~Mismatches, Workers # {}, MeasureInv, [SessionNext]_session_vars,
         NEW a \in Nat, NEW b \in Nat, fate = "running" => Counts(a, b)
  PROVE  LogInv' /\ SeriesInv'
  <1> USE DEF process, signals, slots, counters, history
  <1>1. /\ TypeOK /\ DriverTypes /\ OwnInv /\ LeftInv /\ RoundInv /\ RowInv
        /\ StopCause /\ ExitInv /\ LogInv
    BY DEF MeasureInv, SessionInv, SessionTypeOK
  <1>2. ASSUME NEW c \in Nat, NEW d \in Nat, Counts(c, d)' PROVE SeriesInv'
    BY <1>2 DEF SeriesInv
  <1>3. ASSUME log' = log PROVE LogInv'
    BY <1>1, <1>3 DEF LogInv
  <1>4. CASE Aside
    <2>1. log' = log /\ (fate' = "running" => fate = "running")
      BY <1>1, <1>4, AsideStays
    <2>2. CASE fate' = "running"
      BY <1>1, <1>2, <1>3, <1>4, <2>1, <2>2, CountsAside
    <2>3. CASE fate' # "running"
      BY <1>3, <2>1, <2>3 DEF SeriesInv
    <2> QED  BY <2>2, <2>3
  <1>5. CASE Reset
    <2>1. log' = log /\ fate = "running"
      BY <1>5 DEF Reset, Send, Alive, log
    <2> QED  BY <1>1, <1>2, <1>3, <1>5, <2>1, CountsReset, a + 1 \in Nat
  <1>6. CASE Report
    <2>1. log' = log /\ fate = "running"
      BY <1>6 DEF Report, Send, Alive, log
    <2> QED  BY <1>1, <1>2, <1>3, <1>6, <2>1, CountsReport, b + 1 \in Nat
  <1>7. CASE SignalLost
    <2>1. log' = log /\ fate # "running" /\ UNCHANGED fate
      BY <1>1, <1>7, NotReturned DEF SignalLost, Dead, Alive, vars, log
    <2> QED  BY <1>3, <2>1 DEF SeriesInv
  <1>8. CASE ProcessStep \/ (Kernel /\ KernelStep) \/ \E t \in Threads : PipeRow(t)
    <2>1. Next
      BY <1>8 DEF ProcessStep, PipeRow, QuietHandlerStep, HandlerStep, Next
    <2>2. Counts(a, b)
      BY <2>1, NothingMoves DEF Alive
    <2>3. CASE ProcessStep /\ (MainStep \/ \E w \in Workers : WorkerStep(w))
      <3>1. log' = log /\ UNCHANGED driver_vars
        BY <2>3 DEF ProcessStep, driver_vars, log
      <3> QED  BY <1>1, <1>2, <1>3, <2>2, <2>3, <3>1, CountsWorker
    <2>4. CASE Kernel /\ KernelStep
      <3>1. log' = log /\ UNCHANGED driver_vars
        BY <2>4 DEF Kernel, driver_vars, log
      <3>2. ASSUME NEW s \in Signals, DefaultAction(s) PROVE SeriesInv'
        BY <3>2 DEF DefaultAction, SeriesInv
      <3>3. ASSUME NEW s \in Signals, NEW t \in Threads, Deliver(s, t) PROVE SeriesInv'
        BY <1>1, <1>2, <2>2, <3>1, <3>3, CountsDeliver
      <3> QED  BY <1>3, <2>4, <3>1, <3>2, <3>3 DEF KernelStep
    <2>5. ASSUME NEW t \in Threads, NullDereference(t), UNCHANGED driver_vars PROVE LogInv' /\ SeriesInv'
      <3>1. log' = log /\ fate' = "crashed"
        BY <2>5 DEF driver_vars, log, NullDereference
      <3> QED  BY <1>3, <3>1 DEF SeriesInv
    <2>6. ASSUME NEW t \in Threads, ~NullDereference(t),
                 PipeRow(t) \/ (QuietHandlerStep(t) /\ UNCHANGED driver_vars)
          PROVE  LogInv' /\ SeriesInv'
      BY <1>1, <1>2, <2>2, <2>6, CountsHandler
    <2>7. \A t \in Threads : PipeRow(t) => ~NullDereference(t)
      BY DEF PipeRow, PrintRow, InHandler, NullDereference
    <2> QED  BY <1>8, <2>3, <2>4, <2>5, <2>6, <2>7 DEF ProcessStep
  <1>9. CASE Kernel /\ Sigkill
    <2>1. log' = log /\ fate' = "killed"
      BY <1>9 DEF Kernel, Sigkill, driver_vars, log
    <2> QED  BY <1>3, <2>1 DEF SeriesInv
  <1> QED  BY <1>4, <1>5, <1>6, <1>7, <1>8, <1>9, SessionKinds DEF Kernel

\* So the numbers stay right.
LEMMA NextMeasure ==
  ASSUME Patient, ~Mismatches, Workers # {}, MeasureInv, [SessionNext]_session_vars
  PROVE  MeasureInv'
  <1>1. SessionInv'
    BY NextSession DEF MeasureInv
  <1>2. TypeOK /\ OwnInv /\ DriverTypes /\ RoundInv /\ RowInv /\ StopCause /\ ExitInv
    BY DEF MeasureInv, SessionInv, SessionTypeOK
  <1>3. RoundInv' /\ RowInv'
    <2>1. CASE [Next]_vars
      BY <1>2, <2>1, NextRounds, NextRow
    <2>2. CASE OutsideStep
      BY <1>2, <2>2, OutsideRounds
    <2> QED  BY <2>1, <2>2, SessionStep
  <1>4. StopCause' /\ ExitInv'
    BY <1>2, NextStopCause, NextExit
  <1>5. PICK a \in Nat, b \in Nat : fate = "running" => Counts(a, b)
    BY 0 \in Nat DEF MeasureInv, SeriesInv
  <1>6. LogInv' /\ SeriesInv'
    BY <1>5, NextCounts
  <1> QED  BY <1>1, <1>3, <1>4, <1>6 DEF MeasureInv

-----------------------------------------------------------------------------
\* The first row in the pipe is a row of the series, is new, and has all rows
\* of lower rounds in the record.
LEMMA NextLogRow ==
  ASSUME DriverTypes, LogInv, out # <<>>
  PROVE  /\ Head(out) \in SeriesRow
         /\ \A m \in 1..Len(rows) : rows[m] # Head(out)
         /\ \A row \in SeriesRow : row.round < Head(out).round => \E m \in 1..Len(rows) : rows[m] = row
  <1> DEFINE S == [round : Nat, thread : Workers]
             n == Len(rows) + 1
  <1>1. rows \in Seq(S) /\ out \in Seq(S)
    BY DEF DriverTypes
  <1>2. Len(rows) \in Nat /\ Len(out) \in Nat \ {0} /\ Head(out) = out[1]
    BY <1>1, EmptySeq, LenProperties, HeadTailProperties
  <1>3. /\ Len(log) = Len(rows) + Len(out)
        /\ \A m \in 1..Len(rows) + Len(out) :
             log[m] = IF m <= Len(rows) THEN rows[m] ELSE out[m - Len(rows)]
    BY <1>1, ConcatProperties DEF log
  <1>4. n \in 1..Len(log) /\ log[n] = Head(out)
    <2>1. n \in 1..Len(rows) + Len(out) /\ ~(n <= Len(rows)) /\ n - Len(rows) = 1
      BY <1>2
    <2> HIDE DEF n
    <2> QED  BY <1>2, <1>3, <2>1
  <1>5. \A m \in 1..Len(rows) : m \in 1..Len(log) /\ log[m] = rows[m] /\ m # n
    BY <1>2, <1>3
  <1>6. n - 1 = Len(rows)
    BY <1>2
  <1> HIDE DEF n
  <1>7. \A row \in SeriesRow : row.round < Head(out).round => \E m \in 1..(n - 1) : log[m] = row
    BY <1>4 DEF LogInv
  <1> QED  BY <1>4, <1>5, <1>6, <1>7 DEF LogInv

\* A series that ends well has all rows of the rounds before the last.
LEMMA EndsComplete ==
  ASSUME MeasureInv, driver = "wait", main = "exited", out = <<>>, NEW row \in SeriesRow,
         row.round < REPETITIONS
  PROVE  \E m \in 1..Len(rows) : rows[m] = row
  <1>1. fate = "running" /\ left \in 0..REPETITIONS /\ rows \in Seq([round : Nat, thread : Workers])
    BY DEF MeasureInv, ExitInv, SessionInv, SessionTypeOK, DriverTypes
  <1>2. PICK a \in Nat, b \in Nat : Counts(a, b)
    BY <1>1 DEF MeasureInv, SeriesInv
  <1>3. b = REPETITIONS
    BY <1>2 DEF Counts, Asked
  <1>4. Printed(row)
    <2>1. row.round < b /\ row.round <= b
      BY <1>3 DEF SeriesRow
    <2>2. SIGUSR1 \in pending \/ Running(SIGUSR1) # {} \/ ~Underway(SIGUSR1)
      BY DEF Underway
    <2> QED  BY <1>2, <2>1, <2>2 DEF Counts, PrintedIs
  <1>5. log = rows
    BY <1>1, ConcatEmptySeq DEF log
  <1> QED  BY <1>4, <1>5 DEF Printed

-----------------------------------------------------------------------------
\* What a measurement sees of a session.
Status == CASE driver = "done" -> "complete"
            [] driver = "raised" -> "abandoned"
            [] OTHER -> "open"

\* What the record contains.
LEMMA Recorded ==
  ASSUME DriverTypes
  PROVE  Measurement!ToSet(rows) = {rows[m] : m \in 1..Len(rows)}
  BY DEF DriverTypes, Measurement!ToSet

\* Every step of a session is one of a measurement, or none.
LEMMA StepIsMeasured ==
  ASSUME Patient, ~Mismatches, Workers # {}, MeasureInv, [SessionNext]_session_vars
  PROVE  [Measurement!Next]_(Measurement!vars)
  <1>1. DriverTypes /\ LogInv
    BY DEF MeasureInv, SessionInv, SessionTypeOK
  <1>2. ASSUME UNCHANGED <<rows, Status>> PROVE UNCHANGED Measurement!vars
    BY <1>2 DEF Measurement!vars, Status
  <1>3. ASSUME ReadRow PROVE Measurement!Record(Head(out))
    <2>1. /\ driver \notin {"done", "raised"} /\ out # <<>>
          /\ rows' = Append(rows, Head(out)) /\ UNCHANGED driver
      BY <1>3 DEF ReadRow, Closed
    <2>2. /\ Head(out) \in SeriesRow
          /\ \A m \in 1..Len(rows) : rows[m] # Head(out)
          /\ \A row \in SeriesRow : row.round < Head(out).round => \E m \in 1..Len(rows) : rows[m] = row
      BY <1>1, <2>1, NextLogRow
    <2>3. Head(out) \notin Measurement!ToSet(rows)
      BY <1>1, <2>2, Recorded
    <2>4. Measurement!CompleteBefore(Head(out).round)
      <3>1. ASSUME NEW q \in 1..(Head(out).round - 1), NEW row \in SeriesRow, row.round = q
            PROVE  row \in Measurement!ToSet(rows)
        <4>1. row.round < Head(out).round
          BY <2>2, <3>1 DEF SeriesRow
        <4> QED  BY <1>1, <2>2, <4>1, Recorded
      <3> QED  BY <3>1 DEF Measurement!CompleteBefore, Measurement!RowsOf, Measurement!Row,
                           Measurement!Rounds, SeriesRow
    <2>5. Status = "open" /\ UNCHANGED Status
      BY <2>1 DEF Status
    <2> QED  BY <2>1, <2>3, <2>4, <2>5 DEF Measurement!Record, Status
  <1>4. ASSUME Wait, driver' = "done" PROVE Measurement!Complete
    <2>1. /\ driver = "wait" /\ main = "exited" /\ out = <<>> /\ UNCHANGED rows
      BY <1>4 DEF Wait
    <2>2. Measurement!CompleteBefore(REPETITIONS)
      <3>1. ASSUME NEW q \in 1..(REPETITIONS - 1), NEW row \in SeriesRow, row.round = q
            PROVE  row \in Measurement!ToSet(rows)
        <4>1. row.round < REPETITIONS
          BY <3>1
        <4> QED  BY <1>1, <2>1, <4>1, EndsComplete, Recorded
      <3> QED  BY <3>1 DEF Measurement!CompleteBefore, Measurement!RowsOf, Measurement!Row,
                           Measurement!Rounds, SeriesRow
    <2>3. Status = "open" /\ Status' = "complete"
      BY <1>4, <2>1 DEF Status
    <2> QED  BY <2>1, <2>2, <2>3 DEF Measurement!Complete, Status
  <1>5. ASSUME driver \notin {"done", "raised"}, driver' = "raised", UNCHANGED rows
        PROVE  Measurement!Abandon
    <2>1. Status = "open" /\ Status' = "abandoned"
      BY <1>5 DEF Status
    <2> QED  BY <1>5, <2>1 DEF Measurement!Abandon, Status
  <1>6. ASSUME UNCHANGED <<driver, rows>> PROVE UNCHANGED Measurement!vars
    BY <1>2, <1>6 DEF Status
  <1>7. ASSUME driver \notin {"done", "raised"}, driver' \notin {"done", "raised"}, UNCHANGED rows
        PROVE  UNCHANGED Measurement!vars
    BY <1>2, <1>7 DEF Status
  <1>8. CASE SetupEnds \/ ReadAnnouncement \/ UNCHANGED session_vars
    BY <1>6, <1>8 DEF SetupEnds, ReadAnnouncement, session_vars, driver_vars
  <1>9. CASE ProcessStep \/ Kernel \/ \E t \in Threads : PipeRow(t)
    BY <1>6, <1>9 DEF ProcessStep, Kernel, PipeRow, driver_vars
  <1>10. CASE ReadRow
    <2>1. Head(out) \in Measurement!Row
      BY <1>1, <1>10, NextLogRow DEF ReadRow, SeriesRow, Measurement!Row, Measurement!Rounds
    <2> QED  BY <1>3, <1>10, <2>1 DEF Measurement!Next
  <1>11. CASE Start \/ Bind \/ WaitReady \/ Reset \/ Report \/ Quit \/ SignalLost \/ Stop \/ Interrupt
    BY <1>7, <1>11 DEF Start, Bind, WaitReady, Reset, Report, Quit, SignalLost, Stop, Interrupt
  <1>12. CASE Wait
    <2>1. UNCHANGED rows /\ driver \in {"wait", "waitstop"} /\ driver' \in {"done", "raised"}
      BY <1>12 DEF Wait
    <2> QED  BY <1>4, <1>5, <1>12, <2>1 DEF Measurement!Next
  <1>13. CASE SignalRaises \/ InterruptFirst \/ InterruptAgain \/ Fail \/ FailUnbound
    <2>1. UNCHANGED rows /\ driver \notin {"done", "raised"} /\ driver' = "raised"
      BY <1>13 DEF SignalRaises, InterruptFirst, InterruptAgain, Fail, FailUnbound
    <2> QED  BY <1>5, <2>1 DEF Measurement!Next
  <1> QED  BY <1>8, <1>9, <1>10, <1>11, <1>12, <1>13 DEF SessionNext, DriverStep, Reader

\* What bench_fs.py records (bench_fs.py:139 to 178) is a measurement, also if
\* Ctrl-C, a crash or a failed setup ends it: no row comes twice, rounds come
\* one after the other, and a series that ends well lacks rows of its last
\* round at most.
THEOREM SessionImplementsSeries ==
  ASSUME Patient, ~Mismatches, Workers # {}
  PROVE  SessionSpec => IsMeasurement
  <1>1. SessionInit => Measurement!Init
    BY DEF SessionInit, Measurement!Init
  <1>2. SessionSpec => []MeasureInv
    BY InitMeasure, NextMeasure, PTL DEF SessionSpec
  <1>3. MeasureInv /\ [SessionNext]_session_vars => [Measurement!Next]_(Measurement!vars)
    BY StepIsMeasured
  <1> QED  BY <1>1, <1>2, <1>3, PTL DEF SessionSpec, IsMeasurement, Measurement!Spec
=============================================================================
