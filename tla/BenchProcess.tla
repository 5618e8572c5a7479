---------------------------- MODULE BenchProcess ----------------------------
(***************************************************************************)
(* The benchmark process after its data is set up (src/simple/main.cpp     *)
(* from line 102, src/simple/threads.cpp): main starts one worker per CPU, *)
(* installs three signal handlers, announces "finished setup." and waits;  *)
(* the workers provision themselves, search and count; the handlers print, *)
(* reset and stop them through the table thread_args.                      *)
(*                                                                         *)
(* Nothing here is locked.  A handler runs on whatever thread the kernel   *)
(* picks, on top of what that thread is doing, and walks the table slot by *)
(* slot while every other thread goes on.  On one thread a handler is not  *)
(* entered again while it runs, but another handler may interrupt it, and  *)
(* another thread may run the same one.                                    *)
(*                                                                         *)
(* The search itself is one step: what an index answers is the business of *)
(* the index modules, here only that it may answer wrongly and that a      *)
(* worker under --verify then returns.                                     *)
(***************************************************************************)
EXTENDS Integers, Sequences, FiniteSets

CONSTANTS
  Workers,         \* the threads forEachThread runs its function on
  MainThread,      \* the thread of main()
  NoArgs,          \* NULL in a slot of thread_args
  nprocs,          \* get_nprocs(), the length of thread_args
  CHECK_INTERVAL,  \* searches between two looks at cont
  Mismatches,      \* TRUE: searches may answer wrongly and --verify is given
  Patient,         \* TRUE: signals are sent the way bench_fs.py sends them
  LoadOrder,       \* the order the compiler gives the loads of a printed row
  MaxSends,        \* bound: signals sent to the process
  MaxCtr           \* bound: searches of a worker that nobody has stopped

ASSUME WorkersAssumption ==
  /\ IsFiniteSet(Workers)
  /\ Cardinality(Workers) <= nprocs
  /\ MainThread \notin Workers
  /\ NoArgs \notin Workers
ASSUME NumbersAssumption ==
  /\ nprocs \in Nat \ {0}
  /\ CHECK_INTERVAL \in Nat \ {0}
  /\ MaxSends \in Nat
  /\ MaxCtr \in Nat
ASSUME ModesAssumption == Mismatches \in BOOLEAN /\ Patient \in BOOLEAN

\* The fields of a worker's arguments that a row prints and others write.  The
\* source, before C++17, leaves open in which order the operands of << and of -
\* are loaded.
Fields == {"round", "ctr", "prev_ctr"}
ASSUME OrderAssumption ==
  /\ LoadOrder \in [1..3 -> Fields]
  /\ \A x \in Fields : \E k \in 1..3 : LoadOrder[k] = x

VARIABLES
  main,         \* what main() does next
  fate,         \* "running", or how a signal ended the process
  installed,    \* the signals that have their handler
  pending,      \* the signals sent and not yet delivered: a set, they coalesce
  sends,        \* how many signals have been sent
  frames,       \* the handlers a thread is in, the running one last
  pc,           \* what a worker does next
  id,           \* thread_id of a worker, -1 before fetch_add
  threadCount,  \* the atomic that hands out thread ids
  thread_args,  \* the worker whose arguments a slot points to, or NoArgs
  cont, round, ctr, prev_ctr,  \* the fields of a worker's thread_args_t
  stop_ctr,     \* history: ctr when the worker was first told to stop, or -1
  stopped       \* history: a SIGINT handler has run to its end

process == <<main, fate, installed>>
signals == <<pending, sends>>
slots == <<id, threadCount, thread_args>>
counters == <<round, ctr, prev_ctr>>
history == <<stop_ctr, stopped>>
vars == <<process, signals, frames, pc, slots, cont, counters, history>>

SIGUSR1 == "SIGUSR1"
SIGUSR2 == "SIGUSR2"
SIGINT == "SIGINT"
Signals == {SIGUSR1, SIGUSR2, SIGINT}
Threads == Workers \cup {MainThread}
Slots == 0..(nprocs - 1)

\* A handler takes each slot through its phases in this order: one for every
\* load and store of a field that another thread may write meanwhile.
Phases(s) ==
  CASE s = SIGUSR1 -> <<"row", "row", "print">>
    [] s = SIGUSR2 -> <<"round", "bump", "count", "mark">>
    [] s = SIGINT -> <<"stop">>

\* What a handler holds of the slot it is at: the values it has loaded so far.
Held == [Fields -> Nat]
Nothing == [x \in Fields |-> 0]

Frame == {f \in [sig : Signals, slot : Slots, phase : 1..4, held : Held] :
            f.phase <= Len(Phases(f.sig))}

\* handle_sigusr1, handle_sigusr2 and handle_sigint at their first slot.
handle(s) == [sig |-> s, slot |-> 0, phase |-> 1, held |-> Nothing]

Top(t) == frames[t][Len(frames[t])]
At(t, phase) == /\ fate = "running"
                /\ frames[t] # <<>>
                /\ Phases(Top(t).sig)[Top(t).phase] = phase
Target(t) == thread_args[Top(t).slot]

Alive == fate = "running" /\ main # "exited"
Free(t) == Alive /\ frames[t] = <<>>
HandlerRuns(s) == \E t \in Threads : \E i \in DOMAIN frames[t] : frames[t][i].sig = s

-----------------------------------------------------------------------------
Init ==
  /\ main = "spawn"
  /\ fate = "running"
  /\ installed = {}
  /\ pending = {}
  /\ sends = 0
  /\ frames = [t \in Threads |-> <<>>]
  /\ pc = [w \in Workers |-> "claim"]
  /\ id = [w \in Workers |-> -1]
  /\ threadCount = 0
  /\ thread_args = [i \in Slots |-> NoArgs]
  /\ cont = [w \in Workers |-> 0]
  /\ round = [w \in Workers |-> 0]
  /\ ctr = [w \in Workers |-> 0]
  /\ prev_ctr = [w \in Workers |-> 0]
  /\ stop_ctr = [w \in Workers |-> -1]
  /\ stopped = FALSE

-----------------------------------------------------------------------------
\* main().  forEachThread returns once the tasks are queued.
Spawn ==
  /\ Free(MainThread) /\ main = "spawn"
  /\ main' = "signal"
  /\ UNCHANGED <<fate, installed, signals, frames, pc, slots, cont, counters, history>>

InstallNext(s) ==
  /\ Free(MainThread) /\ main = "signal"
  /\ installed = CASE s = SIGUSR1 -> {}
                   [] s = SIGUSR2 -> {SIGUSR1}
                   [] s = SIGINT -> {SIGUSR1, SIGUSR2}
  /\ installed' = installed \cup {s}
  /\ main' = IF s = SIGINT THEN "announce" ELSE "signal"
  /\ UNCHANGED <<fate, signals, frames, pc, slots, cont, counters, history>>

\* "finished setup." and the usage notice.
Announce ==
  /\ Free(MainThread) /\ main = "announce"
  /\ main' = "wait"
  /\ UNCHANGED <<fate, installed, signals, frames, pc, slots, cont, counters, history>>

Announced == main \in {"wait", "exited"}

\* numa::wait returns when every worker function has, and main returns.
Goodbye ==
  /\ Free(MainThread) /\ main = "wait"
  /\ \A w \in Workers : pc[w] = "done"
  /\ main' = "exited"
  /\ UNCHANGED <<fate, installed, signals, frames, pc, slots, cont, counters, history>>

-----------------------------------------------------------------------------
\* The worker function: fetch_add, then fill the arguments and publish them.
\* Wrong on purpose: Claim_load reads the counter and does not raise it,
\* Claim_publishing fills the slot before the arguments are provisioned.
Claim_load(w) ==
  /\ Free(w) /\ main # "spawn" /\ pc[w] = "claim"
  /\ id' = [id EXCEPT ![w] = threadCount]
  /\ pc' = [pc EXCEPT ![w] = "publish"]
  /\ UNCHANGED <<process, signals, frames, threadCount, thread_args, cont, counters, history>>
Claim_publishing(w) ==
  /\ Free(w) /\ main # "spawn" /\ pc[w] = "claim"
  /\ id' = [id EXCEPT ![w] = threadCount]
  /\ threadCount' = threadCount + 1
  /\ thread_args' = [thread_args EXCEPT ![threadCount] = w]
  /\ pc' = [pc EXCEPT ![w] = "publish"]
  /\ UNCHANGED <<process, signals, frames, cont, counters, history>>

Claim(w) ==
  /\ Free(w) /\ main # "spawn" /\ pc[w] = "claim"
  /\ id' = [id EXCEPT ![w] = threadCount]
  /\ threadCount' = threadCount + 1
  /\ pc' = [pc EXCEPT ![w] = "publish"]
  /\ UNCHANGED <<process, signals, frames, thread_args, cont, counters, history>>

Publish(w) ==
  /\ Free(w) /\ pc[w] = "publish"
  /\ round' = [round EXCEPT ![w] = 0]
  /\ prev_ctr' = [prev_ctr EXCEPT ![w] = 0]
  /\ ctr' = [ctr EXCEPT ![w] = 0]
  /\ cont' = [cont EXCEPT ![w] = 1]
  /\ thread_args' = [thread_args EXCEPT ![id[w]] = w]
  /\ pc' = [pc EXCEPT ![w] = "search"]
  /\ UNCHANGED <<process, signals, frames, id, threadCount, history>>

\* One turn of thread_func_linear_search or thread_func_index_search up to
\* (*ctr)++; under --verify a wrong answer returns from the function instead.
Wrong == IF Mismatches THEN BOOLEAN ELSE {FALSE}
Search(w) ==
  /\ Free(w) /\ pc[w] = "search"
  /\ ctr[w] < MaxCtr \/ cont[w] = 0
  /\ \E wrong \in Wrong :
       /\ ctr' = [ctr EXCEPT ![w] = IF wrong THEN @ ELSE @ + 1]
       /\ pc' = [pc EXCEPT ![w] = IF wrong THEN "done" ELSE "check"]
  /\ UNCHANGED <<process, signals, frames, slots, cont, round, prev_ctr, history>>

\* Wrong on purpose: cont is looked at once.
Check_once(w) ==
  /\ Free(w) /\ pc[w] = "check"
  /\ pc' = [pc EXCEPT ![w] =
       IF ctr[w] = CHECK_INTERVAL /\ cont[w] = 0 THEN "done" ELSE "search"]
  /\ UNCHANGED <<process, signals, frames, slots, cont, counters, history>>

Check(w) ==
  /\ Free(w) /\ pc[w] = "check"
  /\ pc' = [pc EXCEPT ![w] =
       IF ctr[w] % CHECK_INTERVAL = 0 /\ cont[w] = 0 THEN "done" ELSE "search"]
  /\ UNCHANGED <<process, signals, frames, slots, cont, counters, history>>

-----------------------------------------------------------------------------
\* The sender.  bench_fs.py waits for the announcement and sleeps before each
\* SIGUSR1 and SIGUSR2, long enough for the handlers to be through; its SIGINT
\* follows the last SIGUSR1 at once.
Quiet == pending = {} /\ \A s \in Signals : ~HandlerRuns(s)

\* Wrong on purpose: a sender that does not sleep.
Send_at_once(s) ==
  /\ Alive /\ sends < MaxSends
  /\ Patient => Announced
  /\ pending' = pending \cup {s}
  /\ sends' = sends + 1
  /\ UNCHANGED <<process, frames, pc, slots, cont, counters, history>>

Send(s) ==
  /\ Alive /\ sends < MaxSends
  /\ Patient => Announced /\ (s = SIGINT \/ Quiet)
  /\ pending' = pending \cup {s}
  /\ sends' = sends + 1
  /\ UNCHANGED <<process, frames, pc, slots, cont, counters, history>>

\* Without a handler the signal ends the process.
DefaultAction(s) ==
  /\ Alive /\ s \in pending \ installed
  /\ fate' = "killed"
  /\ UNCHANGED <<main, installed, signals, frames, pc, slots, cont, counters, history>>

Deliver(s, t) ==
  /\ Alive /\ s \in pending \cap installed
  /\ \A i \in DOMAIN frames[t] : frames[t][i].sig # s
  /\ pending' = pending \ {s}
  /\ frames' = [frames EXCEPT ![t] = Append(@, handle(s))]
  /\ UNCHANGED <<process, sends, pc, slots, cont, counters, history>>

-----------------------------------------------------------------------------
\* What the running handler of t does next, once the phase it is in is over:
\* the next phase, the next slot, or back to what it interrupted.
LastPhase(f) == f.phase = Len(Phases(f.sig))
\* Wrong on purpose: one slot too many, and one too few.
Returns_late(t) == LastPhase(Top(t)) /\ Top(t).slot = nprocs
Returns_early(t) == LastPhase(Top(t)) /\ Top(t).slot + 2 >= nprocs
Returns(t) == LastPhase(Top(t)) /\ Top(t).slot + 1 = nprocs
Onward(f) == IF LastPhase(f) THEN [f EXCEPT !.phase = 1, !.slot = @ + 1]
                             ELSE [f EXCEPT !.phase = @ + 1]
Advance(t, held) ==
  frames' = [frames EXCEPT ![t] =
    IF Returns(t) THEN SubSeq(@, 1, Len(@) - 1)
    ELSE [@ EXCEPT ![Len(@)] = Onward([Top(t) EXCEPT !.held = held])]]

\* Every phase goes through thread_args[i].
NullDereference(t) ==
  /\ Alive /\ frames[t] # <<>>
  /\ Target(t) = NoArgs
  /\ fate' = "crashed"
  /\ UNCHANGED <<main, installed, signals, frames, pc, slots, cont, counters, history>>

InHandler(t, phase) == Alive /\ At(t, phase) /\ Target(t) # NoArgs

Field(w) == [x \in Fields |-> CASE x = "round" -> round[w]
                                [] x = "ctr" -> ctr[w]
                                [] OTHER -> prev_ctr[w]]
Load(t, x) == [Top(t).held EXCEPT ![x] = Field(Target(t))[x]]

\* The three loads of a row; the row goes out with the last one.
ReadField(t) ==
  /\ InHandler(t, "row")
  /\ Advance(t, Load(t, LoadOrder[Top(t).phase]))
  /\ UNCHANGED <<process, signals, pc, slots, cont, counters, history>>

Row(t) == Load(t, LoadOrder[3])
PrintRow(t) ==
  /\ InHandler(t, "print")
  /\ Advance(t, Nothing)
  /\ UNCHANGED <<process, signals, pc, slots, cont, counters, history>>

\* round++ and prev_ctr = *ctr: a load and a store each.
ReadRound(t) ==
  /\ InHandler(t, "round")
  /\ Advance(t, Load(t, "round"))
  /\ UNCHANGED <<process, signals, pc, slots, cont, counters, history>>

BumpRound(t) ==
  /\ InHandler(t, "bump")
  /\ round' = [round EXCEPT ![Target(t)] = Top(t).held["round"] + 1]
  /\ Advance(t, Nothing)
  /\ UNCHANGED <<process, signals, pc, slots, cont, ctr, prev_ctr, history>>

ReadCounter(t) ==
  /\ InHandler(t, "count")
  /\ Advance(t, Load(t, "ctr"))
  /\ UNCHANGED <<process, signals, pc, slots, cont, counters, history>>

MarkCounter(t) ==
  /\ InHandler(t, "mark")
  /\ prev_ctr' = [prev_ctr EXCEPT ![Target(t)] = Top(t).held["ctr"]]
  /\ Advance(t, Nothing)
  /\ UNCHANGED <<process, signals, pc, slots, cont, round, ctr, history>>

StopWorker(t) ==
  /\ InHandler(t, "stop")
  /\ cont' = [cont EXCEPT ![Target(t)] = 0]
  /\ stop_ctr' = [stop_ctr EXCEPT ![Target(t)] = IF @ = -1 THEN ctr[Target(t)] ELSE @]
  /\ stopped' = (stopped \/ Returns(t))
  /\ Advance(t, Nothing)
  /\ UNCHANGED <<process, signals, pc, slots, counters>>

-----------------------------------------------------------------------------
MainStep == Spawn \/ (\E s \in Signals : InstallNext(s)) \/ Announce \/ Goodbye
WorkerStep(w) == Claim(w) \/ Publish(w) \/ Search(w) \/ Check(w)
KernelStep == \E s \in Signals : DefaultAction(s) \/ \E t \in Threads : Deliver(s, t)
HandlerStep(t) == \/ NullDereference(t) \/ ReadField(t) \/ PrintRow(t)
                  \/ ReadRound(t) \/ BumpRound(t) \/ ReadCounter(t) \/ MarkCounter(t)
                  \/ StopWorker(t)

Next ==
  \/ MainStep
  \/ \E w \in Workers : WorkerStep(w)
  \/ \E s \in Signals : Send(s)
  \/ KernelStep
  \/ \E t \in Threads : HandlerStep(t)

Spec == Init /\ [][Next]_vars

\* The scheduler runs every thread that can run, in the handler it is in or in
\* its own code, and the kernel delivers what is pending; nobody has to send a
\* signal, and no answer has to be wrong.
ThreadStep(t) ==
  \/ HandlerStep(t)
  \/ t = MainThread /\ MainStep
  \/ t \in Workers /\ WorkerStep(t)
Fairness ==
  /\ WF_vars(KernelStep)
  /\ \A t \in Threads : WF_vars(ThreadStep(t))

FairSpec == Spec /\ Fairness

-----------------------------------------------------------------------------
\* Type invariant.
ControlTypes ==
  /\ main \in {"spawn", "signal", "announce", "wait", "exited"}
  /\ fate \in {"running", "killed", "crashed"}
  /\ installed \in SUBSET Signals
  /\ pending \in SUBSET Signals
  /\ sends \in Nat
  /\ frames \in [Threads -> Seq(Frame)]
SlotTypes ==
  /\ pc \in [Workers -> {"claim", "publish", "search", "check", "done"}]
  /\ id \in [Workers -> -1..(nprocs - 1)]
  /\ threadCount \in 0..nprocs
  /\ thread_args \in [Slots -> Workers \cup {NoArgs}]
CounterTypes ==
  /\ cont \in [Workers -> {0, 1}]
  /\ round \in [Workers -> Nat]
  /\ ctr \in [Workers -> Nat]
  /\ prev_ctr \in [Workers -> Nat]
  /\ stop_ctr \in [Workers -> Nat \cup {-1}]
  /\ stopped \in BOOLEAN
TypeOK == ControlTypes /\ SlotTypes /\ CounterTypes

\* Each worker ends up in a slot of its own, the one its row will be printed
\* from, however the workers interleave on the shared counter.
SlotOwnership ==
  /\ \A v, w \in Workers : id[v] = id[w] /\ id[v] # -1 => v = w
  /\ \A i \in Slots : thread_args[i] # NoArgs => id[thread_args[i]] = i
  /\ \A w \in Workers : pc[w] \in {"search", "check", "done"} => thread_args[id[w]] = w

\* A stop is never lost: once a SIGINT handler is through, every worker has
\* cont = 0 for good, although provisioning sets cont to 1 unsynchronised.
StopReachesEveryWorker == stopped => \A w \in Workers : cont[w] = 0

\* A worker told to stop does at most CHECK_INTERVAL further searches.
BoundedStop ==
  \A w \in Workers : stop_ctr[w] # -1 => ctr[w] <= stop_ctr[w] + CHECK_INTERVAL

\* Between two resets all workers are in the same round, so that the rows of
\* one report belong to one round.
RoundsAgree ==
  ~HandlerRuns(SIGUSR2) => \A v, w \in Workers : round[v] = round[w]

\* The three values of a row belong together, although they are loaded one by
\* one: no reset of that worker comes between them, so that the row is printed
\* for the round it names and its difference is not negative.
PrintsCurrentRound ==
  \A t \in Threads : At(t, "print") /\ Target(t) # NoArgs =>
    /\ Row(t)["round"] = round[Target(t)]
    /\ Row(t)["prev_ctr"] = prev_ctr[Target(t)]
    /\ Row(t)["prev_ctr"] <= Row(t)["ctr"]

\* SIGINT ends the process: the usage notice says it is there to quit.
QuitEnds == (SIGINT \in pending) ~> ~Alive

\* bench_fs.py:132 takes "finished setup." for the end of the init phase.
ReadyAfterInit == Announced => \A i \in Slots : thread_args[i] # NoArgs
=============================================================================
