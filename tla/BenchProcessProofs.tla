------------------------- MODULE BenchProcessProofs -------------------------
(***************************************************************************)
(* Theorems about BenchProcess, for any number of slots and of workers up  *)
(* to that, any CHECK_INTERVAL, any number of signals and any sender; the  *)
(* last part, about the rounds, is for a sender that waits like            *)
(* bench_fs.py.                                                            *)
(***************************************************************************)
EXTENDS BenchProcess, FiniteSetTheorems, SequenceTheorems, TLAPS

USE WorkersAssumption, NumbersAssumption

-----------------------------------------------------------------------------
\* Handlers and the stack of a thread.

\* A handler spends between one and four phases on a slot.
LEMMA PhasesLength ==
  ASSUME NEW s \in Signals
  PROVE  Len(Phases(s)) \in 1..4
  BY DEF Signals, Phases, SIGUSR1, SIGUSR2, SIGINT

\* A handler has nothing in hand when it comes to a slot.
LEMMA NothingHeld == Nothing \in Held
  BY DEF Nothing, Held

\* A handler starts in a frame of the declared kind.
LEMMA HandleType ==
  ASSUME NEW s \in Signals
  PROVE  handle(s) \in Frame
  <1>1. 0 \in Slots
    BY DEF Slots
  <1>2. handle(s) \in [sig : Signals, slot : Slots, phase : 1..4, held : Held]
    BY <1>1, NothingHeld DEF handle
  <1>3. handle(s).phase = 1 /\ handle(s).sig = s
    BY DEF handle
  <1>4. 1 <= Len(Phases(s))
    BY PhasesLength
  <1> QED  BY <1>2, <1>3, <1>4 DEF Frame

\* The frame of the running handler is well formed.
LEMMA TopType ==
  ASSUME frames \in [Threads -> Seq(Frame)], NEW t \in Threads, frames[t] # <<>>
  PROVE  /\ Len(frames[t]) \in Nat \ {0}
         /\ Top(t) \in Frame
         /\ Top(t).slot \in Slots /\ Top(t).sig \in Signals
  <1>1. frames[t] \in Seq(Frame)
    OBVIOUS
  <1>2. Len(frames[t]) \in Nat \ {0}
    BY <1>1, EmptySeq
  <1>3. Top(t) \in Frame
    BY <1>1, <1>2, ElementOfSeq DEF Top
  <1> QED  BY <1>2, <1>3 DEF Frame

\* The frame a handler goes on with.
LEMMA OnwardType ==
  ASSUME NEW f \in Frame, NEW held \in Held, ~(LastPhase(f) /\ f.slot + 1 = nprocs)
  PROVE  /\ Onward([f EXCEPT !.held = held]) \in Frame
         /\ Onward([f EXCEPT !.held = held]).sig = f.sig
         /\ Onward([f EXCEPT !.held = held]).slot = IF LastPhase(f) THEN f.slot + 1 ELSE f.slot
  <1> DEFINE g == [f EXCEPT !.held = held]
  <1>1. /\ f.sig \in Signals /\ f.slot \in Slots /\ f.phase \in 1..4
        /\ f.phase <= Len(Phases(f.sig)) /\ Len(Phases(f.sig)) \in 1..4
    BY PhasesLength DEF Frame
  <1>2. /\ g \in [sig : Signals, slot : Slots, phase : 1..4, held : Held]
        /\ g.sig = f.sig /\ g.slot = f.slot /\ g.phase = f.phase
    BY DEF Frame
  <1>3. LastPhase(g) <=> LastPhase(f)
    BY <1>2 DEF LastPhase
  <1> HIDE DEF g
  <1> SUFFICES /\ Onward(g) \in Frame
               /\ Onward(g).sig = f.sig
               /\ Onward(g).slot = IF LastPhase(f) THEN f.slot + 1 ELSE f.slot
    BY Zenon DEF g
  <1>4. CASE LastPhase(f)
    <2>1. f.slot + 1 \in Slots /\ 1 <= Len(Phases(f.sig))
      BY <1>1, <1>4 DEF Slots
    <2>2. Onward(g) = [g EXCEPT !.phase = 1, !.slot = f.slot + 1]
      BY <1>2, <1>3, <1>4 DEF Onward
    <2>3. /\ Onward(g) \in [sig : Signals, slot : Slots, phase : 1..4, held : Held]
          /\ Onward(g).sig = f.sig /\ Onward(g).slot = f.slot + 1 /\ Onward(g).phase = 1
      <3> DEFINE h == [g EXCEPT !.phase = 1]
      <3>1. /\ h \in [sig : Signals, slot : Slots, phase : 1..4, held : Held]
            /\ h.sig = f.sig /\ h.phase = 1
        BY <1>2
      <3>2. Onward(g) = [h EXCEPT !.slot = f.slot + 1]
        BY <2>2
      <3> HIDE DEF h
      <3> QED  BY <2>1, <3>1, <3>2
    <2>4. Onward(g) \in Frame
      BY <2>1, <2>3 DEF Frame
    <2> QED  BY <1>4, <2>3, <2>4
  <1>5. CASE ~LastPhase(f)
    <2>1. f.phase + 1 \in 1..4 /\ f.phase + 1 <= Len(Phases(f.sig))
      <3>1. f.phase # Len(Phases(f.sig))
        BY <1>5 DEF LastPhase
      <3> DEFINE len == Len(Phases(f.sig))
      <3>2. f.phase \in 1..4 /\ f.phase <= len /\ len \in 1..4 /\ f.phase # len
        BY <1>1, <3>1
      <3> HIDE DEF len
      <3>3. f.phase + 1 \in 1..4 /\ f.phase + 1 <= len
        BY <3>2
      <3> QED  BY <3>3 DEF len
    <2>2. Onward(g) = [g EXCEPT !.phase = f.phase + 1]
      BY <1>2, <1>3, <1>5 DEF Onward
    <2>3. /\ Onward(g) \in [sig : Signals, slot : Slots, phase : 1..4, held : Held]
          /\ Onward(g).sig = f.sig /\ Onward(g).slot = f.slot
          /\ Onward(g).phase = f.phase + 1
      BY <1>2, <2>1, <2>2
    <2>4. Onward(g) \in Frame
      BY <2>1, <2>3 DEF Frame
    <2> QED  BY <1>5, <2>3, <2>4
  <1> QED  BY <1>4, <1>5

\* A step of the running handler touches the top frame of its thread only.
LEMMA AdvanceFrames ==
  ASSUME frames \in [Threads -> Seq(Frame)], NEW t \in Threads, frames[t] # <<>>,
         NEW held \in Held, Advance(t, held)
  PROVE  /\ frames' \in [Threads -> Seq(Frame)]
         /\ \A u \in Threads : \A j \in 1..Len(frames'[u]) :
              \/ j \in 1..Len(frames[u]) /\ frames'[u][j] = frames[u][j]
              \/ /\ u = t /\ ~Returns(t)
                 /\ frames'[u][j] = Onward([Top(t) EXCEPT !.held = held])
  <1> DEFINE s == frames[t]
             n == Len(s)
             f == Onward([Top(t) EXCEPT !.held = held])
  <1>1. s \in Seq(Frame) /\ n \in Nat \ {0} /\ Top(t) \in Frame
    BY TopType
  <1>2. CASE Returns(t)
    <2>1. frames' = [frames EXCEPT ![t] = SubSeq(s, 1, n - 1)]
      BY <1>2 DEF Advance
    <2>2. \A i \in 1..(n - 1) : s[i] \in Frame
      BY <1>1, ElementOfSeq
    <2>3. /\ SubSeq(s, 1, n - 1) \in Seq(Frame)
          /\ Len(SubSeq(s, 1, n - 1)) = n - 1
          /\ \A i \in 1..(n - 1) : SubSeq(s, 1, n - 1)[i] = s[i]
      <3> DEFINE m == n - 1
      <3>1. m \in Int /\ 1 \in Int /\ m >= 0
        BY <1>1
      <3>2. \A i \in 1..m : s[i] \in Frame
        BY <2>2
      <3> HIDE DEF m, n, s
      <3>3. /\ SubSeq(s, 1, m) \in Seq(Frame)
            /\ Len(SubSeq(s, 1, m)) = IF 1 <= m THEN m - 1 + 1 ELSE 0
            /\ \A i \in 1..(m - 1 + 1) : SubSeq(s, 1, m)[i] = s[1 + i - 1]
        BY <3>1, <3>2, SubSeqProperties
      <3>4. /\ SubSeq(s, 1, m) \in Seq(Frame)
            /\ Len(SubSeq(s, 1, m)) = m
            /\ \A i \in 1..m : SubSeq(s, 1, m)[i] = s[i]
        BY <3>1, <3>3
      <3> QED  BY <3>4 DEF m
    <2> QED  BY <1>1, <2>1, <2>3
  <1>3. CASE ~Returns(t)
    <2>1. frames' = [frames EXCEPT ![t] = [s EXCEPT ![n] = f]]
      BY <1>3 DEF Advance
    <2>2. f \in Frame
      BY <1>1, <1>3, OnwardType DEF Returns
    <2>3. /\ [s EXCEPT ![n] = f] \in Seq(Frame)
          /\ Len([s EXCEPT ![n] = f]) = n
          /\ \A i \in 1..n : [s EXCEPT ![n] = f][i] = IF i = n THEN f ELSE s[i]
      BY <1>1, <2>2, ExceptSeq, n \in 1..n
    <2> QED  BY <1>1, <1>3, <2>1, <2>3
  <1> QED  BY <1>2, <1>3

\* A delivery puts a handler on top of one thread's stack.
LEMMA DeliverFrames ==
  ASSUME frames \in [Threads -> Seq(Frame)], NEW s \in Signals, NEW t \in Threads,
         Deliver(s, t)
  PROVE  /\ frames' \in [Threads -> Seq(Frame)]
         /\ \A u \in Threads : \A j \in 1..Len(frames'[u]) :
              \/ j \in 1..Len(frames[u]) /\ frames'[u][j] = frames[u][j]
              \/ frames'[u][j] = handle(s)
  <1>1. frames' = [frames EXCEPT ![t] = Append(frames[t], handle(s))]
    BY DEF Deliver
  <1>2. /\ Append(frames[t], handle(s)) \in Seq(Frame)
        /\ Len(Append(frames[t], handle(s))) = Len(frames[t]) + 1
        /\ \A i \in 1..Len(frames[t]) : Append(frames[t], handle(s))[i] = frames[t][i]
        /\ Append(frames[t], handle(s))[Len(frames[t]) + 1] = handle(s)
    BY HandleType, AppendProperties
  <1>3. Len(frames[t]) \in Nat
    OBVIOUS
  <1> QED  BY <1>1, <1>2, <1>3
-----------------------------------------------------------------------------
\* The workers that have taken a thread_id, and how ids, slots and the
\* progress of the workers hang together.
Claimed == {w \in Workers : id[w] # -1}
Provisioned(w) == pc[w] \in {"search", "check", "done"}

CountInv == threadCount = Cardinality(Claimed)
IdInv == \A w \in Workers : (pc[w] = "claim" <=> id[w] = -1) /\ id[w] < threadCount
DistinctInv == \A v, w \in Workers : id[v] = id[w] /\ id[v] # -1 => v = w
SlotInv == \A i \in Slots : thread_args[i] # NoArgs =>
             id[thread_args[i]] = i /\ Provisioned(thread_args[i])
PublishedInv == \A w \in Workers : Provisioned(w) => thread_args[id[w]] = w
OwnInv == CountInv /\ IdInv /\ DistinctInv /\ SlotInv /\ PublishedInv

\* Types and ownership hold before main starts the workers.
LEMMA InitTypeOwn == Init => TypeOK /\ OwnInv
  <1> SUFFICES ASSUME Init PROVE TypeOK /\ OwnInv
    OBVIOUS
  <1>1. ControlTypes
    BY DEF Init, ControlTypes
  <1>2. SlotTypes
    BY DEF Init, SlotTypes
  <1>3. CounterTypes
    BY DEF Init, CounterTypes
  <1>4. CountInv
    <2>1. Claimed = {}
      BY DEF Init, Claimed
    <2> QED  BY <2>1, FS_EmptySet DEF Init, CountInv
  <1>5. \A w \in Workers : pc[w] = "claim" /\ id[w] = -1
    BY DEF Init
  <1>6. threadCount = 0 /\ \A i \in Slots : thread_args[i] = NoArgs
    BY DEF Init
  <1>7. IdInv /\ DistinctInv /\ SlotInv /\ PublishedInv
    BY <1>5, <1>6 DEF IdInv, DistinctInv, SlotInv, PublishedInv, Provisioned
  <1> QED  BY <1>1, <1>2, <1>3, <1>4, <1>7 DEF TypeOK, OwnInv

\* fetch_add hands out fewer ids than there are slots.
LEMMA ClaimCounts ==
  ASSUME SlotTypes, CountInv, IdInv, NEW w \in Workers, Claim(w)
  PROVE  /\ threadCount < nprocs
         /\ threadCount' = Cardinality(Claimed')
  <1>1. /\ id \in [Workers -> -1..(nprocs - 1)]
        /\ threadCount \in Nat /\ threadCount = Cardinality(Claimed)
    BY DEF SlotTypes, CountInv
  <1>2. id' = [id EXCEPT ![w] = threadCount] /\ threadCount' = threadCount + 1
    BY DEF Claim
  <1>3. w \notin Claimed
    BY DEF Claim, IdInv, Claimed
  <1>4. Claimed' = Claimed \cup {w}
    <2>1. /\ id'[w] # -1
          /\ \A v \in Workers : v # w => id'[v] = id[v]
      BY <1>1, <1>2
    <2> QED  BY <2>1, Zenon DEF Claimed
  <1>5. IsFiniteSet(Claimed) /\ Claimed' \in SUBSET Workers
    BY FS_Subset DEF Claimed
  <1>6. Cardinality(Claimed') = Cardinality(Claimed) + 1
    BY <1>3, <1>4, <1>5, FS_AddElement
  <1>7. Cardinality(Claimed') <= nprocs
    <2>1. Cardinality(Claimed') <= Cardinality(Workers) /\ Cardinality(Claimed') \in Nat
      BY <1>5, FS_Subset, FS_CardinalityType
    <2>2. Cardinality(Workers) \in Nat
      BY FS_CardinalityType
    <2> QED  BY <2>1, <2>2
  <1> QED  BY <1>1, <1>2, <1>6, <1>7

\* A handler that does not crash works on the arguments of a worker.
LEMMA HandlerTarget ==
  ASSUME TypeOK, NEW t \in Threads, NEW phase, InHandler(t, phase)
  PROVE  /\ frames[t] # <<>> /\ Target(t) \in Workers
         /\ Top(t) \in Frame /\ Top(t).slot \in Slots
  <1>1. frames[t] # <<>> /\ Target(t) # NoArgs
    BY DEF InHandler, At
  <1>2. Top(t) \in Frame /\ Top(t).slot \in Slots
    BY <1>1, TopType DEF TypeOK, ControlTypes
  <1> QED  BY <1>1, <1>2 DEF TypeOK, SlotTypes, Target

\* The phase "stop" is the one phase of SIGINT and of no other signal; SIGUSR1
\* has the phases of a row.
LEMMA StopPhase ==
  ASSUME NEW f \in Frame, NEW phase, Phases(f.sig)[f.phase] = phase
  PROVE  /\ phase = "stop" <=> f.sig = SIGINT
         /\ phase \in {"row", "print"} <=> f.sig = SIGUSR1
         /\ f.sig = SIGINT => LastPhase(f)
  <1>1. f.sig \in Signals /\ f.phase \in 1..4 /\ f.phase <= Len(Phases(f.sig))
    BY DEF Frame
  <1>2. CASE f.sig = SIGUSR1
    <2>1. Phases(f.sig) = <<"row", "row", "print">>
      BY <1>2 DEF Phases, SIGUSR1, SIGUSR2, SIGINT
    <2>2. f.phase = 1 \/ f.phase = 2 \/ f.phase = 3
      BY <1>1, <2>1
    <2> QED  BY <1>2, <2>1, <2>2 DEF SIGUSR1, SIGUSR2, SIGINT
  <1>3. CASE f.sig = SIGUSR2
    <2>1. Phases(f.sig) = <<"round", "bump", "count", "mark">>
      BY <1>3 DEF Phases, SIGUSR1, SIGUSR2, SIGINT
    <2>2. f.phase = 1 \/ f.phase = 2 \/ f.phase = 3 \/ f.phase = 4
      BY <1>1, <2>1
    <2> QED  BY <1>3, <2>1, <2>2 DEF SIGUSR1, SIGUSR2, SIGINT
  <1>4. CASE f.sig = SIGINT
    <2>1. Phases(f.sig) = <<"stop">>
      BY <1>4 DEF Phases, SIGUSR1, SIGUSR2, SIGINT
    <2>2. f.phase = 1
      BY <1>1, <2>1
    <2> QED  BY <1>4, <2>1, <2>2 DEF LastPhase, SIGUSR1, SIGINT
  <1> QED  BY <1>1, <1>2, <1>3, <1>4 DEF Signals

\* What a handler has in hand after a load.
LEMMA LoadType ==
  ASSUME TypeOK, NEW t \in Threads, NEW phase, InHandler(t, phase), NEW x \in Fields
  PROVE  /\ Load(t, x) \in Held
         /\ Load(t, x)[x] = Field(Target(t))[x]
         /\ \A y \in Fields : y # x => Load(t, x)[y] = Top(t).held[y]
  <1>1. Top(t).held \in Held /\ Target(t) \in Workers
    BY HandlerTarget DEF Frame
  <1>2. Field(Target(t))[x] \in Nat
    BY <1>1 DEF Field, TypeOK, CounterTypes
  <1> QED  BY <1>1, <1>2 DEF Load, Held

\* The field that a row reads next.
LEMMA NextField ==
  ASSUME TypeOK, NEW t \in Threads, InHandler(t, "row")
  PROVE  LoadOrder[Top(t).phase] \in Fields
  <1>1. Top(t) \in Frame /\ Phases(Top(t).sig)[Top(t).phase] = "row"
    BY HandlerTarget DEF InHandler, At
  <1>2. Top(t).sig = SIGUSR1
    BY <1>1, StopPhase
  <1>3. Len(Phases(SIGUSR1)) = 3
    BY DEF Phases, SIGUSR1, SIGUSR2, SIGINT
  <1>4. Top(t).phase \in 1..4 /\ Top(t).phase <= Len(Phases(Top(t).sig))
    BY <1>1 DEF Frame
  <1>5. Top(t).phase \in 1..3
    BY <1>2, <1>3, <1>4
  <1> QED  BY <1>5, OrderAssumption

\* A handler leaves the slots alone; it changes round, prev_ctr and cont.
LEMMA HandlerStepTypes ==
  ASSUME TypeOK, NEW t \in Threads, HandlerStep(t)
  PROVE  ControlTypes' /\ CounterTypes' /\ UNCHANGED <<slots, pc>>
  <1> USE DEF process, signals, slots, counters, history
  <1>1. ASSUME NEW held \in Held, NEW phase, InHandler(t, phase), Advance(t, held),
               UNCHANGED <<process, signals>>
        PROVE  ControlTypes'
    <2>1. frames' \in [Threads -> Seq(Frame)]
      BY <1>1, HandlerTarget, AdvanceFrames DEF TypeOK, ControlTypes
    <2> QED  BY <1>1, <2>1 DEF TypeOK, ControlTypes
  <1>2. CASE NullDereference(t)
    BY <1>2 DEF NullDereference, TypeOK, ControlTypes, CounterTypes
  <1>3. CASE ReadField(t) \/ ReadRound(t) \/ ReadCounter(t)
    <2>1. PICK x \in Fields : \E phase : InHandler(t, phase) /\ Advance(t, Load(t, x))
      BY <1>3, NextField DEF ReadField, ReadRound, ReadCounter, Fields
    <2>2. UNCHANGED <<process, signals, pc, slots, cont, counters, history>>
      BY <1>3 DEF ReadField, ReadRound, ReadCounter
    <2>3. ControlTypes'
      BY <1>1, <2>1, <2>2, LoadType
    <2> QED  BY <2>2, <2>3 DEF TypeOK, CounterTypes
  <1>4. CASE BumpRound(t)
    <2>1. Top(t).held["round"] + 1 \in Nat
      BY <1>4, HandlerTarget DEF BumpRound, Frame, Held, Fields
    <2>2. ControlTypes'
      BY <1>1, <1>4, NothingHeld DEF BumpRound
    <2> QED  BY <1>4, <2>1, <2>2 DEF BumpRound, TypeOK, CounterTypes
  <1>5. CASE MarkCounter(t)
    <2>1. Top(t).held["ctr"] \in Nat
      BY <1>5, HandlerTarget DEF MarkCounter, Frame, Held, Fields
    <2>2. ControlTypes'
      BY <1>1, <1>5, NothingHeld DEF MarkCounter
    <2> QED  BY <1>5, <2>1, <2>2 DEF MarkCounter, TypeOK, CounterTypes
  <1>6. CASE PrintRow(t)
    <2>1. ControlTypes'
      BY <1>1, <1>6, NothingHeld DEF PrintRow
    <2> QED  BY <1>6, <2>1 DEF PrintRow, TypeOK, CounterTypes
  <1>7. CASE StopWorker(t)
    <2>1. ctr[Target(t)] \in Nat
      BY <1>7, HandlerTarget DEF StopWorker, TypeOK, CounterTypes
    <2>2. ControlTypes'
      BY <1>1, <1>7, NothingHeld DEF StopWorker
    <2>3. stop_ctr' \in [Workers -> Nat \cup {-1}]
      BY <1>7, <2>1 DEF StopWorker, TypeOK, CounterTypes
    <2>4. stopped' \in BOOLEAN
      BY <1>7, Zenon DEF StopWorker, TypeOK, CounterTypes
    <2> QED  BY <1>7, <2>2, <2>3, <2>4 DEF StopWorker, TypeOK, CounterTypes
  <1> QED  BY <1>2, <1>3, <1>4, <1>5, <1>6, <1>7 DEF HandlerStep

\* Every step of a worker, of main, of the kernel or of a handler keeps types
\* and ownership.
LEMMA NextTypeOwn ==
  ASSUME TypeOK, OwnInv, [Next]_vars
  PROVE  TypeOK' /\ OwnInv'
  <1> USE DEF process, signals, slots, counters, history
  <1>0. ASSUME ControlTypes', CounterTypes', UNCHANGED <<slots, pc>>
        PROVE  TypeOK' /\ OwnInv'
    <2>1. SlotTypes'
      BY <1>0 DEF TypeOK, SlotTypes
    <2>2. CountInv'
      BY <1>0 DEF OwnInv, CountInv, Claimed
    <2>3. IdInv' /\ DistinctInv' /\ SlotInv' /\ PublishedInv'
      BY <1>0 DEF OwnInv, IdInv, DistinctInv, SlotInv, PublishedInv, Provisioned
    <2> QED  BY <1>0, <2>1, <2>2, <2>3 DEF TypeOK, OwnInv
  <1>1. CASE MainStep
    <2>1. ControlTypes'
      BY <1>1 DEF MainStep, Spawn, InstallNext, Announce, Goodbye, TypeOK, ControlTypes
    <2>2. CounterTypes' /\ UNCHANGED <<slots, pc>>
      BY <1>1 DEF MainStep, Spawn, InstallNext, Announce, Goodbye, TypeOK, CounterTypes
    <2> QED  BY <1>0, <2>1, <2>2
  <1>2. ASSUME NEW w \in Workers, Claim(w) PROVE TypeOK' /\ OwnInv'
    <2>1. threadCount < nprocs /\ threadCount' = Cardinality(Claimed')
      BY <1>2, ClaimCounts DEF TypeOK, OwnInv
    <2>2. /\ id' = [id EXCEPT ![w] = threadCount]
          /\ pc' = [pc EXCEPT ![w] = "publish"]
          /\ threadCount' = threadCount + 1
          /\ pc[w] = "claim"
          /\ UNCHANGED <<process, signals, frames, thread_args, cont, counters, history>>
      BY <1>2 DEF Claim
    <2>3. threadCount \in Nat /\ threadCount \in -1..(nprocs - 1) /\ threadCount + 1 \in 0..nprocs
      BY <2>1 DEF TypeOK, SlotTypes
    <2>4. ControlTypes' /\ CounterTypes'
      BY <2>2 DEF TypeOK, ControlTypes, CounterTypes
    <2>5. SlotTypes'
      BY <2>2, <2>3 DEF TypeOK, SlotTypes
    <2>6. \A v \in Workers : id[v] \in Int /\ id[v] < threadCount
      BY DEF TypeOK, SlotTypes, OwnInv, IdInv
    <2>7. \A v \in Workers : /\ id'[v] = IF v = w THEN threadCount ELSE id[v]
                             /\ pc'[v] = IF v = w THEN "publish" ELSE pc[v]
      BY <2>2 DEF TypeOK, SlotTypes
    <2>8. IdInv'
      BY <2>2, <2>3, <2>6, <2>7 DEF OwnInv, IdInv
    <2>9. DistinctInv'
      BY <2>3, <2>6, <2>7 DEF OwnInv, DistinctInv
    <2>10. SlotInv'
      BY <2>2, <2>7 DEF TypeOK, SlotTypes, OwnInv, SlotInv, Provisioned
    <2>11. PublishedInv'
      BY <2>2, <2>7 DEF OwnInv, PublishedInv, Provisioned
    <2> QED  BY <2>1, <2>4, <2>5, <2>8, <2>9, <2>10, <2>11 DEF TypeOK, OwnInv, CountInv
  <1>3. ASSUME NEW w \in Workers, Publish(w) PROVE TypeOK' /\ OwnInv'
    <2>1. /\ pc[w] = "publish"
          /\ thread_args' = [thread_args EXCEPT ![id[w]] = w]
          /\ pc' = [pc EXCEPT ![w] = "search"]
          /\ UNCHANGED <<process, signals, frames, id, threadCount, history>>
      BY <1>3 DEF Publish
    <2>2. id[w] \in Slots
      BY <2>1 DEF TypeOK, SlotTypes, OwnInv, IdInv, Slots
    <2>3. ControlTypes' /\ SlotTypes'
      BY <2>1, <2>2 DEF TypeOK, ControlTypes, SlotTypes
    <2>4. CounterTypes'
      BY <1>3 DEF Publish, TypeOK, CounterTypes
    <2>5. /\ \A v \in Workers : pc'[v] = IF v = w THEN "search" ELSE pc[v]
          /\ \A i \in Slots : thread_args'[i] = IF i = id[w] THEN w ELSE thread_args[i]
      BY <2>1, <2>2 DEF TypeOK, SlotTypes
    <2>6. CountInv' /\ DistinctInv'
      BY <2>1 DEF OwnInv, CountInv, Claimed, DistinctInv
    <2>7. IdInv'
      BY <2>1, <2>5 DEF OwnInv, IdInv
    <2>8. SlotInv'
      BY <2>1, <2>5 DEF TypeOK, SlotTypes, OwnInv, SlotInv, Provisioned
    <2>9. PublishedInv'
      <3>1. \A v \in Workers : Provisioned(v) => id[v] \in Slots /\ (id[v] = id[w] => v = w)
        BY DEF TypeOK, SlotTypes, OwnInv, IdInv, DistinctInv, Provisioned, Slots
      <3>2. \A v \in Workers : Provisioned(v)' => v = w \/ Provisioned(v)
        BY <2>5 DEF Provisioned
      <3> QED  BY <2>1, <2>2, <2>5, <3>1, <3>2 DEF OwnInv, PublishedInv
    <2> QED  BY <2>3, <2>4, <2>6, <2>7, <2>8, <2>9 DEF TypeOK, OwnInv
  <1>4. ASSUME NEW w \in Workers, Search(w) \/ Check(w)
        PROVE  TypeOK' /\ OwnInv'
    <2>1. ControlTypes' /\ UNCHANGED slots
      BY <1>4 DEF Search, Check, TypeOK, ControlTypes
    <2>2. CounterTypes'
      BY <1>4 DEF Search, Check, TypeOK, CounterTypes
    <2>3. SlotTypes'
      BY <1>4 DEF Search, Check, TypeOK, SlotTypes
    <2>4. \A v \in Workers : /\ Provisioned(v)' <=> Provisioned(v)
                             /\ pc'[v] = "claim" <=> pc[v] = "claim"
      BY <1>4 DEF Search, Check, TypeOK, SlotTypes, Provisioned
    <2>5. CountInv' /\ DistinctInv' /\ PublishedInv'
      BY <2>1, <2>4 DEF OwnInv, CountInv, Claimed, DistinctInv, PublishedInv
    <2>6. IdInv'
      BY <2>1, <2>4 DEF OwnInv, IdInv
    <2>7. SlotInv'
      BY <2>1, <2>4 DEF TypeOK, SlotTypes, OwnInv, SlotInv
    <2> QED  BY <2>1, <2>2, <2>3, <2>5, <2>6, <2>7 DEF TypeOK, OwnInv
  <1>5. ASSUME NEW s \in Signals, Send(s) PROVE TypeOK' /\ OwnInv'
    <2>1. ControlTypes' /\ CounterTypes' /\ UNCHANGED <<slots, pc>>
      BY <1>5 DEF Send, TypeOK, ControlTypes, CounterTypes
    <2> QED  BY <1>0, <2>1
  <1>6. CASE KernelStep
    <2>1. ASSUME NEW s \in Signals, DefaultAction(s)
          PROVE  ControlTypes' /\ CounterTypes' /\ UNCHANGED <<slots, pc>>
      BY <2>1 DEF DefaultAction, TypeOK, ControlTypes, CounterTypes
    <2>2. ASSUME NEW s \in Signals, NEW t \in Threads, Deliver(s, t)
          PROVE  ControlTypes' /\ CounterTypes' /\ UNCHANGED <<slots, pc>>
      <3>1. frames' \in [Threads -> Seq(Frame)]
        BY <2>2, DeliverFrames DEF TypeOK, ControlTypes
      <3> QED  BY <2>2, <3>1 DEF Deliver, TypeOK, ControlTypes, CounterTypes
    <2> QED  BY <1>0, <1>6, <2>1, <2>2 DEF KernelStep
  <1>7. ASSUME NEW t \in Threads, HandlerStep(t) PROVE TypeOK' /\ OwnInv'
    BY <1>0, <1>7, HandlerStepTypes
  <1>8. CASE UNCHANGED vars
    <2>1. ControlTypes' /\ CounterTypes' /\ UNCHANGED <<slots, pc>>
      BY <1>8 DEF vars, TypeOK, ControlTypes, CounterTypes
    <2> QED  BY <1>0, <2>1
  <1> QED  BY <1>1, <1>2, <1>3, <1>4, <1>5, <1>6, <1>7, <1>8 DEF Next, WorkerStep

\* Type correctness, for any number of workers and signals.
THEOREM TypeCorrect == Spec => []TypeOK
  <1>1. Spec => [](TypeOK /\ OwnInv)
    BY InitTypeOwn, NextTypeOwn, PTL DEF Spec
  <1> QED  BY <1>1, PTL

\* No two workers share a slot and each row is printed from its worker's own
\* slot (main.cpp:115 and 146), for any interleaving of any number of workers.
THEOREM SlotsAreOwned == Spec => []SlotOwnership
  <1>1. TypeOK /\ OwnInv => SlotOwnership
    BY DEF OwnInv, DistinctInv, SlotInv, PublishedInv, SlotOwnership, Provisioned
  <1>2. Spec => [](TypeOK /\ OwnInv)
    BY InitTypeOwn, NextTypeOwn, PTL DEF Spec
  <1> QED  BY <1>1, <1>2, PTL

-----------------------------------------------------------------------------
\* A slot that a SIGINT handler has dealt with.  A running handler has dealt
\* with the slots behind it, one that returned has dealt with them all.
Told(i) == thread_args[i] # NoArgs /\ cont[thread_args[i]] = 0

ScanInv ==
  \A t \in Threads : \A j \in 1..Len(frames[t]) :
    frames[t][j].sig = SIGINT => \A i \in 0..(frames[t][j].slot - 1) : Told(i)
StoppedInv == stopped => \A i \in Slots : Told(i)
StopInv == ScanInv /\ StoppedInv

\* Publishing sets cont to 1, but in a slot that was empty until then.
LEMMA PublishesEmptySlot ==
  ASSUME TypeOK, OwnInv, NEW w \in Workers, Publish(w)
  PROVE  /\ id[w] \in Slots /\ thread_args[id[w]] = NoArgs
         /\ \A i \in Slots : thread_args[i] # NoArgs => i # id[w] /\ thread_args[i] # w
  <1>1. pc[w] = "publish"
    BY DEF Publish
  <1>2. id[w] \in Slots
    BY <1>1 DEF TypeOK, SlotTypes, OwnInv, IdInv, Slots
  <1>3. \A i \in Slots : thread_args[i] # NoArgs => thread_args[i] # w
    BY <1>1 DEF OwnInv, SlotInv, Provisioned
  <1>4. \A i \in Slots : thread_args[i] # NoArgs => i # id[w]
    <2> SUFFICES ASSUME thread_args[id[w]] # NoArgs PROVE FALSE
      BY <1>2
    <2>1. thread_args[id[w]] \in Workers /\ id[thread_args[id[w]]] = id[w]
      BY <1>2 DEF TypeOK, SlotTypes, OwnInv, SlotInv
    <2>2. id[w] # -1
      BY <1>2 DEF Slots
    <2> QED  BY <1>2, <1>3, <2>1, <2>2 DEF OwnInv, DistinctInv
  <1> QED  BY <1>2, <1>3, <1>4

\* No step takes a stop back.
LEMMA ToldStays ==
  ASSUME TypeOK, OwnInv, [Next]_vars, NEW i \in Slots, Told(i)
  PROVE  Told(i)'
  <1> USE DEF process, signals, slots, counters, history
  <1>1. ASSUME NEW w \in Workers, Publish(w) PROVE Told(i)'
    <2>1. i # id[w] /\ thread_args[i] # w /\ id[w] \in Slots /\ thread_args[i] \in Workers
      BY <1>1, PublishesEmptySlot DEF Told, TypeOK, SlotTypes
    <2> QED  BY <1>1, <2>1 DEF Publish, Told, TypeOK, SlotTypes, CounterTypes
  <1>2. ASSUME NEW t \in Threads, StopWorker(t) PROVE Told(i)'
    <2>1. Target(t) \in Workers /\ thread_args[i] \in Workers
      BY <1>2, HandlerTarget DEF StopWorker, Told, TypeOK, SlotTypes
    <2> QED  BY <1>2, <2>1 DEF StopWorker, Told, TypeOK, CounterTypes
  <1>3. ASSUME UNCHANGED <<thread_args, cont>> PROVE Told(i)'
    BY <1>3 DEF Told
  <1>4. CASE MainStep
    BY <1>3, <1>4 DEF MainStep, Spawn, InstallNext, Announce, Goodbye
  <1>5. ASSUME NEW w \in Workers, Claim(w) \/ Search(w) \/ Check(w) PROVE Told(i)'
    BY <1>3, <1>5 DEF Claim, Search, Check
  <1>6. ASSUME NEW s \in Signals, Send(s) PROVE Told(i)'
    BY <1>3, <1>6 DEF Send
  <1>7. CASE KernelStep
    BY <1>3, <1>7 DEF KernelStep, DefaultAction, Deliver
  <1>8. ASSUME NEW t \in Threads, HandlerStep(t), ~StopWorker(t) PROVE Told(i)'
    BY <1>3, <1>8
       DEF HandlerStep, NullDereference, ReadField, ReadRound, BumpRound, ReadCounter, MarkCounter,
           PrintRow
  <1>9. CASE UNCHANGED vars
    BY <1>3, <1>9 DEF vars
  <1> QED  BY <1>1, <1>2, <1>4, <1>5, <1>6, <1>7, <1>8, <1>9 DEF Next, WorkerStep

\* The step of a handler: its frame moves on, and what it passes is dealt with.
LEMMA HandlerScan ==
  ASSUME TypeOK, OwnInv, StopInv, [Next]_vars, NEW t \in Threads, NEW held \in Held,
         NEW phase, InHandler(t, phase), Advance(t, held),
         phase = "stop" => \A k \in Slots : k = Top(t).slot => Told(k)'
  PROVE  ScanInv'
  <1> SUFFICES ASSUME NEW u \in Threads, NEW j \in 1..Len(frames'[u]),
                      frames'[u][j].sig = SIGINT,
                      NEW i \in 0..(frames'[u][j].slot - 1)
               PROVE  Told(i)'
    BY DEF ScanInv
  <1> DEFINE f == Top(t)
  <1>1. /\ frames[t] # <<>> /\ f \in Frame /\ f.slot \in Slots
        /\ Phases(f.sig)[f.phase] = phase
    BY HandlerTarget DEF InHandler, At
  <1>2. frames \in [Threads -> Seq(Frame)]
    BY DEF TypeOK, ControlTypes
  <1>3. /\ frames' \in [Threads -> Seq(Frame)]
        /\ \A v \in Threads : \A k \in 1..Len(frames'[v]) :
             \/ k \in 1..Len(frames[v]) /\ frames'[v][k] = frames[v][k]
             \/ v = t /\ ~Returns(t) /\ frames'[v][k] = Onward([Top(t) EXCEPT !.held = held])
    BY <1>1, <1>2, AdvanceFrames
  <1>4. frames'[u][j] \in Frame
    BY <1>3, ElementOfSeq
  <1>5. i \in Slots
    BY <1>4 DEF Frame, Slots
  <1>6. CASE j \in 1..Len(frames[u]) /\ frames'[u][j] = frames[u][j]
    <2>1. Told(i)
      BY <1>6 DEF StopInv, ScanInv
    <2> QED  BY <1>5, <2>1, ToldStays
  <1>7. CASE u = t /\ ~Returns(t) /\ frames'[u][j] = Onward([f EXCEPT !.held = held])
    <2>1. /\ frames'[u][j].sig = f.sig
          /\ frames'[u][j].slot = IF LastPhase(f) THEN f.slot + 1 ELSE f.slot
      BY <1>1, <1>7, OnwardType DEF Returns
    <2>2. phase = "stop" /\ LastPhase(f)
      BY <1>1, <2>1, StopPhase
    <2>3. f = frames[t][Len(frames[t])] /\ Len(frames[t]) \in 1..Len(frames[t])
      BY <1>1, <1>2, TopType DEF Top
    <2>4. \A k \in 0..(f.slot - 1) : Told(k)
      BY <2>1, <2>3 DEF StopInv, ScanInv
    <2>5. i = f.slot \/ i \in 0..(f.slot - 1)
      BY <1>1, <2>1, <2>2 DEF Slots
    <2>6. CASE i \in 0..(f.slot - 1)
      <3>1. Told(i)
        BY <2>4, <2>6
      <3> QED  BY <1>5, <3>1, ToldStays
    <2> QED  BY <1>5, <2>2, <2>5, <2>6
  <1>8. \/ j \in 1..Len(frames[u]) /\ frames'[u][j] = frames[u][j]
        \/ u = t /\ ~Returns(t) /\ frames'[u][j] = Onward([f EXCEPT !.held = held])
    BY <1>3
  <1> QED  BY <1>6, <1>7, <1>8

\* No handler runs and nobody has been told anything at the start.
LEMMA InitStop == Init => StopInv
  BY EmptySeq DEF Init, StopInv, ScanInv, StoppedInv

\* Every step keeps what a SIGINT handler has achieved so far.
LEMMA NextStop ==
  ASSUME TypeOK, OwnInv, StopInv, [Next]_vars
  PROVE  StopInv'
  <1> USE DEF process, signals, slots, counters, history
  <1>1. ASSUME UNCHANGED stopped PROVE StoppedInv'
    BY <1>1, ToldStays DEF StopInv, StoppedInv
  <1>2. ASSUME UNCHANGED frames PROVE ScanInv'
    <2> SUFFICES ASSUME NEW t \in Threads, NEW j \in 1..Len(frames[t]),
                        frames[t][j].sig = SIGINT, NEW i \in 0..(frames[t][j].slot - 1)
                 PROVE  Told(i)'
      BY <1>2 DEF ScanInv
    <2>1. Told(i)
      BY DEF StopInv, ScanInv
    <2>2. frames[t][j] \in Frame
      BY ElementOfSeq DEF TypeOK, ControlTypes
    <2>3. i \in Slots
      BY <2>2 DEF Frame, Slots
    <2> QED  BY <2>1, <2>3, ToldStays
  <1>3. CASE MainStep
    BY <1>1, <1>2, <1>3 DEF MainStep, Spawn, InstallNext, Announce, Goodbye, StopInv
  <1>4. ASSUME NEW w \in Workers, WorkerStep(w) PROVE StopInv'
    BY <1>1, <1>2, <1>4 DEF WorkerStep, Claim, Publish, Search, Check, StopInv
  <1>5. ASSUME NEW s \in Signals, Send(s) \/ DefaultAction(s) PROVE StopInv'
    BY <1>1, <1>2, <1>5 DEF Send, DefaultAction, StopInv
  <1>6. ASSUME NEW s \in Signals, NEW t \in Threads, Deliver(s, t) PROVE StopInv'
    <2>1. UNCHANGED stopped
      BY <1>6 DEF Deliver
    <2> SUFFICES ASSUME NEW u \in Threads, NEW j \in 1..Len(frames'[u]),
                        frames'[u][j].sig = SIGINT, NEW i \in 0..(frames'[u][j].slot - 1)
                 PROVE  Told(i)'
      BY <1>1, <2>1 DEF StopInv, ScanInv
    <2>2. CASE j \in 1..Len(frames[u]) /\ frames'[u][j] = frames[u][j]
      <3>1. Told(i)
        BY <2>2 DEF StopInv, ScanInv
      <3>2. frames[u][j] \in Frame
        BY <2>2, ElementOfSeq DEF TypeOK, ControlTypes
      <3>3. i \in Slots
        BY <2>2, <3>2 DEF Frame, Slots
      <3> QED  BY <3>1, <3>3, ToldStays
    <2>3. CASE frames'[u][j] = handle(s)
      <3>1. frames'[u][j].slot = 0
        BY <2>3 DEF handle
      <3>2. i \in 0..(-1)
        BY <3>1
      <3> QED  BY <3>2
    <2>4. frames \in [Threads -> Seq(Frame)]
      BY DEF TypeOK, ControlTypes
    <2> QED  BY <1>6, <2>2, <2>3, <2>4, DeliverFrames
  <1>7. ASSUME NEW t \in Threads, NullDereference(t) PROVE StopInv'
    BY <1>1, <1>2, <1>7 DEF NullDereference, StopInv
  <1>8. ASSUME NEW t \in Threads, ReadField(t) \/ ReadRound(t) \/ ReadCounter(t)
        PROVE  StopInv'
    <2>1. PICK x \in Fields : \E phase \in {"row", "round", "count"} :
            InHandler(t, phase) /\ Advance(t, Load(t, x))
      BY <1>8, NextField DEF ReadField, ReadRound, ReadCounter, Fields
    <2>2. UNCHANGED stopped
      BY <1>8 DEF ReadField, ReadRound, ReadCounter
    <2> QED  BY <1>1, <2>1, <2>2, LoadType, HandlerScan DEF StopInv
  <1>9. ASSUME NEW t \in Threads, BumpRound(t) PROVE StopInv'
    BY <1>1, <1>9, HandlerScan, NothingHeld DEF BumpRound, StopInv
  <1>10. ASSUME NEW t \in Threads, MarkCounter(t) PROVE StopInv'
    BY <1>1, <1>10, HandlerScan, NothingHeld DEF MarkCounter, StopInv
  <1>11. ASSUME NEW t \in Threads, PrintRow(t) PROVE StopInv'
    BY <1>1, <1>11, HandlerScan, NothingHeld DEF PrintRow, StopInv
  <1>12. ASSUME NEW t \in Threads, StopWorker(t) PROVE StopInv'
    <2> DEFINE f == Top(t)
    <2>1. /\ frames[t] # <<>> /\ Target(t) \in Workers /\ f \in Frame /\ f.slot \in Slots
          /\ Phases(f.sig)[f.phase] = "stop"
      BY <1>12, HandlerTarget DEF StopWorker, InHandler, At
    <2>2. ASSUME NEW k \in Slots, k = f.slot PROVE Told(k)'
      <3>1. thread_args[f.slot] = Target(t) /\ Target(t) # NoArgs
        BY <2>1 DEF Target
      <3>2. UNCHANGED thread_args /\ cont' = [cont EXCEPT ![Target(t)] = 0]
        BY <1>12 DEF StopWorker
      <3>3. cont'[Target(t)] = 0
        BY <2>1, <3>2 DEF TypeOK, CounterTypes
      <3> QED  BY <2>2, <3>1, <3>2, <3>3 DEF Told
    <2>3. ScanInv'
      BY <1>12, <2>2, HandlerScan, NothingHeld DEF StopWorker
    <2>4. StoppedInv'
      <3>1. CASE Returns(t)
        <4>1. f.sig = SIGINT
          BY <2>1, StopPhase
        <4>2. f = frames[t][Len(frames[t])] /\ Len(frames[t]) \in 1..Len(frames[t])
          BY <2>1, TopType DEF Top, TypeOK, ControlTypes
        <4>3. \A i \in 0..(f.slot - 1) : Told(i)
          BY <4>1, <4>2 DEF StopInv, ScanInv
        <4>4. f.slot + 1 = nprocs
          BY <3>1 DEF Returns
        <4>5. \A i \in Slots : i = f.slot \/ i \in 0..(f.slot - 1)
          BY <2>1, <4>4 DEF Slots
        <4>6. ASSUME NEW i \in Slots PROVE Told(i)'
          <5>1. CASE i = f.slot
            BY <2>2, <5>1
          <5>2. CASE i \in 0..(f.slot - 1)
            <6>1. Told(i)
              BY <4>3, <5>2
            <6> QED  BY <6>1, ToldStays
          <5> QED  BY <4>5, <5>1, <5>2
        <4> QED  BY <4>6 DEF StoppedInv
      <3>2. CASE ~Returns(t)
        <4>1. stopped' <=> stopped
          BY <1>12, <3>2, Zenon DEF StopWorker
        <4> QED  BY <4>1, ToldStays DEF StopInv, StoppedInv
      <3> QED  BY <3>1, <3>2
    <2> QED  BY <2>3, <2>4 DEF StopInv
  <1>13. CASE UNCHANGED vars
    BY <1>1, <1>2, <1>13 DEF vars, StopInv
  <1> QED  BY <1>3, <1>4, <1>5, <1>6, <1>7, <1>8, <1>9, <1>10, <1>11, <1>12, <1>13
              DEF Next, KernelStep, HandlerStep

\* When every slot is taken every worker is in one.
LEMMA FullTable ==
  ASSUME TypeOK, OwnInv, \A i \in Slots : thread_args[i] # NoArgs, NEW w \in Workers
  PROVE  id[w] \in Slots /\ thread_args[id[w]] = w
  <1> DEFINE last == nprocs - 1
             v == thread_args[last]
  <1>1. last \in Slots
    BY DEF Slots
  <1>2. v \in Workers /\ id[v] = last
    BY <1>1 DEF TypeOK, SlotTypes, OwnInv, SlotInv
  <1>3. threadCount = nprocs
    BY <1>2 DEF TypeOK, SlotTypes, OwnInv, IdInv
  <1>4. Claimed = Workers
    <2>1. Claimed \in SUBSET Workers /\ Cardinality(Claimed) = nprocs
      BY <1>3 DEF OwnInv, CountInv, Claimed
    <2>2. Cardinality(Claimed) <= Cardinality(Workers) /\ Cardinality(Workers) \in Nat
      BY <2>1, FS_Subset, FS_CardinalityType
    <2>3. Cardinality(Claimed) = Cardinality(Workers)
      BY <2>1, <2>2
    <2> QED  BY <2>1, <2>3, FS_Subset
  <1>5. id[w] \in Slots /\ id[w] # -1
    BY <1>4 DEF Claimed, TypeOK, SlotTypes, Slots
  <1>6. thread_args[id[w]] \in Workers /\ id[thread_args[id[w]]] = id[w]
    BY <1>5 DEF TypeOK, SlotTypes, OwnInv, SlotInv
  <1>7. thread_args[id[w]] = w
    BY <1>5, <1>6 DEF OwnInv, DistinctInv
  <1> QED  BY <1>5, <1>7

\* When every slot has been told to stop, every worker has: full slots leave no
\* worker outside.
LEMMA AllToldAllStopped ==
  ASSUME TypeOK, OwnInv, \A i \in Slots : Told(i), NEW w \in Workers
  PROVE  cont[w] = 0
  BY FullTable DEF Told

\* A stop is never lost: once a SIGINT handler is through (main.cpp:47 to 57),
\* every worker has been told to stop, even those still being provisioned
\* when the signal was sent.
THEOREM StopsReachEveryWorker == Spec => []StopReachesEveryWorker
  <1>1. TypeOK /\ OwnInv /\ StopInv => StopReachesEveryWorker
    BY AllToldAllStopped DEF StopInv, StoppedInv, StopReachesEveryWorker
  <1>2. Spec => [](TypeOK /\ OwnInv /\ StopInv)
    BY InitTypeOwn, NextTypeOwn, InitStop, NextStop, PTL DEF Spec
  <1> QED  BY <1>1, <1>2, PTL

-----------------------------------------------------------------------------
\* The first multiple of CHECK_INTERVAL above c: where a worker that was at c
\* when it was told to stop finds out at the latest.
Limit(c) == (c - (c % CHECK_INTERVAL)) + CHECK_INTERVAL

\* The limit is the first multiple of CHECK_INTERVAL above the count.
LEMMA LimitIsMultiple ==
  ASSUME NEW c \in Nat
  PROVE  /\ Limit(c) \in Nat /\ c < Limit(c) /\ Limit(c) <= c + CHECK_INTERVAL
         /\ Limit(c) % CHECK_INTERVAL = 0
  <1> DEFINE K == CHECK_INTERVAL
             q == c \div K
             r == c % K
  <1>1. K \in Nat \ {0}
    OBVIOUS
  <1>2. q \in Nat /\ r \in 0..(K - 1) /\ c = K * q + r
    BY <1>1
  <1>3. Limit(c) = (c - r) + K
    BY DEF Limit
  <1> HIDE DEF K, q, r
  <1>4. Limit(c) \in Nat /\ c < Limit(c) /\ Limit(c) <= c + K
    BY <1>1, <1>2, <1>3
  <1>5. Limit(c) = K * (q + 1) /\ q + 1 \in Nat
    BY <1>1, <1>2, <1>3
  <1>6. ASSUME NEW p \in Nat PROVE (K * p) % K = 0
    BY <1>1
  <1>7. Limit(c) % K = 0
    BY <1>5, <1>6
  <1> QED  BY <1>4, <1>7 DEF K

BoundInv ==
  \A w \in Workers : stop_ctr[w] # -1 =>
    /\ Provisioned(w) /\ cont[w] = 0
    /\ ctr[w] <= Limit(stop_ctr[w])
    /\ pc[w] = "search" => ctr[w] < Limit(stop_ctr[w])

\* Nobody has been told to stop at the start.
LEMMA InitBound == Init => BoundInv
  BY DEF Init, BoundInv

\* Every step keeps a stopped worker's counter below its limit.
LEMMA NextBound ==
  ASSUME TypeOK, OwnInv, BoundInv, [Next]_vars
  PROVE  BoundInv'
  <1> USE DEF process, signals, slots, counters, history
  <1>0. ASSUME UNCHANGED <<pc, cont, ctr, stop_ctr>> PROVE BoundInv'
    BY <1>0 DEF BoundInv, Provisioned
  <1>1. CASE MainStep
    BY <1>0, <1>1 DEF MainStep, Spawn, InstallNext, Announce, Goodbye
  <1>2. ASSUME NEW w \in Workers, Claim(w) \/ Publish(w) PROVE BoundInv'
    <2>1. stop_ctr[w] = -1
      BY <1>2 DEF Claim, Publish, BoundInv, Provisioned
    <2>2. /\ UNCHANGED stop_ctr
          /\ \A v \in Workers : v # w => /\ pc'[v] = pc[v] /\ cont'[v] = cont[v]
                                        /\ ctr'[v] = ctr[v]
      BY <1>2 DEF Claim, Publish, TypeOK, SlotTypes, CounterTypes
    <2> QED  BY <2>1, <2>2 DEF BoundInv, Provisioned
  <1>3. ASSUME NEW w \in Workers, Search(w) PROVE BoundInv'
    <2>1. /\ pc[w] = "search" /\ UNCHANGED <<stop_ctr, cont>>
          /\ \E wrong \in BOOLEAN :
               /\ ctr' = [ctr EXCEPT ![w] = IF wrong THEN ctr[w] ELSE ctr[w] + 1]
               /\ pc' = [pc EXCEPT ![w] = IF wrong THEN "done" ELSE "check"]
      BY <1>3 DEF Search, Wrong
    <2>2. ASSUME stop_ctr[w] # -1 PROVE ctr[w] + 1 <= Limit(stop_ctr[w])
      <3>1. ctr[w] \in Nat /\ stop_ctr[w] \in Nat
        BY <2>2 DEF TypeOK, CounterTypes
      <3>2. Limit(stop_ctr[w]) \in Nat
        BY <3>1, LimitIsMultiple
      <3> QED  BY <2>1, <2>2, <3>1, <3>2 DEF BoundInv
    <2>3. /\ \/ pc'[w] = "check" /\ ctr'[w] = ctr[w] + 1
             \/ pc'[w] = "done" /\ ctr'[w] = ctr[w]
          /\ \A v \in Workers : v # w => pc'[v] = pc[v] /\ ctr'[v] = ctr[v]
      BY <2>1 DEF TypeOK, SlotTypes, CounterTypes
    <2>4. ASSUME NEW v \in Workers, stop_ctr'[v] # -1
          PROVE  /\ Provisioned(v)' /\ cont'[v] = 0
                 /\ ctr'[v] <= Limit(stop_ctr'[v])
                 /\ pc'[v] = "search" => ctr'[v] < Limit(stop_ctr'[v])
      <3>1. CASE v = w
        BY <2>1, <2>2, <2>3, <2>4, <3>1 DEF BoundInv, Provisioned
      <3>2. CASE v # w
        BY <2>1, <2>3, <2>4, <3>2 DEF BoundInv, Provisioned
      <3> QED  BY <3>1, <3>2
    <2> QED  BY <2>4 DEF BoundInv, Provisioned, Limit
  <1>5. ASSUME NEW w \in Workers, Check(w) PROVE BoundInv'
    <2> DEFINE stops == ctr[w] % CHECK_INTERVAL = 0 /\ cont[w] = 0
    <2>1. /\ pc[w] = "check" /\ UNCHANGED <<stop_ctr, cont, ctr>>
          /\ \A v \in Workers :
               pc'[v] = IF v = w THEN (IF stops THEN "done" ELSE "search") ELSE pc[v]
      BY <1>5 DEF Check, TypeOK, SlotTypes
    <2>2. ASSUME stop_ctr[w] # -1, ~stops PROVE ctr[w] < Limit(stop_ctr[w])
      <3>1. ctr[w] \in Nat /\ stop_ctr[w] \in Nat
        BY <2>2 DEF TypeOK, CounterTypes
      <3>2. Limit(stop_ctr[w]) \in Nat /\ Limit(stop_ctr[w]) % CHECK_INTERVAL = 0
        BY <3>1, LimitIsMultiple
      <3>3. ctr[w] <= Limit(stop_ctr[w]) /\ cont[w] = 0
        BY <2>2 DEF BoundInv
      <3>4. ctr[w] # Limit(stop_ctr[w])
        BY <2>2, <3>2, <3>3
      <3> QED  BY <3>1, <3>2, <3>3, <3>4
    <2> HIDE DEF stops
    <2> QED  BY <2>1, <2>2 DEF BoundInv, Provisioned
  <1>6. ASSUME NEW s \in Signals, Send(s) PROVE BoundInv'
    BY <1>0, <1>6 DEF Send
  <1>7. CASE KernelStep
    BY <1>0, <1>7 DEF KernelStep, DefaultAction, Deliver
  <1>8. ASSUME NEW t \in Threads, HandlerStep(t), ~StopWorker(t) PROVE BoundInv'
    BY <1>0, <1>8
       DEF HandlerStep, NullDereference, ReadField, ReadRound, BumpRound, ReadCounter, MarkCounter,
           PrintRow
  <1>9. ASSUME NEW t \in Threads, StopWorker(t) PROVE BoundInv'
    <2> DEFINE w == Target(t)
    <2>1. w \in Workers /\ Top(t).slot \in Slots /\ w # NoArgs
      BY <1>9, HandlerTarget DEF StopWorker
    <2>2. Provisioned(w)
      BY <2>1 DEF OwnInv, SlotInv, Target
    <2>3. ctr[w] \in Nat /\ stop_ctr[w] \in Nat \cup {-1}
      BY <2>1 DEF TypeOK, CounterTypes
    <2>4. ctr[w] < Limit(ctr[w]) /\ Limit(ctr[w]) \in Nat
      BY <2>3, LimitIsMultiple
    <2>5. PICK x \in Workers : x = w
      BY <2>1
    <2>6. /\ UNCHANGED <<pc, ctr>>
          /\ \A v \in Workers : cont'[v] = IF v = x THEN 0 ELSE cont[v]
          /\ \A v \in Workers : stop_ctr'[v] =
               IF v = x /\ stop_ctr[x] = -1 THEN ctr[x] ELSE stop_ctr[v]
      BY <1>9, <2>5 DEF StopWorker, TypeOK, CounterTypes
    <2>7. Provisioned(x) /\ ctr[x] < Limit(ctr[x]) /\ ctr[x] \in Nat /\ Limit(ctr[x]) \in Nat
      BY <2>2, <2>3, <2>4, <2>5
    <2> HIDE DEF w
    <2>8. ASSUME NEW v \in Workers, stop_ctr'[v] # -1
          PROVE  /\ Provisioned(v)' /\ cont'[v] = 0
                 /\ ctr'[v] <= Limit(stop_ctr'[v])
                 /\ pc'[v] = "search" => ctr'[v] < Limit(stop_ctr'[v])
      <3>1. CASE v = x /\ stop_ctr[x] = -1
        BY <2>6, <2>7, <3>1 DEF Provisioned
      <3>2. CASE ~(v = x /\ stop_ctr[x] = -1)
        BY <2>6, <2>8, <3>2 DEF BoundInv, Provisioned
      <3> QED  BY <3>1, <3>2
    <2> QED  BY <2>8 DEF BoundInv, Provisioned, Limit
  <1>10. CASE UNCHANGED vars
    BY <1>0, <1>10 DEF vars
  <1> QED  BY <1>1, <1>2, <1>3, <1>5, <1>6, <1>7, <1>8, <1>9, <1>10
              DEF Next, WorkerStep

\* A worker told to stop does at most CHECK_INTERVAL further searches
\* (threads.cpp:59 and 109), whenever in its loop the stop arrives.
THEOREM StopsAreBounded == Spec => []BoundedStop
  <1>1. TypeOK /\ BoundInv => BoundedStop
    <2> SUFFICES ASSUME TypeOK, BoundInv, NEW w \in Workers, stop_ctr[w] # -1
                 PROVE  ctr[w] <= stop_ctr[w] + CHECK_INTERVAL
      BY DEF BoundedStop
    <2>1. ctr[w] \in Nat /\ stop_ctr[w] \in Nat
      BY DEF TypeOK, CounterTypes
    <2>2. Limit(stop_ctr[w]) \in Nat /\ Limit(stop_ctr[w]) <= stop_ctr[w] + CHECK_INTERVAL
      BY <2>1, LimitIsMultiple
    <2>3. ctr[w] <= Limit(stop_ctr[w])
      BY DEF BoundInv
    <2> QED  BY <2>1, <2>2, <2>3
  <1>2. Spec => [](TypeOK /\ OwnInv /\ BoundInv)
    BY InitTypeOwn, NextTypeOwn, InitBound, NextBound, PTL DEF Spec
  <1> QED  BY <1>1, <1>2, PTL

-----------------------------------------------------------------------------
\* The rounds.

\* The signals whose handlers read or change the rounds.
Measures(s) == s \in {SIGUSR1, SIGUSR2}

-----------------------------------------------------------------------------
\* Which handler is in a phase, and whether it is its last one.
LEMMA PhaseTable ==
  ASSUME NEW f \in Frame, NEW phase, Phases(f.sig)[f.phase] = phase
  PROVE  /\ phase = "row" => f.sig = SIGUSR1 /\ f.phase \in 1..2 /\ ~LastPhase(f)
         /\ phase = "print" => f.sig = SIGUSR1 /\ f.phase = 3 /\ LastPhase(f)
         /\ phase = "round" => f.sig = SIGUSR2 /\ f.phase = 1 /\ ~LastPhase(f)
         /\ phase = "bump" => f.sig = SIGUSR2 /\ f.phase = 2 /\ ~LastPhase(f)
         /\ phase = "count" => f.sig = SIGUSR2 /\ f.phase = 3 /\ ~LastPhase(f)
         /\ phase = "mark" => f.sig = SIGUSR2 /\ f.phase = 4 /\ LastPhase(f)
         /\ phase = "stop" => f.sig = SIGINT /\ f.phase = 1 /\ LastPhase(f)
  <1>1. f.sig \in Signals /\ f.phase \in 1..4 /\ f.phase <= Len(Phases(f.sig))
    BY DEF Frame
  <1>2. CASE f.sig = SIGUSR1
    <2>1. Phases(f.sig) = <<"row", "row", "print">>
      BY <1>2 DEF Phases, SIGUSR1, SIGUSR2, SIGINT
    <2>2. f.phase = 1 \/ f.phase = 2 \/ f.phase = 3
      BY <1>1, <2>1
    <2> QED  BY <1>2, <2>1, <2>2 DEF LastPhase
  <1>3. CASE f.sig = SIGUSR2
    <2>1. Phases(f.sig) = <<"round", "bump", "count", "mark">>
      BY <1>3 DEF Phases, SIGUSR1, SIGUSR2, SIGINT
    <2>2. f.phase = 1 \/ f.phase = 2 \/ f.phase = 3 \/ f.phase = 4
      BY <1>1, <2>1
    <2> QED  BY <1>3, <2>1, <2>2 DEF LastPhase
  <1>4. CASE f.sig = SIGINT
    <2>1. Phases(f.sig) = <<"stop">>
      BY <1>4 DEF Phases, SIGUSR1, SIGUSR2, SIGINT
    <2>2. f.phase = 1
      BY <1>1, <2>1
    <2> QED  BY <1>4, <2>1, <2>2 DEF LastPhase
  <1> QED  BY <1>1, <1>2, <1>3, <1>4 DEF Signals

\* The fields of the frame a handler goes on with.
LEMMA OnwardFields ==
  ASSUME NEW f \in Frame, NEW held \in Held
  PROVE  LET g == Onward([f EXCEPT !.held = held])
         IN  /\ g.sig = f.sig /\ g.held = held
             /\ g.slot = IF LastPhase(f) THEN f.slot + 1 ELSE f.slot
             /\ g.phase = IF LastPhase(f) THEN 1 ELSE f.phase + 1
  <1> DEFINE h == [f EXCEPT !.held = held]
             Shape == [sig : Signals, slot : Int, phase : Int, held : Held]
  <1>1. f \in Shape
    BY DEF Frame, Slots
  <1>2. h \in Shape /\ h.sig = f.sig /\ h.slot = f.slot /\ h.phase = f.phase /\ h.held = held
    BY <1>1
  <1>3. LastPhase(h) <=> LastPhase(f)
    BY <1>2 DEF LastPhase
  <1> HIDE DEF h
  <1>4. CASE LastPhase(f)
    <2> DEFINE k == [h EXCEPT !.phase = 1]
    <2>1. k \in Shape /\ k.sig = f.sig /\ k.slot = f.slot /\ k.phase = 1 /\ k.held = held
      BY <1>2
    <2>2. Onward(h) = [k EXCEPT !.slot = h.slot + 1]
      BY <1>3, <1>4 DEF Onward
    <2> HIDE DEF k
    <2>3. /\ Onward(h).sig = f.sig /\ Onward(h).held = held
          /\ Onward(h).slot = f.slot + 1 /\ Onward(h).phase = 1
      BY <1>2, <2>1, <2>2
    <2> QED  BY <1>4, <2>3 DEF h
  <1>5. CASE ~LastPhase(f)
    <2>1. Onward(h) = [h EXCEPT !.phase = h.phase + 1]
      BY <1>3, <1>5 DEF Onward
    <2>2. /\ Onward(h).sig = f.sig /\ Onward(h).held = held
          /\ Onward(h).slot = f.slot /\ Onward(h).phase = f.phase + 1
      BY <1>2, <2>1
    <2> QED  BY <1>5, <2>2 DEF h
  <1> QED  BY <1>4, <1>5

\* A step of the running handler, in the terms of frames: its own frame, on
\* top of its thread's stack, moves or goes; the others stay in their places.
LEMMA FrameMoves ==
  ASSUME TypeOK, NEW t \in Threads, NEW held \in Held, NEW phase,
         InHandler(t, phase), Advance(t, held)
  PROVE  LET f == Top(t)
             n == Len(frames[t])
         IN  /\ n \in 1..Len(frames[t]) /\ f = frames[t][n] /\ f \in Frame
             /\ Phases(f.sig)[f.phase] = phase
             /\ \A u \in Threads : \A j \in 1..Len(frames'[u]) :
                  /\ j \in 1..Len(frames[u])
                  /\ ~(u = t /\ j = n) => frames'[u][j] = frames[u][j]
                  /\ u = t /\ j = n =>
                       /\ ~Returns(t)
                       /\ frames'[u][j].sig = f.sig
                       /\ frames'[u][j].held = held
                       /\ frames'[u][j].slot = IF LastPhase(f) THEN f.slot + 1 ELSE f.slot
                       /\ frames'[u][j].phase = IF LastPhase(f) THEN 1 ELSE f.phase + 1
             /\ \A u \in Threads : \A j \in 1..Len(frames[u]) :
                  j \in 1..Len(frames'[u]) \/ (u = t /\ j = n /\ Returns(t))
  <1> DEFINE s == frames[t]
             n == Len(s)
             f == Top(t)
             g == Onward([f EXCEPT !.held = held])
  <1>1. /\ s \in Seq(Frame) /\ n \in Nat \ {0} /\ f \in Frame /\ f = s[n]
        /\ Phases(f.sig)[f.phase] = phase /\ frames \in [Threads -> Seq(Frame)]
    BY HandlerTarget, TopType DEF InHandler, At, TypeOK, ControlTypes, Top
  <1>2. CASE Returns(t)
    <2>1. frames' = [frames EXCEPT ![t] = SubSeq(s, 1, n - 1)]
      BY <1>2 DEF Advance
    <2>2. \A k \in 1..(n - 1) : s[k] \in Frame
      BY <1>1, ElementOfSeq
    <2>3. /\ Len(SubSeq(s, 1, n - 1)) = n - 1
          /\ \A k \in 1..(n - 1) : SubSeq(s, 1, n - 1)[k] = s[k]
      <3> DEFINE m == n - 1
      <3>1. m \in Int /\ 1 \in Int /\ m >= 0 /\ \A k \in 1..m : s[k] \in Frame
        BY <1>1, <2>2
      <3> HIDE DEF m, n, s
      <3>2. /\ Len(SubSeq(s, 1, m)) = IF 1 <= m THEN m - 1 + 1 ELSE 0
            /\ \A k \in 1..(m - 1 + 1) : SubSeq(s, 1, m)[k] = s[1 + k - 1]
        BY <3>1, SubSeqProperties
      <3>3. Len(SubSeq(s, 1, m)) = m /\ \A k \in 1..m : SubSeq(s, 1, m)[k] = s[k]
        BY <3>1, <3>2
      <3> QED  BY <3>3 DEF m
    <2> QED  BY <1>1, <1>2, <2>1, <2>3
  <1>3. CASE ~Returns(t)
    <2>1. frames' = [frames EXCEPT ![t] = [s EXCEPT ![n] = g]]
      BY <1>3 DEF Advance
    <2>2. g \in Frame
      BY <1>1, <1>3, OnwardType DEF Returns
    <2>3. /\ Len([s EXCEPT ![n] = g]) = n
          /\ \A k \in 1..n : [s EXCEPT ![n] = g][k] = IF k = n THEN g ELSE s[k]
      BY <1>1, <2>2, ExceptSeq, n \in 1..n
    <2>4. /\ g.sig = f.sig /\ g.held = held
          /\ g.slot = IF LastPhase(f) THEN f.slot + 1 ELSE f.slot
          /\ g.phase = IF LastPhase(f) THEN 1 ELSE f.phase + 1
      BY <1>1, OnwardFields
    <2> HIDE DEF g
    <2> QED  BY <1>1, <1>3, <2>1, <2>3, <2>4
  <1> QED  BY <1>2, <1>3

\* A delivery in the same terms.
LEMMA FrameArrives ==
  ASSUME TypeOK, NEW s \in Signals, NEW t \in Threads, Deliver(s, t)
  PROVE  LET n == Len(frames[t]) + 1
         IN  /\ \A u \in Threads : \A j \in 1..Len(frames'[u]) :
                  frames'[u][j] = IF u = t /\ j = n THEN handle(s) ELSE frames[u][j]
             /\ \A u \in Threads : \A j \in 1..Len(frames'[u]) :
                  (u = t /\ j = n) \/ j \in 1..Len(frames[u])
             /\ \A u \in Threads : \A j \in 1..Len(frames[u]) : j \in 1..Len(frames'[u])
             /\ n \in 1..Len(frames'[t])
  <1>1. frames' = [frames EXCEPT ![t] = Append(frames[t], handle(s))]
    BY DEF Deliver
  <1>2. frames \in [Threads -> Seq(Frame)] /\ handle(s) \in Frame
    BY HandleType DEF TypeOK, ControlTypes
  <1>3. /\ Len(Append(frames[t], handle(s))) = Len(frames[t]) + 1
        /\ \A k \in 1..Len(frames[t]) : Append(frames[t], handle(s))[k] = frames[t][k]
        /\ Append(frames[t], handle(s))[Len(frames[t]) + 1] = handle(s)
    BY <1>2, AppendProperties
  <1>4. Len(frames[t]) \in Nat
    BY <1>2
  <1> QED  BY <1>1, <1>2, <1>3, <1>4

\* Whether a handler runs, by places.
LEMMA RunsSomewhere ==
  ASSUME TypeOK, NEW s
  PROVE  HandlerRuns(s) <=> \E t \in Threads : \E j \in 1..Len(frames[t]) : frames[t][j].sig = s
  <1>1. \A t \in Threads : DOMAIN frames[t] = 1..Len(frames[t])
    BY DEF TypeOK, ControlTypes
  <1> QED  BY <1>1 DEF HandlerRuns

-----------------------------------------------------------------------------
\* The sender that waits has at most one signal under way that reads or changes
\* the rounds: pending, or with its handler on one thread.
AloneInv ==
  /\ \A r, s \in pending : Measures(r) /\ Measures(s) => r = s
  /\ \A t \in Threads : \A j \in 1..Len(frames[t]) : Measures(frames[t][j].sig) =>
       /\ \A s \in pending : ~Measures(s)
       /\ \A u \in Threads : \A k \in 1..Len(frames[u]) :
            Measures(frames[u][k].sig) => u = t /\ k = j

\* At the start no handler runs at all.
LEMMA InitAlone == Init => AloneInv
  BY EmptySeq DEF Init, AloneInv

\* A step of a handler starts no handler.
LEMMA MoveAlone ==
  ASSUME TypeOK, AloneInv, NEW t \in Threads, NEW held \in Held, NEW phase,
         InHandler(t, phase), Advance(t, held), UNCHANGED pending
  PROVE  AloneInv'
  <1>1. \A u \in Threads : \A j \in 1..Len(frames'[u]) :
          j \in 1..Len(frames[u]) /\ frames'[u][j].sig = frames[u][j].sig
    BY FrameMoves
  <1> QED  BY <1>1 DEF AloneInv

\* So at most one handler runs, if the sender waits for the last to end.
LEMMA NextAlone ==
  ASSUME Patient, TypeOK, AloneInv, [Next]_vars
  PROVE  AloneInv'
  <1> USE DEF process, signals, slots, counters, history
  <1>1. ASSUME UNCHANGED frames, pending' \subseteq pending
        PROVE  AloneInv'
    BY <1>1 DEF AloneInv
  <1>2. CASE MainStep
    BY <1>1, <1>2 DEF MainStep, Spawn, InstallNext, Announce, Goodbye
  <1>3. ASSUME NEW w \in Workers, WorkerStep(w) PROVE AloneInv'
    BY <1>1, <1>3 DEF WorkerStep, Claim, Publish, Search, Check
  <1>4. ASSUME NEW s \in Signals, Send(s) PROVE AloneInv'
    <2>1. pending' = pending \cup {s} /\ UNCHANGED frames /\ (s = SIGINT \/ Quiet)
      BY <1>4 DEF Send
    <2>2. CASE s = SIGINT
      BY <2>1, <2>2 DEF AloneInv, Measures, SIGINT, SIGUSR1, SIGUSR2
    <2>3. CASE Quiet
      <3>1. pending' = {s} /\ \A r \in Signals : ~HandlerRuns(r)
        BY <2>1, <2>3 DEF Quiet
      <3>2. \A t \in Threads : \A j \in 1..Len(frames[t]) : ~Measures(frames[t][j].sig)
        BY <3>1, RunsSomewhere DEF Measures, Signals
      <3> QED  BY <2>1, <3>1, <3>2 DEF AloneInv
    <2> QED  BY <2>1, <2>2, <2>3
  <1>5. ASSUME NEW s \in Signals, DefaultAction(s) PROVE AloneInv'
    BY <1>1, <1>5 DEF DefaultAction
  <1>6. ASSUME NEW s \in Signals, NEW t \in Threads, Deliver(s, t) PROVE AloneInv'
    <2>1. s \in pending /\ pending' = pending \ {s}
      BY <1>6 DEF Deliver
    <2>2. handle(s).sig = s
      BY DEF handle
    <2>3. \A u \in Threads : \A j \in 1..Len(frames'[u]) :
            \/ u = t /\ j = Len(frames[t]) + 1 /\ frames'[u][j].sig = s
            \/ j \in 1..Len(frames[u]) /\ frames'[u][j].sig = frames[u][j].sig
      BY <1>6, <2>2, FrameArrives
    <2>4. CASE Measures(s)
      <3>1. \A u \in Threads : \A j \in 1..Len(frames[u]) : ~Measures(frames[u][j].sig)
        BY <2>1, <2>4 DEF AloneInv
      <3>2. \A r \in pending' : ~Measures(r)
        BY <2>1, <2>4 DEF AloneInv
      <3>3. \A u \in Threads : \A j \in 1..Len(frames'[u]) :
              Measures(frames'[u][j].sig) => u = t /\ j = Len(frames[t]) + 1
        BY <2>3, <3>1
      <3> QED  BY <3>2, <3>3 DEF AloneInv
    <2>5. CASE ~Measures(s)
      <3>1. \A u \in Threads : \A j \in 1..Len(frames'[u]) : Measures(frames'[u][j].sig) =>
              j \in 1..Len(frames[u]) /\ Measures(frames[u][j].sig)
        BY <2>3, <2>5
      <3> QED  BY <2>1, <3>1 DEF AloneInv
    <2> QED  BY <2>4, <2>5
  <1>7. ASSUME NEW t \in Threads, HandlerStep(t) PROVE AloneInv'
    <2>1. CASE NullDereference(t)
      BY <1>1, <2>1 DEF NullDereference
    <2>2. CASE ReadField(t) \/ ReadRound(t) \/ ReadCounter(t)
      <3>1. PICK x \in Fields : \E phase : InHandler(t, phase) /\ Advance(t, Load(t, x))
        BY <2>2, NextField DEF ReadField, ReadRound, ReadCounter, Fields
      <3>2. UNCHANGED pending
        BY <2>2 DEF ReadField, ReadRound, ReadCounter
      <3> QED  BY <3>1, <3>2, LoadType, MoveAlone
    <2>3. CASE BumpRound(t)
      BY <2>3, MoveAlone, NothingHeld DEF BumpRound
    <2>4. CASE MarkCounter(t)
      BY <2>4, MoveAlone, NothingHeld DEF MarkCounter
    <2>5. CASE PrintRow(t)
      BY <2>5, MoveAlone, NothingHeld DEF PrintRow
    <2>6. CASE StopWorker(t)
      BY <2>6, MoveAlone, NothingHeld DEF StopWorker
    <2> QED  BY <1>7, <2>1, <2>2, <2>3, <2>4, <2>5, <2>6 DEF HandlerStep
  <1>8. CASE UNCHANGED vars
    BY <1>1, <1>8 DEF vars
  <1> QED  BY <1>2, <1>3, <1>4, <1>5, <1>6, <1>7, <1>8 DEF Next, KernelStep

-----------------------------------------------------------------------------
\* The slots that a handler has reached hold a worker: it has gone through
\* their pointers.
Reached(f) == \A k \in Slots : k < f.slot \/ (k = f.slot /\ f.phase # 1) => thread_args[k] # NoArgs

\* The workers whose round a SIGUSR2 handler has raised.
Raised(f) == {w \in Workers : \E k \in Slots :
               thread_args[k] = w /\ (k < f.slot \/ (k = f.slot /\ f.phase \in {3, 4}))}

\* Between two rounds: r was the round of all workers when the handler began.
Halfway(f, r) ==
  /\ \A w \in Workers : round[w] = IF w \in Raised(f) THEN r + 1 ELSE r
  /\ f.phase = 2 => f.held["round"] = r

FrameOk(f) ==
  /\ Measures(f.sig) => Reached(f)
  /\ f.sig = SIGUSR2 => \E r \in Nat : Halfway(f, r)

FramesInv == \A t \in Threads : \A j \in 1..Len(frames[t]) : FrameOk(frames[t][j])
FreshInv == \A w \in Workers : ~Provisioned(w) => round[w] = 0
RoundInv == AloneInv /\ FramesInv /\ FreshInv /\ RoundsAgree

\* What is to be shown of the frames after a step.
LEMMA FramesNext ==
  ASSUME \A u \in Threads : \A j \in 1..Len(frames'[u]) : \A g : g = frames'[u][j] => FrameOk(g)'
  PROVE  FramesInv'
  <1> SUFFICES ASSUME NEW u \in Threads, NEW j \in 1..Len(frames'[u])
               PROVE  FrameOk(frames[u][j])'
    BY DEF FramesInv
  <1>1. PICK g : g = frames'[u][j]
    OBVIOUS
  <1>2. FrameOk(g)'
    BY <1>1
  <1> QED  BY <1>1, <1>2 DEF FrameOk, Reached, Raised, Halfway

\* At the start no worker has a round behind it.
LEMMA InitRounds == Init => RoundInv
  <1> SUFFICES ASSUME Init PROVE RoundInv
    OBVIOUS
  <1>1. \A t \in Threads : Len(frames[t]) = 0
    BY EmptySeq DEF Init
  <1>2. FramesInv
    BY <1>1 DEF FramesInv
  <1>3. FreshInv /\ RoundsAgree
    BY DEF Init, FreshInv, RoundsAgree
  <1> QED  BY <1>2, <1>3, InitAlone DEF RoundInv

\* Steps that touch neither handlers nor slots nor rounds.
LEMMA KeepRounds ==
  ASSUME RoundInv, UNCHANGED <<frames, thread_args, round>>, AloneInv',
         \A w \in Workers : Provisioned(w) => Provisioned(w)'
  PROVE  RoundInv'
  <1>1. FramesInv'
    <2>1. ASSUME NEW g PROVE FrameOk(g)' <=> FrameOk(g)
      BY DEF FrameOk, Reached, Raised, Halfway
    <2>2. \A u \in Threads : \A j \in 1..Len(frames'[u]) : \A g : g = frames'[u][j] => FrameOk(g)'
      BY <2>1 DEF RoundInv, FramesInv
    <2> QED  BY <2>2, FramesNext
  <1>2. FreshInv'
    BY DEF RoundInv, FreshInv
  <1>3. RoundsAgree'
    BY DEF RoundInv, RoundsAgree, HandlerRuns
  <1> QED  BY <1>1, <1>2, <1>3 DEF RoundInv

\* A worker is published with the round it has had all the time, and in a slot
\* that no handler has reached.
LEMMA PublishKeeps ==
  ASSUME TypeOK, OwnInv, FreshInv, NEW w \in Workers, Publish(w)
  PROVE  /\ UNCHANGED <<frames, pending, round>>
         /\ \A k \in Slots : thread_args[k] # NoArgs => thread_args'[k] = thread_args[k]
         /\ \A g : Reached(g) => Raised(g)' = Raised(g)
  <1>1. /\ UNCHANGED <<frames, pending>>
        /\ round' = [round EXCEPT ![w] = 0]
        /\ thread_args' = [thread_args EXCEPT ![id[w]] = w]
        /\ pc[w] = "publish"
    BY DEF Publish, signals
  <1>2. UNCHANGED round
    <2>1. round[w] = 0
      BY <1>1 DEF FreshInv, Provisioned
    <2> QED  BY <1>1, <2>1 DEF TypeOK, CounterTypes
  <1>3. \A k \in Slots : thread_args[k] # NoArgs => thread_args'[k] = thread_args[k]
    BY <1>1, PublishesEmptySlot DEF TypeOK, SlotTypes
  <1>4. ASSUME NEW g, Reached(g) PROVE Raised(g)' = Raised(g)
    <2>1. \A k \in Slots : k < g.slot \/ (k = g.slot /\ g.phase \in {3, 4}) =>
            thread_args'[k] = thread_args[k]
      BY <1>3, <1>4 DEF Reached
    <2> QED  BY <2>1, Zenon DEF Raised
  <1> QED  BY <1>1, <1>2, <1>3, <1>4

\* So the frames stay as they should be.
LEMMA PublishRounds ==
  ASSUME TypeOK, OwnInv, RoundInv, AloneInv', NEW w \in Workers, Publish(w)
  PROVE  RoundInv'
  <1>1. /\ UNCHANGED <<frames, round>>
        /\ \A k \in Slots : thread_args[k] # NoArgs => thread_args'[k] = thread_args[k]
        /\ \A g : Reached(g) => Raised(g)' = Raised(g)
    BY PublishKeeps DEF RoundInv
  <1>2. pc' = [pc EXCEPT ![w] = "search"] /\ pc[w] = "publish"
    BY DEF Publish
  <1>3. ASSUME NEW u \in Threads, NEW j \in 1..Len(frames[u]), NEW g, g = frames[u][j]
        PROVE  FrameOk(g)'
    <2>1. g \in Frame /\ FrameOk(g)
      BY <1>3, ElementOfSeq DEF TypeOK, ControlTypes, RoundInv, FramesInv
    <2>2. ASSUME Measures(g.sig) PROVE Reached(g)'
      BY <1>1, <2>1, <2>2 DEF FrameOk, Reached, TypeOK, SlotTypes
    <2>4. ASSUME g.sig = SIGUSR2 PROVE \E r \in Nat : Halfway(g, r)'
      <3>1. PICK r \in Nat : Halfway(g, r)
        BY <2>1, <2>4 DEF FrameOk
      <3>2. Raised(g)' = Raised(g)
        BY <1>1, <2>1, <2>4 DEF FrameOk, Measures
      <3>3. Halfway(g, r)'
        BY <1>1, <3>1, <3>2 DEF Halfway
      <3> QED  BY <3>3
    <2> QED  BY <2>2, <2>4 DEF FrameOk
  <1>4. FramesInv'
    BY <1>1, <1>3, FramesNext
  <1>5. FreshInv'
    BY <1>1, <1>2 DEF RoundInv, FreshInv, Provisioned, TypeOK, SlotTypes
  <1>6. RoundsAgree'
    BY <1>1 DEF RoundInv, RoundsAgree, HandlerRuns
  <1> QED  BY <1>4, <1>5, <1>6 DEF RoundInv

\* A handler begins between two rounds.
LEMMA DeliverRounds ==
  ASSUME TypeOK, RoundInv, AloneInv', NEW s \in Signals, NEW t \in Threads, Deliver(s, t)
  PROVE  RoundInv'
  <1>1. s \in pending /\ UNCHANGED <<thread_args, round, pc>>
    BY DEF Deliver, slots, counters
  <1>2. ASSUME NEW g PROVE FrameOk(g)' <=> FrameOk(g)
    BY <1>1 DEF FrameOk, Reached, Raised, Halfway
  <1>3. ASSUME NEW g, g = handle(s) PROVE FrameOk(g)
    <2>1. g.sig = s /\ g.slot = 0 /\ g.phase = 1
      BY <1>3 DEF handle
    <2>2. Reached(g) /\ Raised(g) = {}
      BY <2>1 DEF Reached, Raised, Slots
    <2>3. ASSUME s = SIGUSR2 PROVE \E r \in Nat : Halfway(g, r)
      <3>1. \A u \in Threads : \A j \in 1..Len(frames[u]) : frames[u][j].sig # SIGUSR2
        BY <1>1, <2>3 DEF RoundInv, AloneInv, Measures
      <3>2. \A v, w \in Workers : round[v] = round[w]
        BY <3>1, RunsSomewhere DEF RoundInv, RoundsAgree
      <3>3. CASE Workers = {}
        BY <2>1, <3>3, 0 \in Nat DEF Halfway
      <3>4. CASE Workers # {}
        <4>1. PICK v \in Workers : TRUE
          BY <3>4
        <4>2. round[v] \in Nat
          BY DEF TypeOK, CounterTypes
        <4>3. Halfway(g, round[v])
          BY <2>1, <2>2, <3>2 DEF Halfway
        <4> QED  BY <4>2, <4>3
      <3> QED  BY <3>3, <3>4
    <2> QED  BY <2>1, <2>2, <2>3 DEF FrameOk
  <1>4. ASSUME NEW u \in Threads, NEW j \in 1..Len(frames'[u]), NEW g, g = frames'[u][j]
        PROVE  FrameOk(g)'
    <2>1. CASE g = handle(s)
      BY <1>2, <1>3, <2>1
    <2>2. CASE j \in 1..Len(frames[u]) /\ g = frames[u][j]
      BY <1>2, <2>2 DEF RoundInv, FramesInv
    <2> QED  BY <1>4, <2>1, <2>2, FrameArrives
  <1>5. FramesInv'
    BY <1>4, FramesNext
  <1>6. FreshInv'
    BY <1>1 DEF RoundInv, FreshInv, Provisioned
  <1>7. RoundsAgree'
    <2>1. TypeOK'
      BY HandleType, DeliverFrames DEF Deliver, process, slots, counters, history,
         TypeOK, ControlTypes, SlotTypes, CounterTypes
    <2>2. HandlerRuns(SIGUSR2) => HandlerRuns(SIGUSR2)'
      <3>1. ASSUME NEW u \in Threads, NEW j \in 1..Len(frames[u]), frames[u][j].sig = SIGUSR2
            PROVE  j \in 1..Len(frames'[u]) /\ frames'[u][j].sig = SIGUSR2
        <4>1. Len(frames[u]) \in Nat
          BY DEF TypeOK, ControlTypes
        <4> QED  BY <3>1, <4>1, FrameArrives
      <3>2. \A u \in Threads : DOMAIN frames'[u] = 1..Len(frames'[u])
        BY <2>1 DEF TypeOK, ControlTypes
      <3> QED  BY <3>1, <3>2, RunsSomewhere DEF HandlerRuns
    <2> QED  BY <1>1, <2>2 DEF RoundInv, RoundsAgree
  <1> QED  BY <1>5, <1>6, <1>7 DEF RoundInv

\* A SIGUSR2 handler ends in its phase "mark" only.
LEMMA MoveRuns ==
  ASSUME TypeOK, NEW t \in Threads, NEW held \in Held, NEW phase,
         InHandler(t, phase), Advance(t, held), phase # "mark" \/ ~Returns(t)
  PROVE  HandlerRuns(SIGUSR2) => HandlerRuns(SIGUSR2)'
  <1> SUFFICES ASSUME NEW u \in Threads, NEW j \in 1..Len(frames[u]), frames[u][j].sig = SIGUSR2
               PROVE  HandlerRuns(SIGUSR2)'
    BY RunsSomewhere
  <1>1. /\ frames \in [Threads -> Seq(Frame)] /\ frames[t] # <<>>
    BY HandlerTarget DEF TypeOK, ControlTypes
  <1>2. frames' \in [Threads -> Seq(Frame)]
    BY <1>1, AdvanceFrames
  <1>3. ~(u = t /\ j = Len(frames[t]) /\ Returns(t))
    <2> SUFFICES ASSUME u = t, j = Len(frames[t]), Returns(t) PROVE FALSE
      OBVIOUS
    <2>1. Top(t) \in Frame /\ Top(t).sig = SIGUSR2 /\ Phases(Top(t).sig)[Top(t).phase] = phase
      BY FrameMoves
    <2>2. LastPhase(Top(t)) /\ Measures(SIGUSR2) /\ SIGUSR2 # SIGUSR1 /\ SIGUSR2 # SIGINT
      BY DEF Returns, Measures, SIGUSR1, SIGUSR2, SIGINT
    <2>3. phase = "mark"
      <3>1. Phases(SIGUSR2) = <<"round", "bump", "count", "mark">>
        BY DEF Phases, SIGUSR1, SIGUSR2, SIGINT
      <3>2. Top(t).phase = 4
        BY <2>1, <2>2, <3>1 DEF LastPhase
      <3> QED  BY <2>1, <3>1, <3>2
    <2> QED  BY <2>3
  <1>4. j \in 1..Len(frames'[u]) /\ frames'[u][j].sig = SIGUSR2
    BY <1>3, FrameMoves
  <1>5. DOMAIN frames'[u] = 1..Len(frames'[u])
    BY <1>2
  <1> QED  BY <1>4, <1>5 DEF HandlerRuns

\* A step of a handler that raises no round: the other frames stay as they are.
LEMMA MoveRounds ==
  ASSUME TypeOK, RoundInv, AloneInv', NEW t \in Threads, NEW held \in Held, NEW phase,
         InHandler(t, phase), Advance(t, held), UNCHANGED <<thread_args, pc, round>>,
         phase # "mark",
         \A g : /\ g.sig = Top(t).sig /\ g.held = held
                /\ g.slot = (IF LastPhase(Top(t)) THEN Top(t).slot + 1 ELSE Top(t).slot)
                /\ g.phase = (IF LastPhase(Top(t)) THEN 1 ELSE Top(t).phase + 1)
                => FrameOk(g)
  PROVE  RoundInv'
  <1>1. ASSUME NEW g PROVE FrameOk(g)' <=> FrameOk(g)
    BY DEF FrameOk, Reached, Raised, Halfway
  <1>2. ASSUME NEW u \in Threads, NEW j \in 1..Len(frames'[u]), NEW g, g = frames'[u][j]
        PROVE  FrameOk(g)'
    <2>1. CASE u = t /\ j = Len(frames[t])
      <3>1. FrameOk(g)
        BY <1>2, <2>1, FrameMoves
      <3> QED  BY <1>1, <3>1
    <2>2. CASE ~(u = t /\ j = Len(frames[t]))
      <3>1. j \in 1..Len(frames[u]) /\ g = frames[u][j]
        BY <1>2, <2>2, FrameMoves
      <3> QED  BY <1>1, <3>1 DEF RoundInv, FramesInv
    <2> QED  BY <2>1, <2>2
  <1>3. FramesInv'
    BY <1>2, FramesNext
  <1>4. FreshInv'
    BY DEF RoundInv, FreshInv, Provisioned
  <1>5. HandlerRuns(SIGUSR2) => HandlerRuns(SIGUSR2)'
    BY MoveRuns
  <1>6. RoundsAgree'
    BY <1>5 DEF RoundInv, RoundsAgree
  <1> QED  BY <1>3, <1>4, <1>6 DEF RoundInv

\* The frame on top of a thread's stack.
LEMMA TopOk ==
  ASSUME TypeOK, RoundInv, NEW t \in Threads, NEW phase, InHandler(t, phase)
  PROVE  /\ Top(t) \in Frame /\ Top(t).slot \in Slots /\ FrameOk(Top(t))
         /\ Phases(Top(t).sig)[Top(t).phase] = phase
         /\ Target(t) = thread_args[Top(t).slot] /\ Target(t) # NoArgs
         /\ Target(t) \in Workers
  <1>1. frames[t] # <<>> /\ frames \in [Threads -> Seq(Frame)]
    BY HandlerTarget DEF TypeOK, ControlTypes
  <1>2. Len(frames[t]) \in 1..Len(frames[t])
    BY <1>1, TopType
  <1> QED  BY <1>1, <1>2, HandlerTarget DEF InHandler, At, Target, Top, RoundInv, FramesInv

\* A worker sits in one slot.
LEMMA OneSlot ==
  ASSUME TypeOK, OwnInv, NEW i \in Slots, NEW k \in Slots,
         thread_args[i] # NoArgs, thread_args[i] = thread_args[k]
  PROVE  i = k
  BY DEF OwnInv, SlotInv

\* A SIGUSR2 handler reads the round that its worker had when it began.
LEMMA ReadHalfway ==
  ASSUME TypeOK, OwnInv, RoundInv, NEW t \in Threads, ReadRound(t),
         NEW r \in Nat, Halfway(Top(t), r),
         NEW g, g.held = Load(t, "round"), g.slot = Top(t).slot, g.phase = 2
  PROVE  Halfway(g, r)'
  <1> DEFINE f == Top(t)
             w == Target(t)
  <1>1. InHandler(t, "round") /\ UNCHANGED <<thread_args, round>>
    BY DEF ReadRound, slots, counters
  <1>2. /\ f.slot \in Slots /\ w = thread_args[f.slot] /\ w \in Workers /\ w # NoArgs
        /\ f.phase = 1
    BY <1>1, TopOk, PhaseTable
  <1>3. Halfway(f, r) /\ g.held["round"] = round[w] /\ g.slot = f.slot
    BY <1>1, LoadType DEF Fields, Field
  <1> HIDE DEF f, w
  <1>4. Raised(g)' = Raised(f)
    BY <1>1, <1>2, <1>3 DEF Raised
  <1>5. w \notin Raised(f)
    <2> SUFFICES ASSUME NEW k \in Slots, thread_args[k] = w, k < f.slot PROVE FALSE
      BY <1>2 DEF Raised
    <2>1. k = f.slot
      BY <1>2, OneSlot
    <2> QED  BY <1>2, <2>1 DEF Slots
  <1>6. round[w] = r
    BY <1>2, <1>3, <1>5 DEF Halfway
  <1> QED  BY <1>1, <1>3, <1>4, <1>6 DEF Halfway

\* A SIGUSR2 handler reads the round of its worker into its frame.
LEMMA ReadRounds ==
  ASSUME TypeOK, OwnInv, RoundInv, AloneInv', NEW t \in Threads, ReadRound(t)
  PROVE  RoundInv'
  <1> DEFINE f == Top(t)
             held == Load(t, "round")
  <1>1. InHandler(t, "round") /\ Advance(t, held) /\ UNCHANGED <<thread_args, pc, round>>
    BY DEF ReadRound, slots, counters
  <1>2. /\ f \in Frame /\ f.slot \in Slots /\ FrameOk(f) /\ thread_args[f.slot] # NoArgs
        /\ f.sig = SIGUSR2 /\ f.phase = 1 /\ ~LastPhase(f) /\ Measures(f.sig)
    BY <1>1, TopOk, PhaseTable DEF Measures
  <1>3. held \in Held
    BY <1>1, LoadType DEF Fields
  <1> HIDE DEF f, held
  <1>4. ASSUME NEW g, g.sig = f.sig, g.held = held, g.slot = f.slot, g.phase = 2
        PROVE  FrameOk(g)
    <2>1. Reached(g)
      BY <1>2, <1>4 DEF FrameOk, Reached
    <2>2. \E r \in Nat : Halfway(g, r)
      <3>1. PICK r \in Nat : Halfway(f, r)
        BY <1>2 DEF FrameOk
      <3>2. Halfway(g, r)'
        BY <1>4, <3>1, ReadHalfway DEF f, held
      <3> QED  BY <1>1, <3>2 DEF Halfway, Raised
    <2> QED  BY <1>2, <1>4, <2>1, <2>2 DEF FrameOk
  <1>5. ASSUME NEW g, /\ g.sig = Top(t).sig /\ g.held = held
                      /\ g.slot = (IF LastPhase(Top(t)) THEN Top(t).slot + 1 ELSE Top(t).slot)
                      /\ g.phase = (IF LastPhase(Top(t)) THEN 1 ELSE Top(t).phase + 1)
        PROVE  FrameOk(g)
    BY <1>2, <1>4, <1>5 DEF f
  <1> QED  BY <1>1, <1>3, <1>5, MoveRounds

\* Reading the fields of a row, or the counter to be marked, changes no round.
LEMMA LoadRounds ==
  ASSUME TypeOK, OwnInv, RoundInv, AloneInv', NEW t \in Threads,
         ReadField(t) \/ ReadCounter(t)
  PROVE  RoundInv'
  <1> DEFINE f == Top(t)
  <1>1. PICK x \in Fields : \E phase \in {"row", "count"} :
          InHandler(t, phase) /\ Advance(t, Load(t, x))
    BY NextField DEF ReadField, ReadCounter, Fields
  <1>2. PICK phase \in {"row", "count"} : InHandler(t, phase) /\ Advance(t, Load(t, x))
    BY <1>1
  <1>3. UNCHANGED <<thread_args, pc, round>> /\ Load(t, x) \in Held
    BY <1>2, LoadType DEF ReadField, ReadCounter, slots, counters
  <1>4. /\ f \in Frame /\ f.slot \in Slots /\ FrameOk(f) /\ thread_args[f.slot] # NoArgs
        /\ ~LastPhase(f) /\ Measures(f.sig) /\ f.phase \in 1..3
        /\ f.sig = SIGUSR2 => f.phase = 3
    BY <1>2, TopOk, PhaseTable DEF Measures, SIGUSR1, SIGUSR2
  <1> HIDE DEF f
  <1>5. ASSUME NEW g, g.sig = f.sig, g.slot = f.slot, g.phase = f.phase + 1
        PROVE  FrameOk(g)
    <2>1. Reached(g)
      BY <1>4, <1>5 DEF FrameOk, Reached
    <2>2. ASSUME f.sig = SIGUSR2 PROVE \E r \in Nat : Halfway(g, r)
      <3>1. PICK r \in Nat : Halfway(f, r)
        BY <1>4, <2>2 DEF FrameOk
      <3>2. Raised(g) = Raised(f) /\ g.phase = 4
        BY <1>4, <1>5, <2>2 DEF Raised
      <3> QED  BY <3>1, <3>2 DEF Halfway
    <2> QED  BY <1>5, <2>1, <2>2 DEF FrameOk
  <1>6. ASSUME NEW g, /\ g.sig = Top(t).sig /\ g.held = Load(t, x)
                      /\ g.slot = (IF LastPhase(Top(t)) THEN Top(t).slot + 1 ELSE Top(t).slot)
                      /\ g.phase = (IF LastPhase(Top(t)) THEN 1 ELSE Top(t).phase + 1)
        PROVE  FrameOk(g)
    BY <1>4, <1>5, <1>6 DEF f
  <1>7. phase # "mark"
    OBVIOUS
  <1> QED  BY <1>2, <1>3, <1>6, <1>7, MoveRounds

\* Printing a row changes no round.
LEMMA PrintRounds ==
  ASSUME TypeOK, OwnInv, RoundInv, AloneInv', NEW t \in Threads, PrintRow(t) \/ StopWorker(t)
  PROVE  RoundInv'
  <1> DEFINE f == Top(t)
  <1>1. PICK phase \in {"print", "stop"} : InHandler(t, phase)
    BY DEF PrintRow, StopWorker
  <1>2. Advance(t, Nothing) /\ UNCHANGED <<thread_args, pc, round>>
    BY DEF PrintRow, StopWorker, slots, counters
  <1>3. /\ f \in Frame /\ f.slot \in Slots /\ FrameOk(f) /\ thread_args[f.slot] # NoArgs
        /\ f.sig # SIGUSR2 /\ LastPhase(f)
    BY <1>1, TopOk, PhaseTable DEF SIGUSR1, SIGUSR2, SIGINT
  <1> HIDE DEF f
  <1>4. ASSUME NEW g, g.sig = f.sig, g.held = Nothing, g.slot = f.slot + 1, g.phase = 1
        PROVE  FrameOk(g)
    <2>1. Measures(g.sig) => Reached(g)
      BY <1>3, <1>4 DEF FrameOk, Reached, Slots
    <2> QED  BY <1>3, <1>4, <2>1 DEF FrameOk
  <1>5. ASSUME NEW g, /\ g.sig = Top(t).sig /\ g.held = Nothing
                      /\ g.slot = (IF LastPhase(Top(t)) THEN Top(t).slot + 1 ELSE Top(t).slot)
                      /\ g.phase = (IF LastPhase(Top(t)) THEN 1 ELSE Top(t).phase + 1)
        PROVE  FrameOk(g)
    BY <1>3, <1>4, <1>5 DEF f
  <1> QED  BY <1>1, <1>2, <1>5, NothingHeld, MoveRounds

\* Another frame than that of the handler that works on the rounds.
LEMMA OtherFrames ==
  ASSUME TypeOK, RoundInv, NEW t \in Threads, NEW held \in Held, NEW phase,
         InHandler(t, phase), Advance(t, held), Measures(Top(t).sig),
         NEW u \in Threads, NEW j \in 1..Len(frames'[u]), ~(u = t /\ j = Len(frames[t]))
  PROVE  ~Measures(frames'[u][j].sig)
  <1>1. /\ j \in 1..Len(frames[u]) /\ frames'[u][j] = frames[u][j]
        /\ Len(frames[t]) \in 1..Len(frames[t]) /\ Top(t) = frames[t][Len(frames[t])]
    BY FrameMoves
  <1> QED  BY <1>1 DEF RoundInv, AloneInv

\* It raises the round of the worker of its slot.
LEMMA BumpHalfway ==
  ASSUME TypeOK, RoundInv, NEW t \in Threads, BumpRound(t),
         NEW r \in Nat, Halfway(Top(t), r),
         NEW g, g.slot = Top(t).slot, g.phase = 3
  PROVE  /\ Halfway(g, r)'
         /\ \A v \in Workers : v # Target(t) => round'[v] = round[v]
  <1> DEFINE f == Top(t)
             w == Target(t)
  <1>1. /\ InHandler(t, "bump") /\ UNCHANGED thread_args
        /\ round' = [round EXCEPT ![w] = f.held["round"] + 1]
    BY DEF BumpRound, slots
  <1>2. /\ f.slot \in Slots /\ w = thread_args[f.slot] /\ w \in Workers /\ f.phase = 2
    BY <1>1, TopOk, PhaseTable
  <1>3. Halfway(f, r) /\ g.slot = f.slot
    OBVIOUS
  <1>4. \A v \in Workers : round'[v] = IF v = w THEN r + 1 ELSE round[v]
    BY <1>1, <1>2, <1>3 DEF Halfway, TypeOK, CounterTypes
  <1>5. ASSUME NEW v \in Workers
        PROVE  v \in Raised(g)' <=> v \in Raised(f) \/ v = w
    <2>1. v \in Raised(g)' <=> \E k \in Slots : thread_args[k] = v /\ (k < f.slot \/ k = f.slot)
      BY <1>1, <1>3 DEF Raised
    <2>2. v \in Raised(f) <=> \E k \in Slots : thread_args[k] = v /\ k < f.slot
      BY <1>2 DEF Raised
    <2> QED  BY <1>2, <2>1, <2>2
  <1> HIDE DEF f, w
  <1>6. Halfway(g, r)'
    BY <1>3, <1>4, <1>5 DEF Halfway
  <1> QED  BY <1>4, <1>6 DEF w

\* Raising one round keeps the handler halfway through the slots.
LEMMA BumpRounds ==
  ASSUME TypeOK, OwnInv, RoundInv, AloneInv', NEW t \in Threads, BumpRound(t)
  PROVE  RoundInv'
  <1> DEFINE f == Top(t)
             w == Target(t)
  <1>1. /\ InHandler(t, "bump") /\ Advance(t, Nothing) /\ UNCHANGED <<thread_args, pc>>
        /\ round' = [round EXCEPT ![w] = f.held["round"] + 1]
    BY DEF BumpRound, slots
  <1>2. /\ f \in Frame /\ f.slot \in Slots /\ FrameOk(f) /\ w = thread_args[f.slot]
        /\ w \in Workers /\ w # NoArgs
        /\ f.sig = SIGUSR2 /\ f.phase = 2 /\ ~LastPhase(f) /\ Measures(f.sig)
    BY <1>1, TopOk, PhaseTable DEF Measures
  <1>3. PICK r \in Nat : Halfway(f, r)
    BY <1>2 DEF FrameOk
  <1>5. ASSUME NEW u \in Threads, NEW j \in 1..Len(frames'[u]), NEW g, g = frames'[u][j]
        PROVE  FrameOk(g)'
    <2>1. CASE u = t /\ j = Len(frames[t])
      <3>1. g.sig = f.sig /\ g.slot = f.slot /\ g.phase = 3
        BY <1>1, <1>2, <1>5, <2>1, FrameMoves, NothingHeld
      <3>2. Reached(g)'
        BY <1>1, <1>2, <3>1 DEF FrameOk, Reached
      <3>4. Halfway(g, r)'
        BY <1>3, <3>1, BumpHalfway
      <3> QED  BY <1>2, <3>1, <3>2, <3>4 DEF FrameOk, SIGUSR1, SIGUSR2
    <2>2. CASE ~(u = t /\ j = Len(frames[t]))
      <3>1. ~Measures(g.sig)
        BY <1>1, <1>2, <1>5, <2>2, OtherFrames, NothingHeld
      <3> QED  BY <3>1 DEF FrameOk, Measures
    <2> QED  BY <2>1, <2>2
  <1>6. FramesInv'
    BY <1>5, FramesNext
  <1>7. FreshInv'
    <2>1. Provisioned(w)
      BY <1>2 DEF OwnInv, SlotInv
    <2>2. \A v \in Workers : v # w => round'[v] = round[v]
      <3> DEFINE g == [slot |-> f.slot, phase |-> 3]
      <3>1. g.slot = f.slot /\ g.phase = 3
        OBVIOUS
      <3> HIDE DEF g
      <3> QED  BY <1>3, <3>1, BumpHalfway
    <2> HIDE DEF w
    <2> QED  BY <1>1, <2>1, <2>2 DEF RoundInv, FreshInv, Provisioned
  <1>8. HandlerRuns(SIGUSR2)'
    <2>1. /\ frames \in [Threads -> Seq(Frame)] /\ frames[t] # <<>>
      BY <1>1, HandlerTarget DEF TypeOK, ControlTypes
    <2>2. HandlerRuns(SIGUSR2)
      <3>1. Len(frames[t]) \in 1..Len(frames[t]) /\ f = frames[t][Len(frames[t])]
        BY <1>1, FrameMoves, NothingHeld
      <3> QED  BY <1>2, <3>1, RunsSomewhere
    <2> QED  BY <1>1, <2>2, MoveRuns, NothingHeld
  <1>9. RoundsAgree'
    BY <1>8 DEF RoundsAgree
  <1> QED  BY <1>6, <1>7, <1>9 DEF RoundInv

\* The handler leaves a slot, or ends: then it has raised every worker's round.
LEMMA MarkHalfway ==
  ASSUME TypeOK, OwnInv, RoundInv, NEW t \in Threads, MarkCounter(t),
         NEW r \in Nat, Halfway(Top(t), r)
  PROVE  /\ \A g : g.slot = Top(t).slot + 1 /\ g.phase = 1 => Halfway(g, r)'
         /\ Returns(t) => \A w \in Workers : round'[w] = r + 1
  <1> DEFINE f == Top(t)
  <1>1. InHandler(t, "mark") /\ UNCHANGED <<thread_args, round>>
    BY DEF MarkCounter, slots
  <1>2. /\ f \in Frame /\ f.slot \in Slots /\ FrameOk(f) /\ thread_args[f.slot] # NoArgs
        /\ f.phase = 4 /\ Measures(f.sig)
    BY <1>1, TopOk, PhaseTable DEF Measures
  <1>3. Halfway(f, r)
    OBVIOUS
  <1>4. Returns(t) => f.slot + 1 = nprocs
    BY DEF Returns
  <1> HIDE DEF f
  <1>5. ASSUME NEW g, g.slot = f.slot + 1, g.phase = 1 PROVE Halfway(g, r)'
    <2>1. \A k \in Slots : k < f.slot + 1 <=> (k < f.slot \/ k = f.slot)
      BY <1>2 DEF Slots
    <2>2. Raised(g)' = Raised(f)
      BY <1>1, <1>2, <1>5, <2>1 DEF Raised
    <2> QED  BY <1>1, <1>3, <1>5, <2>2 DEF Halfway
  <1>6. ASSUME Returns(t), NEW w \in Workers PROVE round'[w] = r + 1
    <2>1. \A k \in Slots : k < f.slot \/ k = f.slot
      BY <1>2, <1>4, <1>6 DEF Slots
    <2>2. \A k \in Slots : thread_args[k] # NoArgs
      BY <1>2, <2>1 DEF FrameOk, Reached
    <2>3. w \in Raised(f)
      BY <1>2, <2>1, <2>2, FullTable DEF Raised
    <2> QED  BY <1>1, <1>3, <2>3 DEF Halfway
  <1> QED  BY <1>5, <1>6 DEF f

\* The mark ends a handler that has raised every round.
LEMMA MarkRounds ==
  ASSUME TypeOK, OwnInv, RoundInv, AloneInv', NEW t \in Threads, MarkCounter(t)
  PROVE  RoundInv'
  <1> DEFINE f == Top(t)
  <1>1. /\ InHandler(t, "mark") /\ Advance(t, Nothing) /\ UNCHANGED <<thread_args, pc, round>>
    BY DEF MarkCounter, slots
  <1>2. /\ f \in Frame /\ f.slot \in Slots /\ FrameOk(f) /\ thread_args[f.slot] # NoArgs
        /\ f.sig = SIGUSR2 /\ f.phase = 4 /\ LastPhase(f) /\ Measures(f.sig)
    BY <1>1, TopOk, PhaseTable DEF Measures
  <1>3. PICK r \in Nat : Halfway(f, r)
    BY <1>2 DEF FrameOk
  <1>4. Reached(f)
    BY <1>2 DEF FrameOk
  <1>5. ASSUME NEW u \in Threads, NEW j \in 1..Len(frames'[u]), NEW g, g = frames'[u][j]
        PROVE  FrameOk(g)'
    <2>1. CASE u = t /\ j = Len(frames[t])
      <3>1. g.sig = f.sig /\ g.slot = f.slot + 1 /\ g.phase = 1
        BY <1>1, <1>2, <1>5, <2>1, FrameMoves, NothingHeld
      <3> HIDE DEF f
      <3>2. Reached(g)'
        BY <1>1, <1>2, <1>4, <3>1 DEF Reached, Slots
      <3>4. Halfway(g, r)'
        BY <1>3, <3>1, MarkHalfway DEF f
      <3> QED  BY <1>2, <3>1, <3>2, <3>4 DEF FrameOk, SIGUSR1, SIGUSR2
    <2>2. CASE ~(u = t /\ j = Len(frames[t]))
      <3>1. ~Measures(g.sig)
        BY <1>1, <1>2, <1>5, <2>2, OtherFrames, NothingHeld
      <3> QED  BY <3>1 DEF FrameOk, Measures
    <2> QED  BY <2>1, <2>2
  <1>6. FramesInv'
    BY <1>5, FramesNext
  <1>7. FreshInv'
    BY <1>1 DEF RoundInv, FreshInv, Provisioned
  <1>8. RoundsAgree'
    <2>1. CASE Returns(t)
      <3>1. \A w \in Workers : round'[w] = r + 1
        BY <1>3, <2>1, MarkHalfway
      <3> QED  BY <3>1 DEF RoundsAgree
    <2>2. CASE ~Returns(t)
      <3>1. HandlerRuns(SIGUSR2)
        <4>1. Len(frames[t]) \in 1..Len(frames[t]) /\ f = frames[t][Len(frames[t])]
          BY <1>1, FrameMoves, NothingHeld
        <4> QED  BY <1>2, <4>1, RunsSomewhere
      <3>2. HandlerRuns(SIGUSR2)'
        BY <1>1, <2>2, <3>1, MoveRuns, NothingHeld
      <3> QED  BY <3>2 DEF RoundsAgree
    <2> QED  BY <2>1, <2>2
  <1> QED  BY <1>6, <1>7, <1>8 DEF RoundInv

\* The invariant of the rounds is inductive.
LEMMA NextRounds ==
  ASSUME Patient, TypeOK, OwnInv, RoundInv, [Next]_vars
  PROVE  RoundInv'
  <1> USE DEF process, signals, slots, counters, history
  <1>0. AloneInv'
    BY NextAlone DEF RoundInv
  <1>1. ASSUME UNCHANGED <<frames, thread_args, round, pc>>
        PROVE  RoundInv'
    BY <1>0, <1>1, KeepRounds DEF Provisioned
  <1>2. CASE MainStep
    BY <1>1, <1>2 DEF MainStep, Spawn, InstallNext, Announce, Goodbye
  <1>3. ASSUME NEW w \in Workers, Claim(w) \/ Search(w) \/ Check(w) PROVE RoundInv'
    <2>1. UNCHANGED <<frames, thread_args, round>>
      BY <1>3 DEF Claim, Search, Check
    <2>2. \A v \in Workers : Provisioned(v) => Provisioned(v)'
      BY <1>3 DEF Claim, Search, Check, Provisioned, TypeOK, SlotTypes
    <2> QED  BY <1>0, <2>1, <2>2, KeepRounds
  <1>4. ASSUME NEW w \in Workers, Publish(w) PROVE RoundInv'
    BY <1>0, <1>4, PublishRounds
  <1>5. ASSUME NEW s \in Signals, Send(s) \/ DefaultAction(s) PROVE RoundInv'
    BY <1>1, <1>5 DEF Send, DefaultAction
  <1>6. ASSUME NEW s \in Signals, NEW t \in Threads, Deliver(s, t) PROVE RoundInv'
    BY <1>0, <1>6, DeliverRounds
  <1>7. ASSUME NEW t \in Threads, HandlerStep(t) PROVE RoundInv'
    <2>1. CASE NullDereference(t)
      BY <1>1, <2>1 DEF NullDereference
    <2> QED  BY <1>0, <1>7, <2>1, ReadRounds, LoadRounds, BumpRounds, MarkRounds, PrintRounds
             DEF HandlerStep
  <1>8. CASE UNCHANGED vars
    BY <1>1, <1>8 DEF vars
  <1> QED  BY <1>2, <1>3, <1>4, <1>5, <1>6, <1>7, <1>8 DEF Next, KernelStep, WorkerStep

\* Between two resets all workers are in the same round (main.cpp:33 to 45), if
\* the sender lets a handler finish before it sends the next signal.
THEOREM RowsOfOneRound ==
  ASSUME Patient
  PROVE  Spec => []RoundsAgree
  <1>1. Spec => [](TypeOK /\ OwnInv /\ RoundInv)
    BY InitTypeOwn, NextTypeOwn, InitRounds, NextRounds, PTL DEF Spec
  <1>2. RoundInv => RoundsAgree
    BY DEF RoundInv
  <1> QED  BY <1>1, <1>2, PTL

-----------------------------------------------------------------------------
\* What a handler holds of its slot belongs together: what a row has loaded is
\* of the worker's current round, and a counter read for the mark can only have
\* grown since.
RowOk(f) ==
  LET w == thread_args[f.slot]
  IN  /\ f.sig = SIGUSR1 => \A k \in 1..(f.phase - 1) :
           /\ LoadOrder[k] = "round" => f.held["round"] = round[w]
           /\ LoadOrder[k] = "prev_ctr" => f.held["prev_ctr"] = prev_ctr[w]
           /\ LoadOrder[k] = "ctr" => prev_ctr[w] <= f.held["ctr"]
      /\ f.sig = SIGUSR2 /\ f.phase = 4 => f.held["ctr"] <= ctr[w]

\* A counter never falls behind the mark that the last reset has set.
MarkInv == \A w \in Workers : prev_ctr[w] <= ctr[w]
HeldInv == \A t \in Threads : \A j \in 1..Len(frames[t]) : RowOk(frames[t][j])
RowInv == MarkInv /\ HeldInv

\* What is to be shown of the frames after a step.
LEMMA HeldNext ==
  ASSUME \A u \in Threads : \A j \in 1..Len(frames'[u]) : \A g : g = frames'[u][j] => RowOk(g)'
  PROVE  HeldInv'
  <1> SUFFICES ASSUME NEW u \in Threads, NEW j \in 1..Len(frames'[u])
               PROVE  RowOk(frames[u][j])'
    BY DEF HeldInv
  <1>1. PICK g : g = frames'[u][j]
    OBVIOUS
  <1>2. RowOk(g)'
    BY <1>1
  <1> QED  BY <1>1, <1>2 DEF RowOk

\* At the start no handler runs and all counters are 0.
LEMMA InitRow == Init => RowInv
  <1> SUFFICES ASSUME Init PROVE RowInv
    OBVIOUS
  <1>1. \A t \in Threads : Len(frames[t]) = 0
    BY EmptySeq DEF Init
  <1> QED  BY <1>1 DEF Init, RowInv, MarkInv, HeldInv

\* Steps that touch neither handlers nor slots nor counters.
LEMMA KeepRow ==
  ASSUME RowInv, UNCHANGED <<frames, thread_args, round, ctr, prev_ctr>>
  PROVE  RowInv'
  <1>1. \A g : RowOk(g)' <=> RowOk(g)
    BY DEF RowOk
  <1>2. HeldInv'
    BY <1>1, HeldNext DEF RowInv, HeldInv
  <1> QED  BY <1>2 DEF RowInv, MarkInv

\* A handler that measures has nothing in hand when it comes to a slot, and one
\* that does not is of no interest.
LEMMA EmptyHanded ==
  ASSUME NEW g, g.phase = 1 \/ ~Measures(g.sig)
  PROVE  RowOk(g) /\ RowOk(g)'
  BY DEF RowOk, Measures

\* A worker is published in a slot that no handler is at.
LEMMA PublishRow ==
  ASSUME TypeOK, OwnInv, RoundInv, RowInv, NEW w \in Workers, Publish(w)
  PROVE  RowInv'
  <1>1. /\ UNCHANGED frames
        /\ thread_args' = [thread_args EXCEPT ![id[w]] = w]
        /\ round' = [round EXCEPT ![w] = 0]
        /\ prev_ctr' = [prev_ctr EXCEPT ![w] = 0]
        /\ ctr' = [ctr EXCEPT ![w] = 0]
    BY DEF Publish
  <1>2. /\ id[w] \in Slots
        /\ \A i \in Slots : thread_args[i] # NoArgs => i # id[w] /\ thread_args[i] # w
    BY PublishesEmptySlot
  <1>3. MarkInv'
    BY <1>1 DEF RowInv, MarkInv, TypeOK, CounterTypes
  <1>4. ASSUME NEW u \in Threads, NEW j \in 1..Len(frames[u]), NEW g, g = frames[u][j]
        PROVE  RowOk(g)'
    <2>1. g \in Frame /\ FrameOk(g) /\ RowOk(g)
      BY <1>4, ElementOfSeq DEF TypeOK, ControlTypes, RoundInv, FramesInv, RowInv, HeldInv
    <2>2. CASE g.phase = 1 \/ ~Measures(g.sig)
      BY <2>2, EmptyHanded
    <2>3. CASE g.phase # 1 /\ Measures(g.sig)
      <3> DEFINE v == thread_args[g.slot]
      <3>1. g.slot \in Slots /\ v # NoArgs
        BY <2>1, <2>3 DEF FrameOk, Reached, Frame
      <3>2. v # w /\ thread_args'[g.slot] = v /\ v \in Workers
        BY <1>1, <1>2, <3>1 DEF TypeOK, SlotTypes
      <3>3. round'[v] = round[v] /\ prev_ctr'[v] = prev_ctr[v] /\ ctr'[v] = ctr[v]
        BY <1>1, <3>2 DEF TypeOK, CounterTypes
      <3> QED  BY <2>1, <3>2, <3>3 DEF RowOk
    <2> QED  BY <2>2, <2>3
  <1>5. HeldInv'
    BY <1>1, <1>4, HeldNext
  <1> QED  BY <1>3, <1>5 DEF RowInv

\* A search lets its worker's counter grow.
LEMMA SearchRow ==
  ASSUME TypeOK, OwnInv, RoundInv, RowInv, NEW w \in Workers, Search(w)
  PROVE  RowInv'
  <1>1. UNCHANGED <<frames, thread_args, round, prev_ctr>>
    BY DEF Search, slots
  <1>2. \A v \in Workers : ctr[v] <= ctr'[v] /\ ctr[v] \in Nat /\ ctr'[v] \in Nat
    BY DEF Search, TypeOK, CounterTypes
  <1>3. MarkInv'
    BY <1>1, <1>2 DEF RowInv, MarkInv, TypeOK, CounterTypes
  <1>4. ASSUME NEW u \in Threads, NEW j \in 1..Len(frames[u]), NEW g, g = frames[u][j]
        PROVE  RowOk(g)'
    <2>1. g \in Frame /\ FrameOk(g) /\ RowOk(g)
      BY <1>4, ElementOfSeq DEF TypeOK, ControlTypes, RoundInv, FramesInv, RowInv, HeldInv
    <2>2. CASE g.phase = 1 \/ ~Measures(g.sig)
      BY <2>2, EmptyHanded
    <2>3. CASE g.phase # 1 /\ Measures(g.sig)
      <3>1. thread_args[g.slot] \in Workers /\ g.held["ctr"] \in Nat
        BY <2>1, <2>3 DEF FrameOk, Reached, Frame, Held, Fields, TypeOK, SlotTypes
      <3> QED  BY <1>1, <1>2, <2>1, <3>1 DEF RowOk
    <2> QED  BY <2>2, <2>3
  <1>5. HeldInv'
    BY <1>1, <1>4, HeldNext
  <1> QED  BY <1>3, <1>5 DEF RowInv

\* A handler begins with nothing in hand.
LEMMA DeliverRow ==
  ASSUME TypeOK, RowInv, NEW s \in Signals, NEW t \in Threads, Deliver(s, t)
  PROVE  RowInv'
  <1>1. UNCHANGED <<thread_args, round, ctr, prev_ctr>>
    BY DEF Deliver, slots, counters
  <1>2. ASSUME NEW u \in Threads, NEW j \in 1..Len(frames'[u]), NEW g, g = frames'[u][j]
        PROVE  RowOk(g)'
    <2>1. CASE g = handle(s)
      <3>1. g.phase = 1
        BY <2>1 DEF handle
      <3> QED  BY <3>1, EmptyHanded
    <2>2. CASE j \in 1..Len(frames[u]) /\ g = frames[u][j]
      <3>1. RowOk(g)
        BY <2>2 DEF RowInv, HeldInv
      <3> QED  BY <1>1, <3>1 DEF RowOk
    <2> QED  BY <1>2, <2>1, <2>2, FrameArrives
  <1>3. HeldInv'
    BY <1>2, HeldNext
  <1> QED  BY <1>1, <1>3 DEF RowInv, MarkInv

\* A handler that measures moves alone.
LEMMA MeasureRow ==
  ASSUME TypeOK, RoundInv, NEW t \in Threads, NEW held \in Held, NEW phase,
         InHandler(t, phase), Advance(t, held), Measures(Top(t).sig), MarkInv',
         \A g : /\ g.sig = Top(t).sig /\ g.held = held
                /\ g.slot = (IF LastPhase(Top(t)) THEN Top(t).slot + 1 ELSE Top(t).slot)
                /\ g.phase = (IF LastPhase(Top(t)) THEN 1 ELSE Top(t).phase + 1)
                => RowOk(g)'
  PROVE  RowInv'
  <1>1. ASSUME NEW u \in Threads, NEW j \in 1..Len(frames'[u]), NEW g, g = frames'[u][j]
        PROVE  RowOk(g)'
    <2>1. CASE u = t /\ j = Len(frames[t])
      BY <1>1, <2>1, FrameMoves
    <2>2. CASE ~(u = t /\ j = Len(frames[t]))
      <3>1. ~Measures(g.sig)
        BY <1>1, <2>2, OtherFrames
      <3> QED  BY <3>1, EmptyHanded
    <2> QED  BY <2>1, <2>2
  <1>2. HeldInv'
    BY <1>1, HeldNext
  <1> QED  BY <1>2 DEF RowInv

\* A row loads one more field.
LEMMA ReadFieldRow ==
  ASSUME TypeOK, RoundInv, RowInv, NEW t \in Threads, ReadField(t)
  PROVE  RowInv'
  <1> DEFINE f == Top(t)
             w == Target(t)
             x == LoadOrder[Top(t).phase]
             held == Load(t, x)
  <1>1. /\ InHandler(t, "row") /\ Advance(t, held)
        /\ UNCHANGED <<thread_args, round, ctr, prev_ctr>>
    BY DEF ReadField, slots, counters
  <1>2. /\ f \in Frame /\ f.slot \in Slots /\ w = thread_args[f.slot] /\ w \in Workers
        /\ f.sig = SIGUSR1 /\ f.phase \in 1..2 /\ ~LastPhase(f) /\ Measures(f.sig)
    BY <1>1, TopOk, PhaseTable DEF Measures
  <1>3. /\ x \in Fields /\ held \in Held /\ held[x] = Field(w)[x]
        /\ \A y \in Fields : y # x => held[y] = f.held[y]
    BY <1>1, NextField, LoadType
  <1>4. RowOk(f)
    BY <1>1, FrameMoves, <1>3 DEF RowInv, HeldInv
  <1>5. MarkInv' /\ prev_ctr[w] <= ctr[w]
    BY <1>1, <1>2 DEF RowInv, MarkInv
  <1>6. /\ x = "round" => held["round"] = round[w]
        /\ x = "prev_ctr" => held["prev_ctr"] = prev_ctr[w]
        /\ x = "ctr" => held["ctr"] = ctr[w]
    BY <1>3 DEF Field, Fields
  <1>7. ASSUME NEW g, g.sig = f.sig, g.held = held, g.slot = f.slot, g.phase = f.phase + 1
        PROVE  RowOk(g)'
    <2>1. thread_args'[g.slot] = w /\ g.sig = SIGUSR1 /\ SIGUSR1 # SIGUSR2
      BY <1>1, <1>2, <1>7 DEF SIGUSR1, SIGUSR2
    <2>2. ASSUME NEW k \in 1..(g.phase - 1)
          PROVE  /\ LoadOrder[k] = "round" => held["round"] = round[w]
                 /\ LoadOrder[k] = "prev_ctr" => held["prev_ctr"] = prev_ctr[w]
                 /\ LoadOrder[k] = "ctr" => prev_ctr[w] <= held["ctr"]
      <3>1. CASE LoadOrder[k] = x
        BY <1>5, <1>6, <3>1
      <3>2. CASE LoadOrder[k] # x
        <4>1. k # f.phase /\ k \in 1..(f.phase - 1)
          BY <1>2, <1>7, <3>2
        <4>2. /\ LoadOrder[k] = "round" => f.held["round"] = round[w]
              /\ LoadOrder[k] = "prev_ctr" => f.held["prev_ctr"] = prev_ctr[w]
              /\ LoadOrder[k] = "ctr" => prev_ctr[w] <= f.held["ctr"]
          BY <1>2, <1>4, <4>1 DEF RowOk
        <4>3. \A y \in {"round", "ctr", "prev_ctr"} : y # x => held[y] = f.held[y]
          BY <1>3 DEF Fields
        <4> HIDE DEF x, held, f, w
        <4> QED  BY <3>2, <4>2, <4>3
      <3> QED  BY <3>1, <3>2
    <2> QED  BY <1>1, <1>7, <2>1, <2>2 DEF RowOk
  <1>8. \A g : /\ g.sig = Top(t).sig /\ g.held = held
               /\ g.slot = (IF LastPhase(Top(t)) THEN Top(t).slot + 1 ELSE Top(t).slot)
               /\ g.phase = (IF LastPhase(Top(t)) THEN 1 ELSE Top(t).phase + 1)
               => RowOk(g)'
    BY <1>2, <1>7
  <1> HIDE DEF held
  <1> QED  BY <1>1, <1>2, <1>3, <1>5, <1>8, MeasureRow

\* A reset reads the counter it will mark, and marks it.
LEMMA ResetRow ==
  ASSUME TypeOK, RoundInv, RowInv, NEW t \in Threads,
         ReadRound(t) \/ BumpRound(t) \/ ReadCounter(t) \/ MarkCounter(t)
  PROVE  RowInv'
  <1> DEFINE f == Top(t)
             w == Target(t)
  <1>1. CASE ReadRound(t) \/ BumpRound(t)
    <2>1. PICK phase \in {"round", "bump"} : InHandler(t, phase) /\ \E held \in Held : Advance(t, held)
      BY <1>1, LoadType, NothingHeld DEF ReadRound, BumpRound, Fields
    <2>2. PICK held \in Held : Advance(t, held)
      BY <2>1
    <2>3. f.sig = SIGUSR2 /\ f.phase \in 1..2 /\ ~LastPhase(f) /\ Measures(f.sig)
      BY <2>1, TopOk, PhaseTable DEF Measures
    <2>4. MarkInv'
      BY <1>1 DEF ReadRound, BumpRound, RowInv, MarkInv, counters
    <2>5. \A g : g.sig = f.sig /\ g.phase = f.phase + 1 => RowOk(g)'
      BY <2>3 DEF RowOk, SIGUSR1, SIGUSR2
    <2> QED  BY <2>1, <2>2, <2>3, <2>4, <2>5, MeasureRow
  <1>2. CASE ReadCounter(t)
    <2> DEFINE held == Load(t, "ctr")
    <2>1. /\ InHandler(t, "count") /\ Advance(t, held)
          /\ UNCHANGED <<thread_args, round, ctr, prev_ctr>>
      BY <1>2 DEF ReadCounter, slots, counters
    <2>2. /\ f.slot \in Slots /\ w = thread_args[f.slot] /\ w \in Workers
          /\ f.sig = SIGUSR2 /\ f.phase = 3 /\ ~LastPhase(f) /\ Measures(f.sig)
      BY <2>1, TopOk, PhaseTable DEF Measures
    <2>3. held \in Held /\ held["ctr"] = ctr[w] /\ ctr[w] \in Nat
      BY <2>1, <2>2, LoadType DEF Fields, Field, TypeOK, CounterTypes
    <2>4. MarkInv'
      BY <2>1 DEF RowInv, MarkInv
    <2> HIDE DEF held
    <2>5. ASSUME NEW g, g.sig = f.sig, g.held = held, g.slot = f.slot
          PROVE  RowOk(g)'
      BY <2>1, <2>2, <2>3, <2>5 DEF RowOk, SIGUSR1, SIGUSR2
    <2> QED  BY <2>1, <2>2, <2>3, <2>4, <2>5, MeasureRow
  <1>3. CASE MarkCounter(t)
    <2>1. /\ InHandler(t, "mark") /\ Advance(t, Nothing) /\ UNCHANGED ctr
          /\ prev_ctr' = [prev_ctr EXCEPT ![w] = f.held["ctr"]]
      BY <1>3 DEF MarkCounter
    <2>2. /\ f.slot \in Slots /\ w = thread_args[f.slot] /\ w \in Workers
          /\ f.sig = SIGUSR2 /\ f.phase = 4 /\ LastPhase(f) /\ Measures(f.sig)
      BY <2>1, TopOk, PhaseTable DEF Measures
    <2>3. RowOk(f)
      BY <2>1, FrameMoves, NothingHeld DEF RowInv, HeldInv
    <2>4. f.held["ctr"] <= ctr[w]
      BY <2>2, <2>3 DEF RowOk
    <2>5. MarkInv'
      BY <2>1, <2>2, <2>4 DEF RowInv, MarkInv, TypeOK, CounterTypes
    <2>6. \A g : g.phase = 1 => RowOk(g)'
      BY EmptyHanded
    <2> QED  BY <2>1, <2>2, <2>5, <2>6, NothingHeld, MeasureRow
  <1> QED  BY <1>1, <1>2, <1>3

\* A row goes out, or a worker is told to stop.
LEMMA PrintStopRow ==
  ASSUME TypeOK, RowInv, NEW t \in Threads, PrintRow(t) \/ StopWorker(t)
  PROVE  RowInv'
  <1>1. PICK phase \in {"print", "stop"} : InHandler(t, phase)
    BY DEF PrintRow, StopWorker
  <1>2. Advance(t, Nothing) /\ UNCHANGED <<thread_args, round, ctr, prev_ctr>>
    BY DEF PrintRow, StopWorker, slots, counters
  <1>3. ASSUME NEW u \in Threads, NEW j \in 1..Len(frames'[u]), NEW g, g = frames'[u][j]
        PROVE  RowOk(g)'
    <2>1. CASE u = t /\ j = Len(frames[t])
      <3>1. LastPhase(Top(t))
        BY <1>1, <1>2, FrameMoves, NothingHeld, PhaseTable
      <3>2. g.phase = 1
        BY <1>1, <1>2, <1>3, <2>1, <3>1, FrameMoves, NothingHeld
      <3> QED  BY <3>2, EmptyHanded
    <2>2. CASE ~(u = t /\ j = Len(frames[t]))
      <3>1. j \in 1..Len(frames[u]) /\ g = frames[u][j]
        BY <1>1, <1>2, <1>3, <2>2, FrameMoves, NothingHeld
      <3>2. RowOk(g)
        BY <3>1 DEF RowInv, HeldInv
      <3> QED  BY <1>2, <3>2 DEF RowOk
    <2> QED  BY <2>1, <2>2
  <1>4. HeldInv'
    BY <1>3, HeldNext
  <1> QED  BY <1>2, <1>4 DEF RowInv, MarkInv

\* The invariant of the values in hand is inductive.
LEMMA NextRow ==
  ASSUME TypeOK, OwnInv, RoundInv, RowInv, [Next]_vars
  PROVE  RowInv'
  <1> USE DEF process, signals, slots, counters, history
  <1>1. CASE MainStep
    BY <1>1, KeepRow DEF MainStep, Spawn, InstallNext, Announce, Goodbye
  <1>2. ASSUME NEW w \in Workers, Claim(w) \/ Check(w) PROVE RowInv'
    BY <1>2, KeepRow DEF Claim, Check
  <1>3. ASSUME NEW w \in Workers, Publish(w) PROVE RowInv'
    BY <1>3, PublishRow
  <1>4. ASSUME NEW w \in Workers, Search(w) PROVE RowInv'
    BY <1>4, SearchRow
  <1>5. ASSUME NEW s \in Signals, Send(s) \/ DefaultAction(s) PROVE RowInv'
    BY <1>5, KeepRow DEF Send, DefaultAction
  <1>6. ASSUME NEW s \in Signals, NEW t \in Threads, Deliver(s, t) PROVE RowInv'
    BY <1>6, DeliverRow
  <1>7. ASSUME NEW t \in Threads, HandlerStep(t) PROVE RowInv'
    <2>1. CASE NullDereference(t)
      BY <2>1, KeepRow DEF NullDereference
    <2> QED  BY <1>7, <2>1, ReadFieldRow, ResetRow, PrintStopRow DEF HandlerStep
  <1>8. CASE UNCHANGED vars
    BY <1>8, KeepRow DEF vars
  <1> QED  BY <1>1, <1>2, <1>3, <1>4, <1>5, <1>6, <1>7, <1>8 DEF Next, KernelStep, WorkerStep

\* A row whose fields are of one round is of the current one.
LEMMA RowsAreCurrent ==
  ASSUME TypeOK, RoundInv, RowInv
  PROVE  PrintsCurrentRound
  <1> SUFFICES ASSUME NEW t \in Threads, At(t, "print"), Target(t) # NoArgs
               PROVE  /\ Row(t)["round"] = round[Target(t)]
                      /\ Row(t)["prev_ctr"] = prev_ctr[Target(t)]
                      /\ Row(t)["prev_ctr"] <= Row(t)["ctr"]
    BY DEF PrintsCurrentRound
  <1> DEFINE f == Top(t)
             w == Target(t)
             x == LoadOrder[3]
             row == Row(t)
  <1>1. frames[t] # <<>> /\ Phases(f.sig)[f.phase] = "print"
    BY DEF At
  <1>2. /\ f \in Frame /\ f.slot \in Slots
        /\ Len(frames[t]) \in 1..Len(frames[t]) /\ f = frames[t][Len(frames[t])]
    BY <1>1, TopType DEF TypeOK, ControlTypes, Top
  <1>3. f.sig = SIGUSR1 /\ f.phase = 3
    BY <1>1, <1>2, PhaseTable
  <1>4. RowOk(f)
    BY <1>2 DEF RowInv, HeldInv
  <1>5. w \in Workers /\ w = thread_args[f.slot]
    BY <1>2 DEF Target, TypeOK, SlotTypes
  <1>6. x \in Fields /\ \A y \in Fields : y = LoadOrder[1] \/ y = LoadOrder[2] \/ y = x
    BY OrderAssumption
  <1>7. row \in Held /\ row[x] = Field(w)[x] /\ \A y \in Fields : y # x => row[y] = f.held[y]
    <2>1. f.held \in Held /\ Field(w)[x] \in Nat
      BY <1>2, <1>5, <1>6 DEF Frame, Field, TypeOK, CounterTypes
    <2> QED  BY <1>6, <2>1 DEF Row, Load, Held
  <1>8. /\ x = "round" => row["round"] = round[w]
        /\ x = "prev_ctr" => row["prev_ctr"] = prev_ctr[w]
        /\ x = "ctr" => row["ctr"] = ctr[w]
    BY <1>7 DEF Field, Fields
  <1>9. \A k \in {1, 2} :
          /\ LoadOrder[k] = "round" => f.held["round"] = round[w]
          /\ LoadOrder[k] = "prev_ctr" => f.held["prev_ctr"] = prev_ctr[w]
          /\ LoadOrder[k] = "ctr" => prev_ctr[w] <= f.held["ctr"]
    <2>1. 1 \in 1..(f.phase - 1) /\ 2 \in 1..(f.phase - 1)
      BY <1>3
    <2> QED  BY <1>3, <1>4, <1>5, <2>1 DEF RowOk
  <1>10. \A y \in {"round", "ctr", "prev_ctr"} :
           /\ y = LoadOrder[1] \/ y = LoadOrder[2] \/ y = x
           /\ y # x => row[y] = f.held[y]
    BY <1>6, <1>7 DEF Fields
  <1>11. prev_ctr[w] <= ctr[w]
    BY <1>5 DEF RowInv, MarkInv
  <1> HIDE DEF f, w, x, row
  <1>12. row["round"] = round[w]
    BY <1>8, <1>9, <1>10
  <1>13. row["prev_ctr"] = prev_ctr[w]
    BY <1>8, <1>9, <1>10
  <1>14. prev_ctr[w] <= row["ctr"]
    BY <1>8, <1>9, <1>10, <1>11
  <1> QED  BY <1>12, <1>13, <1>14 DEF w, row

\* The row that a SIGUSR1 handler is about to print (main.cpp:24 to 31) names
\* the round its counters belong to, and the mark it subtracts is not beyond its
\* counter, in whatever order the compiler loads them, if the sender lets
\* handlers finish.
THEOREM RowsOfTheirRound ==
  ASSUME Patient
  PROVE  Spec => []PrintsCurrentRound
  <1>1. Spec => [](TypeOK /\ OwnInv /\ RoundInv /\ RowInv)
    BY InitTypeOwn, NextTypeOwn, InitRounds, NextRounds, InitRow, NextRow, PTL DEF Spec
  <1> QED  BY <1>1, RowsAreCurrent, PTL
=============================================================================
