----------------------- MODULE MapApiRateLimiterProofs -----------------------
(***************************************************************************)
(* The limiter keeps its promise for every number of calls and drain       *)
(* loops, every limit, window and delay.  The inductive invariant is IInv. *)
(***************************************************************************)
EXTENDS MapApiRateLimiter, FiniteSetTheorems, TLAPS

\* The queue holds calls that wait, each once.
QueueInv ==
  /\ \A i \in DOMAIN queue : callState[queue[i]] = "queued"
  /\ \A i, j \in DOMAIN queue : queue[i] = queue[j] => i = j

\* What pruning forgot has expired, and what it kept fits the limit.
WindowInv ==
  /\ \A i \in 1 .. head - 1 : Expired(starts[i])
  /\ Len(starts) - head + 1 <= MaxPerSecond
  /\ SlidingWindow

IInv ==
  /\ TypeOK
  /\ IsFiniteSet(Running)
  /\ ConcurrencyBound
  /\ SingleDrainLoop
  /\ NoStrandedCall
  /\ QueueInv
  /\ WindowInv

-----------------------------------------------------------------------------
(* scheduleDrain() *)

\* scheduleDrain() leaves exactly one drain loop alive.
LEMMA ScheduleDrainAlive ==
  ASSUME TypeOK, SingleDrainLoop, ScheduleDrain
  PROVE  /\ drainScheduled' \in BOOLEAN
         /\ loopPc' \in [Loops -> LoopStates]
         /\ SingleDrainLoop'
         /\ Live' # {}
<1>1. CASE drainScheduled /\ UNCHANGED <<drainScheduled, loopPc>>
  BY <1>1 DEF TypeOK, SingleDrainLoop, Live
<1>2. CASE /\ ~drainScheduled
           /\ drainScheduled' = TRUE
           /\ \E l \in Loops : /\ loopPc[l] = "gone"
                               /\ loopPc' = [loopPc EXCEPT ![l] = "ready"]
  <2>1. PICK l \in Loops : loopPc' = [loopPc EXCEPT ![l] = "ready"]
    BY <1>2
  <2>2. Live = {}
    BY <1>2 DEF SingleDrainLoop
  <2>3. Live' = {l}
    BY <2>1, <2>2 DEF Live, TypeOK
  <2>4. loopPc' \in [Loops -> LoopStates]
    BY <2>1 DEF TypeOK, LoopStates
  <2> QED
    BY <1>2, <2>3, <2>4 DEF SingleDrainLoop
<1> QED
  BY <1>1, <1>2 DEF ScheduleDrain

-----------------------------------------------------------------------------
(* One lemma per action *)

LEMMA InitIInv == Init => IInv
<1> SUFFICES ASSUME Init PROVE IInv
  OBVIOUS
<1> USE LimiterAssumption
<1>1. TypeOK
  <2>1. queue \in Seq(Calls) /\ starts \in Seq(Nat) /\ Len(starts) = 0
    BY DEF Init
  <2>2. head \in 1 .. Len(starts) + 1
    BY <2>1 DEF Init
  <2> QED
    BY <2>1, <2>2 DEF Init, TypeOK, CallStates, LoopStates
<1>2. Running = {} /\ Live = {}
  BY DEF Init, Running, Live
<1>3. IsFiniteSet(Running) /\ ConcurrencyBound
  BY <1>2, FS_EmptySet DEF Init, ConcurrencyBound
<1>4. SingleDrainLoop /\ NoStrandedCall
  BY <1>2 DEF Init, SingleDrainLoop, NoStrandedCall
<1>5. QueueInv /\ WindowInv
  BY DEF Init, QueueInv, WindowInv, SlidingWindow
<1> QED
  BY <1>1, <1>3, <1>4, <1>5 DEF IInv

LEMMA EnqueueIInv ==
  ASSUME IInv, NEW c \in Calls, Enqueue(c)
  PROVE  IInv'
<1> USE DEF IInv, Enqueue
<1>1. TypeOK' /\ SingleDrainLoop' /\ Live' # {}
  BY ScheduleDrainAlive DEF TypeOK, CallStates
<1>2. Running' = Running
  BY DEF Running, TypeOK
<1>3. IsFiniteSet(Running)' /\ ConcurrencyBound'
  BY <1>2 DEF ConcurrencyBound
<1>4. QueueInv'
  BY DEF QueueInv, TypeOK
<1>5. WindowInv'
  BY DEF WindowInv, SlidingWindow, Expired
<1> QED
  BY <1>1, <1>3, <1>4, <1>5 DEF NoStrandedCall

LEMMA SettleIInv ==
  ASSUME IInv, NEW c \in Calls, Settle(c)
  PROVE  IInv'
<1> USE DEF IInv, Settle
<1>1. c \in Running /\ Running' = Running \ {c}
  BY DEF Running, TypeOK
<1>2. /\ IsFiniteSet(Running')
      /\ Cardinality(Running') = Cardinality(Running) - 1
      /\ Cardinality(Running') \in Nat
  BY <1>1, FS_RemoveElement, FS_CardinalityType
<1>3. active' \in Nat /\ ConcurrencyBound'
  BY <1>2, LimiterAssumption DEF ConcurrencyBound, TypeOK
<1>4. SingleDrainLoop' /\ Live' # {} /\ TypeOK'
  BY <1>3, ScheduleDrainAlive DEF TypeOK, CallStates
<1>5. QueueInv'
  BY DEF QueueInv, TypeOK
<1>6. WindowInv'
  BY DEF WindowInv, SlidingWindow, Expired
<1> QED
  BY <1>2, <1>3, <1>4, <1>5, <1>6 DEF NoStrandedCall

LEMMA LoopExitIInv ==
  ASSUME IInv, NEW l \in Loops, LoopExit(l)
  PROVE  IInv'
<1> USE DEF IInv, LoopExit, limiterVars
<1>1. TypeOK'
  BY DEF TypeOK, LoopStates
<1>2. Live' = {}
  BY DEF Live, SingleDrainLoop, TypeOK
<1>3. SingleDrainLoop' /\ NoStrandedCall'
  BY <1>2 DEF SingleDrainLoop, NoStrandedCall
<1>4. IsFiniteSet(Running)' /\ ConcurrencyBound'
  BY DEF Running, ConcurrencyBound
<1>5. QueueInv' /\ WindowInv'
  BY DEF QueueInv, WindowInv, SlidingWindow, Expired
<1> QED
  BY <1>1, <1>3, <1>4, <1>5

\* Falling asleep, whatever the reason, keeps the loop alive and forgets only
\* starts that have expired.
LEMMA SleepIInv ==
  ASSUME IInv,
         NEW l \in Loops, loopPc[l] = "ready",
         NEW until \in Nat, Sleep(l, until),
         NEW h \in head .. Len(starts) + 1, PrunedTo(h), head' = h,
         UNCHANGED <<now, queue, active, callState, starts, drainScheduled>>
  PROVE  IInv'
<1> USE DEF IInv
<1>1. TypeOK'
  BY DEF TypeOK, Sleep, LoopStates
<1>2. Live' = Live
  BY DEF Live, Sleep, TypeOK
<1>3. SingleDrainLoop' /\ NoStrandedCall'
  BY <1>2 DEF SingleDrainLoop, NoStrandedCall
<1>4. IsFiniteSet(Running)' /\ ConcurrencyBound'
  BY DEF Running, ConcurrencyBound
<1>5. QueueInv'
  BY DEF QueueInv
<1>6. \A i \in 1 .. h - 1 : Expired(starts[i])
  BY DEF PrunedTo, WindowInv, TypeOK
<1>7. WindowInv'
  BY <1>6, LimiterAssumption DEF WindowInv, SlidingWindow, Expired, TypeOK
<1> QED
  BY <1>1, <1>3, <1>4, <1>5, <1>7

LEMMA LoopAwaitSlotIInv ==
  ASSUME IInv, NEW l \in Loops, LoopAwaitSlot(l)
  PROVE  IInv'
<1>1. PICK h \in head .. Len(starts) + 1 :
        /\ PrunedTo(h)
        /\ ~SlotFree(h)
        /\ head' = h
        /\ Sleep(l, now + (Window - (now - starts[h]) + Grace))
  BY DEF LoopAwaitSlot
<1>2. h \in DOMAIN starts /\ starts[h] \in Nat
  <2>1. h \in Nat /\ 1 <= h /\ Len(starts) \in Nat /\ starts \in Seq(Nat)
    BY DEF IInv, TypeOK
  <2>2. h <= Len(starts)
    BY <1>1, <2>1, LimiterAssumption DEF SlotFree
  <2> QED
    BY <2>1, <2>2
<1>3. now + (Window - (now - starts[h]) + Grace) \in Nat
  BY <1>2, LimiterAssumption DEF IInv, TypeOK
<1> QED
  BY <1>1, <1>3, SleepIInv DEF LoopAwaitSlot

LEMMA LoopAwaitConnectionIInv ==
  ASSUME IInv, NEW l \in Loops, LoopAwaitConnection(l)
  PROVE  IInv'
<1>1. now + Poll \in Nat
  BY LimiterAssumption DEF IInv, TypeOK
<1> QED
  BY <1>1, SleepIInv DEF LoopAwaitConnection

LEMMA LoopStartIInv ==
  ASSUME IInv, NEW l \in Loops, LoopStart(l)
  PROVE  IInv'
<1> USE DEF IInv, LoopStart, loopVars
<1> DEFINE c == Head(queue)
           n == Len(starts)
<1>1. /\ c \in Calls /\ callState[c] = "queued"
      /\ queue' \in Seq(Calls)
      /\ Len(queue') = Len(queue) - 1
      /\ \A i \in DOMAIN queue' : queue'[i] = queue[i + 1] /\ i + 1 \in DOMAIN queue
      /\ 1 \in DOMAIN queue /\ c = queue[1]
  BY DEF TypeOK, QueueInv
<1>2. PICK h \in head .. n + 1 : PrunedTo(h) /\ SlotFree(h) /\ head' = h
  OBVIOUS
<1>3. /\ starts' \in Seq(Nat) /\ Len(starts') = n + 1
      /\ starts'[n + 1] = now
      /\ \A i \in 1 .. n : starts'[i] = starts[i]
  BY DEF TypeOK
<1>4. TypeOK'
  <2>1. head' \in 1 .. Len(starts') + 1
    BY <1>2, <1>3 DEF TypeOK
  <2> QED
    BY <1>1, <1>3, <2>1 DEF TypeOK, CallStates
<1>5. Running' = Running \union {c} /\ c \notin Running
  BY <1>1 DEF Running, TypeOK
<1>6. IsFiniteSet(Running)' /\ ConcurrencyBound'
  <2>1. IsFiniteSet(Running') /\ Cardinality(Running') = Cardinality(Running) + 1
    BY <1>5, FS_AddElement
  <2> QED
    BY <2>1, LimiterAssumption DEF ConcurrencyBound, TypeOK
<1>7. SingleDrainLoop' /\ NoStrandedCall'
  BY DEF SingleDrainLoop, NoStrandedCall, Live
<1>8. QueueInv'
  <2>1. \A i \in DOMAIN queue' : queue'[i] # c /\ queue'[i] \in Calls
    BY <1>1 DEF QueueInv, TypeOK
  <2>2. \A i \in DOMAIN queue' : callState'[queue'[i]] = callState[queue'[i]]
    BY <2>1 DEF TypeOK
  <2>3. \A i \in DOMAIN queue' : callState'[queue'[i]] = "queued"
    BY <1>1, <2>2 DEF QueueInv
  <2>4. \A i, j \in DOMAIN queue' : queue'[i] = queue'[j] => i = j
    BY <1>1 DEF QueueInv, TypeOK
  <2> QED
    BY <2>3, <2>4 DEF QueueInv
<1>9. \A i \in 1 .. h - 1 : Expired(starts[i])
  BY <1>2 DEF PrunedTo, WindowInv, TypeOK
<1>10. SlidingWindow'
  <2> SUFFICES ASSUME NEW i \in DOMAIN starts', i + MaxPerSecond <= n + 1
               PROVE  starts'[i + MaxPerSecond] - starts'[i] > Window
    BY <1>3 DEF SlidingWindow
  <2>1. CASE i + MaxPerSecond <= n
    <3>1. i \in 1 .. n /\ i + MaxPerSecond \in 1 .. n
      BY <2>1, <1>3, LimiterAssumption DEF TypeOK
    <3> QED
      BY <2>1, <3>1, <1>3 DEF SlidingWindow, WindowInv, TypeOK
  <2>2. CASE i + MaxPerSecond = n + 1
    <3>1. i \in 1 .. h - 1 /\ i \in 1 .. n
      BY <2>2, <1>2, <1>3, LimiterAssumption DEF SlotFree, TypeOK
    <3>2. starts[i] < now - Window /\ starts[i] \in Nat
      BY <3>1, <1>9 DEF Expired, TypeOK
    <3>3. starts'[i + MaxPerSecond] = now /\ starts'[i] = starts[i]
      BY <2>2, <3>1, <1>3
    <3>4. now \in Nat /\ Window \in Nat
      BY LimiterAssumption DEF TypeOK
    <3> HIDE DEF IInv, LoopStart, n
    <3> QED
      BY <3>2, <3>3, <3>4
  <2>3. i \in Nat /\ n \in Nat /\ MaxPerSecond \in Nat
    BY <1>3, LimiterAssumption DEF TypeOK
  <2> QED
    BY <2>1, <2>2, <2>3
<1>11. WindowInv'
  <2>1. \A i \in 1 .. h - 1 : i \in 1 .. n
    BY <1>2 DEF TypeOK
  <2>2. \A i \in 1 .. head' - 1 : Expired(starts[i])'
    BY <1>2, <1>3, <1>9, <2>1 DEF Expired
  <2>3. Len(starts') - head' + 1 <= MaxPerSecond
    BY <1>2, <1>3, LimiterAssumption DEF SlotFree, TypeOK
  <2> QED
    BY <1>10, <2>2, <2>3 DEF WindowInv
<1> QED
  BY <1>4, <1>6, <1>7, <1>8, <1>11

LEMMA LoopWakeIInv ==
  ASSUME IInv, NEW l \in Loops, LoopWake(l)
  PROVE  IInv'
<1> USE DEF IInv, LoopWake, limiterVars
<1>1. TypeOK'
  BY DEF TypeOK, LoopStates
<1>2. Live' = Live
  BY DEF Live, TypeOK
<1>3. SingleDrainLoop' /\ NoStrandedCall'
  BY <1>2 DEF SingleDrainLoop, NoStrandedCall
<1>4. IsFiniteSet(Running)' /\ ConcurrencyBound'
  BY DEF Running, ConcurrencyBound
<1>5. QueueInv' /\ WindowInv'
  BY DEF QueueInv, WindowInv, SlidingWindow, Expired
<1> QED
  BY <1>1, <1>3, <1>4, <1>5

LEMMA TickIInv ==
  ASSUME IInv, Tick
  PROVE  IInv'
<1> USE DEF IInv, Tick, limiterVars, loopVars
<1>1. TypeOK'
  BY DEF TypeOK
<1>2. SingleDrainLoop' /\ NoStrandedCall'
  BY DEF SingleDrainLoop, NoStrandedCall, Live
<1>3. IsFiniteSet(Running)' /\ ConcurrencyBound'
  BY DEF Running, ConcurrencyBound
<1>4. QueueInv'
  BY DEF QueueInv
<1>5. \A i \in 1 .. head - 1 : starts[i] \in Nat
  BY DEF TypeOK
<1>6. WindowInv'
  BY <1>5, LimiterAssumption DEF WindowInv, SlidingWindow, Expired, TypeOK
<1> QED
  BY <1>1, <1>2, <1>3, <1>4, <1>6

LEMMA NextIInv == IInv /\ [Next]_vars => IInv'
<1> SUFFICES ASSUME IInv, [Next]_vars PROVE IInv'
  OBVIOUS
<1>1. CASE Next
  BY <1>1, EnqueueIInv, SettleIInv, LoopExitIInv, LoopAwaitSlotIInv,
     LoopAwaitConnectionIInv, LoopStartIInv, LoopWakeIInv, TickIInv
     DEF Next, Loop
<1>2. CASE UNCHANGED vars
  BY <1>2 DEF vars, limiterVars, loopVars, IInv, TypeOK, Running, Live,
     ConcurrencyBound, SingleDrainLoop, NoStrandedCall, QueueInv, WindowInv,
     SlidingWindow, Expired
<1> QED
  BY <1>1, <1>2

LEMMA Invariance == Spec => []IInv
<1>1. QED
  BY InitIInv, NextIInv, PTL DEF Spec

-----------------------------------------------------------------------------
(* The safety of the limiter *)

\* The state of the limiter (queue, counter, window, loops) keeps its types;
\* in particular the counter of connections never goes negative.
THEOREM TypeCorrect == Spec => []TypeOK
<1>1. IInv => TypeOK
  BY DEF IInv
<1> QED
  BY <1>1, Invariance, PTL

\* However many calls are enqueued, never more than maxConcurrent of them are
\* in flight, and `active` is their number.
THEOREM ConcurrencySafe == Spec => []ConcurrencyBound
<1>1. IInv => ConcurrencyBound
  BY DEF IInv
<1> QED
  BY <1>1, Invariance, PTL

\* drainLoop() never runs twice at a time.
THEOREM OneDrainLoop == Spec => []SingleDrainLoop
<1>1. IInv => SingleDrainLoop
  BY DEF IInv
<1> QED
  BY <1>1, Invariance, PTL

\* No enqueue and no completion leaves a queued call without a drain loop.
THEOREM NobodyStranded == Spec => []NoStrandedCall
<1>1. IInv => NoStrandedCall
  BY DEF IInv
<1> QED
  BY <1>1, Invariance, PTL

\* Pruning the window never lets more than maxPerSecond calls start within a
\* second, wherever that second lies.
THEOREM RateSafe == Spec => []SlidingWindow
<1>1. IInv => SlidingWindow
  BY DEF IInv, WindowInv
<1> QED
  BY <1>1, Invariance, PTL

-----------------------------------------------------------------------------
(* The limiter implements RateLimitedCalls *)

LEMMA InitPromise == Init => Promise!Init
  BY DEF Init, Promise!Init, Running, Settled

\* Steps that move no call between queue, flight and completion are invisible.
LEMMA InvisibleStep ==
  ASSUME UNCHANGED <<now, queue, callState, starts>>
  PROVE  UNCHANGED Promise!vars
  BY DEF Promise!vars, Running, Settled

LEMMA EnqueuePromise ==
  ASSUME IInv, NEW c \in Calls, Enqueue(c)
  PROVE  Promise!Submit(c)
<1>1. c \notin Running \union Settled
  BY DEF Enqueue, Running, Settled
<1>2. \A i \in DOMAIN queue : queue[i] # c
  BY DEF Enqueue, IInv, QueueInv
<1>3. Running' = Running /\ Settled' = Settled
  BY DEF Enqueue, Running, Settled, IInv, TypeOK
<1> QED
  BY <1>1, <1>2, <1>3 DEF Promise!Submit, Enqueue

LEMMA SettlePromise ==
  ASSUME IInv, NEW c \in Calls, Settle(c)
  PROVE  Promise!Settle(c)
<1>1. c \in Running /\ Running' = Running \ {c} /\ Settled' = Settled \union {c}
  BY DEF Settle, Running, Settled, IInv, TypeOK
<1> QED
  BY <1>1 DEF Promise!Settle, Settle

\* A slot that is free in the pruned window is free in the log of all starts:
\* the starts pruning forgot have expired.
LEMMA LoopStartPromise ==
  ASSUME IInv, NEW l \in Loops, LoopStart(l)
  PROVE  Promise!Start
<1> DEFINE n == Len(starts)
<1>1. Head(queue) \in Calls /\ callState[Head(queue)] = "queued" /\ queue # <<>>
  BY DEF LoopStart, IInv, TypeOK, QueueInv
<1>2. /\ Running' = Running \union {Head(queue)}
      /\ Settled' = Settled
  BY <1>1 DEF LoopStart, Running, Settled, IInv, TypeOK
<1>3. Cardinality(Running) < MaxConcurrent
  BY DEF LoopStart, IInv, ConcurrencyBound
<1>4. PICK h \in head .. n + 1 : PrunedTo(h) /\ SlotFree(h)
  BY DEF LoopStart
<1>5. Promise!SlotFree
  <2> SUFFICES ASSUME NEW i \in DOMAIN starts, n - i >= MaxPerSecond - 1
               PROVE  now - starts[i] > Window
    BY DEF Promise!SlotFree
  <2>1. /\ i \in Nat /\ i >= 1 /\ n \in Nat /\ h \in Nat /\ head \in Nat
        /\ starts[i] \in Nat /\ now \in Nat
        /\ MaxPerSecond \in Nat /\ Window \in Nat
    BY LimiterAssumption DEF IInv, TypeOK
  <2>2. i <= h - 1
    BY <1>4, <2>1 DEF SlotFree
  <2>3. Expired(starts[i])
    BY <1>4, <2>1, <2>2 DEF PrunedTo, IInv, WindowInv
  <2> QED
    BY <2>1, <2>3 DEF Expired
<1>6. Promise!Cardinality(Running) = Cardinality(Running)
  BY Zenon DEF Cardinality, Promise!Cardinality
<1> QED
  BY <1>1, <1>2, <1>3, <1>5, <1>6 DEF Promise!Start, LoopStart

LEMMA NextPromise == IInv /\ [Next]_vars => [Promise!Next]_(Promise!vars)
<1> SUFFICES ASSUME IInv, [Next]_vars
             PROVE  Promise!Next \/ UNCHANGED Promise!vars
  OBVIOUS
<1>1. ASSUME NEW c \in Calls, Enqueue(c) PROVE Promise!Next
  BY <1>1, EnqueuePromise DEF Promise!Next
<1>2. ASSUME NEW c \in Calls, Settle(c) PROVE Promise!Next
  BY <1>2, SettlePromise DEF Promise!Next
<1>3. ASSUME NEW l \in Loops, LoopStart(l) PROVE Promise!Next
  BY <1>3, LoopStartPromise DEF Promise!Next
<1>4. ASSUME NEW l \in Loops,
             LoopExit(l) \/ LoopAwaitSlot(l) \/ LoopAwaitConnection(l) \/ LoopWake(l)
      PROVE  UNCHANGED Promise!vars
  BY <1>4, InvisibleStep DEF LoopExit, LoopAwaitSlot, LoopAwaitConnection,
     LoopWake, limiterVars
<1>5. CASE Tick
  BY <1>5 DEF Tick, limiterVars, Promise!Next, Promise!Tick, Running, Settled
<1>6. CASE UNCHANGED vars
  BY <1>6, InvisibleStep DEF vars, limiterVars
<1> QED
  BY <1>1, <1>2, <1>3, <1>4, <1>5, <1>6 DEF Next, Loop

\* The limiter implements RateLimitedCalls: calls start in the order in which
\* they were enqueued, within both limits, and nothing else can be observed.
THEOREM Implementation == Spec => KeepsPromise
<1>1. Spec => [][Promise!Next]_(Promise!vars)
  BY Invariance, NextPromise, PTL DEF Spec
<1> QED
  BY <1>1, InitPromise, PTL DEF Spec, KeepsPromise, Promise!Spec
=============================================================================
