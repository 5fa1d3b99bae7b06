-------------------------- MODULE MapApiRateLimiter --------------------------
(***************************************************************************)
(* src/modules/travel-guide/map/map-api-rate-limiter.ts: the in-process    *)
(* limiter every map WebService request of AmapMapService goes through.    *)
(*                                                                         *)
(* JavaScript runs to completion: between two awaits nothing else happens. *)
(* A drain loop that is "ready" is that running code, so every other       *)
(* action waits (Quiescent) until it sleeps or returns.                    *)
(*                                                                         *)
(* The source keeps windowStarts, the start times still inside the second. *)
(* Here `starts` is the log of every start and `head` the position of the  *)
(* first one not yet pruned, so that windowStarts is the tail of the log   *)
(* and a property can speak of starts the code has forgotten.              *)
(* Times are in ticks of a monotonic clock.                                *)
(***************************************************************************)
EXTENDS Integers, Sequences, FiniteSets

CONSTANTS Calls,          \* the calls ever submitted
          Loops,          \* identities of drainLoop() invocations
          MaxConcurrent,
          MaxPerSecond,
          Window,         \* 1000 ms
          Grace,          \* the 5 ms added to the wait for a slot
          Poll            \* the 40 ms poll while every connection is busy

ASSUME LimiterAssumption ==
  /\ MaxConcurrent \in Nat \ {0}
  /\ MaxPerSecond \in Nat \ {0}
  /\ Window \in Nat
  /\ Grace \in Nat \ {0}
  /\ Poll \in Nat \ {0}

VARIABLES
  now,             \* Date.now()
  queue,           \* calls waiting, oldest first
  active,          \* the counter `active`
  callState,       \* what became of each call
  starts, head,    \* see above
  drainScheduled,  \* the flag of the same name
  loopPc, wakeAt   \* each drainLoop invocation and its timer

limiterVars == <<queue, active, callState, starts, head>>
loopVars    == <<drainScheduled, loopPc, wakeAt>>
vars        == <<now, limiterVars, loopVars>>

CallStates == {"new", "queued", "running", "settled"}
LoopStates == {"gone", "ready", "asleep"}

TypeOK ==
  /\ now \in Nat
  /\ queue \in Seq(Calls)
  /\ active \in Nat
  /\ callState \in [Calls -> CallStates]
  /\ starts \in Seq(Nat)
  /\ head \in 1 .. Len(starts) + 1
  /\ drainScheduled \in BOOLEAN
  /\ loopPc \in [Loops -> LoopStates]
  /\ wakeAt \in [Loops -> Nat]

Running == {c \in Calls : callState[c] = "running"}
Live    == {l \in Loops : loopPc[l] # "gone"}

windowStarts == SubSeq(starts, head, Len(starts))

Init ==
  /\ now = 0
  /\ queue = <<>>
  /\ active = 0
  /\ callState = [c \in Calls |-> "new"]
  /\ starts = <<>>
  /\ head = 1
  /\ drainScheduled = FALSE
  /\ loopPc = [l \in Loops |-> "gone"]
  /\ wakeAt = [l \in Loops |-> 0]

Quiescent == \A l \in Loops : loopPc[l] # "ready"

-----------------------------------------------------------------------------
(* Helpers of the source *)

ScheduleDrainUnguardedMutant ==
  /\ drainScheduled' = TRUE
  /\ \E l \in Loops : /\ loopPc[l] = "gone"
                      /\ loopPc' = [loopPc EXCEPT ![l] = "ready"]

\* scheduleDrain(): starts a drain loop unless one is scheduled already.
ScheduleDrain ==
  \/ /\ drainScheduled
     /\ UNCHANGED <<drainScheduled, loopPc>>
  \/ /\ ~drainScheduled
     /\ drainScheduled' = TRUE
     /\ \E l \in Loops : /\ loopPc[l] = "gone"
                         /\ loopPc' = [loopPc EXCEPT ![l] = "ready"]

ExpiredInclusiveMutant(t) == t <= now - Window

\* pruneWindow()'s test on the oldest entry.
Expired(t) == t < now - Window

\* pruneWindow(): h is where the window starts once expired entries are gone.
PrunedTo(h) ==
  /\ h \in head .. Len(starts) + 1
  /\ \A i \in head .. h - 1 : Expired(starts[i])
  /\ h <= Len(starts) => ~Expired(starts[h])

\* delayMsUntilSlot() = 0, for a window that starts at h.
SlotFree(h) == Len(starts) - h + 1 < MaxPerSecond

-----------------------------------------------------------------------------
(* enqueue() and the completion of a call *)

Enqueue(c) ==
  /\ Quiescent
  /\ callState[c] = "new"
  /\ callState' = [callState EXCEPT ![c] = "queued"]
  /\ queue' = Append(queue, c)
  /\ ScheduleDrain
  /\ UNCHANGED <<now, active, starts, head, wakeAt>>

SettleTwiceMutant(c) ==
  /\ Quiescent
  /\ callState[c] = "running"
  /\ callState' = [callState EXCEPT ![c] = "settled"]
  /\ active' = active - 2
  /\ ScheduleDrain
  /\ UNCHANGED <<now, queue, starts, head, wakeAt>>

\* The queued wrapper catches a rejection, so a call always settles: its
\* finally() gives the connection back and schedules a drain.
Settle(c) ==
  /\ Quiescent
  /\ callState[c] = "running"
  /\ callState' = [callState EXCEPT ![c] = "settled"]
  /\ active' = active - 1
  /\ ScheduleDrain
  /\ UNCHANGED <<now, queue, starts, head, wakeAt>>

-----------------------------------------------------------------------------
(* drainLoop(), one action per way an iteration ends *)

LoopExitKeepsFlagMutant(l) ==
  /\ loopPc[l] = "ready"
  /\ queue = <<>>
  /\ loopPc' = [loopPc EXCEPT ![l] = "gone"]
  /\ UNCHANGED <<now, limiterVars, drainScheduled, wakeAt>>

\* Nothing queued: return.  The finally block clears the flag; its check for
\* a non-empty queue cannot succeed, since no await lies in between.
LoopExit(l) ==
  /\ loopPc[l] = "ready"
  /\ queue = <<>>
  /\ loopPc' = [loopPc EXCEPT ![l] = "gone"]
  /\ drainScheduled' = FALSE
  /\ UNCHANGED <<now, limiterVars, wakeAt>>

Sleep(l, until) ==
  /\ loopPc' = [loopPc EXCEPT ![l] = "asleep"]
  /\ wakeAt' = [wakeAt EXCEPT ![l] = until]

\* The window is full: sleep until its oldest start has left it.
LoopAwaitSlot(l) ==
  /\ loopPc[l] = "ready"
  /\ queue # <<>>
  /\ \E h \in head .. Len(starts) + 1 :
        /\ PrunedTo(h)
        /\ ~SlotFree(h)
        /\ head' = h
        /\ Sleep(l, now + (Window - (now - starts[h]) + Grace))
  /\ UNCHANGED <<now, queue, active, callState, starts, drainScheduled>>

\* Every connection is busy: poll.
LoopAwaitConnection(l) ==
  /\ loopPc[l] = "ready"
  /\ queue # <<>>
  /\ active >= MaxConcurrent
  /\ \E h \in head .. Len(starts) + 1 :
        /\ PrunedTo(h)
        /\ SlotFree(h)
        /\ head' = h
  /\ Sleep(l, now + Poll)
  /\ UNCHANGED <<now, queue, active, callState, starts, drainScheduled>>

LoopStartUncountedMutant(l) ==
  /\ loopPc[l] = "ready"
  /\ queue # <<>>
  /\ \E h \in head .. Len(starts) + 1 : PrunedTo(h) /\ SlotFree(h) /\ head' = h
  /\ queue' = Tail(queue)
  /\ callState' = [callState EXCEPT ![Head(queue)] = "running"]
  /\ active' = active + 1
  /\ starts' = Append(starts, now)
  /\ UNCHANGED <<now, loopVars>>

LoopStartNewestMutant(l) ==
  /\ loopPc[l] = "ready"
  /\ queue # <<>>
  /\ active < MaxConcurrent
  /\ \E h \in head .. Len(starts) + 1 : PrunedTo(h) /\ SlotFree(h) /\ head' = h
  /\ queue' = SubSeq(queue, 1, Len(queue) - 1)
  /\ callState' = [callState EXCEPT ![queue[Len(queue)]] = "running"]
  /\ active' = active + 1
  /\ starts' = Append(starts, now)
  /\ UNCHANGED <<now, loopVars>>

\* Take the oldest call, record its start, run it; the loop goes round again.
LoopStart(l) ==
  /\ loopPc[l] = "ready"
  /\ queue # <<>>
  /\ active < MaxConcurrent
  /\ \E h \in head .. Len(starts) + 1 : PrunedTo(h) /\ SlotFree(h) /\ head' = h
  /\ queue' = Tail(queue)
  /\ callState' = [callState EXCEPT ![Head(queue)] = "running"]
  /\ active' = active + 1
  /\ starts' = Append(starts, now)
  /\ UNCHANGED <<now, loopVars>>

\* The timer of sleep() fires, on time or late.
LoopWake(l) ==
  /\ Quiescent
  /\ loopPc[l] = "asleep"
  /\ wakeAt[l] <= now
  /\ loopPc' = [loopPc EXCEPT ![l] = "ready"]
  /\ UNCHANGED <<now, limiterVars, drainScheduled, wakeAt>>

Loop(l) ==
  \/ LoopExit(l)
  \/ LoopAwaitSlot(l)
  \/ LoopAwaitConnection(l)
  \/ LoopStart(l)

Tick ==
  /\ Quiescent
  /\ now' = now + 1
  /\ UNCHANGED <<limiterVars, loopVars>>

Next ==
  \/ \E c \in Calls : Enqueue(c) \/ Settle(c)
  \/ \E l \in Loops : Loop(l) \/ LoopWake(l)
  \/ Tick

Spec == Init /\ [][Next]_vars

-----------------------------------------------------------------------------
(* Safety *)

\* The documented concurrency limit: `active` counts exactly the calls in
\* flight, and they never exceed MaxConcurrent, whatever the order in which
\* enqueues, completions and timer wake-ups interleave.
ConcurrencyBound ==
  /\ active = Cardinality(Running)
  /\ active <= MaxConcurrent

\* At most one drainLoop() is ever alive, and the flag says whether one is:
\* enqueue and every completion may call scheduleDrain() at any await.
SingleDrainLoop ==
  /\ \A l, m \in Live : l = m
  /\ drainScheduled <=> Live # {}

\* No call is stranded: while calls wait, a loop is alive to start them.
NoStrandedCall == queue # <<>> => Live # {}

\* The documented rate limit as a sliding window over all starts, pruned or
\* not: MaxPerSecond + 1 consecutive starts always span more than Window.
SlidingWindow ==
  \A i \in DOMAIN starts :
     i + MaxPerSecond <= Len(starts) => starts[i + MaxPerSecond] - starts[i] > Window

-----------------------------------------------------------------------------
(* Refinement of the promise: the drain loop and its timers are stuttering *)

Settled == {c \in Calls : callState[c] = "settled"}

Promise == INSTANCE RateLimitedCalls
             WITH waiting <- queue, inFlight <- Running, done <- Settled

\* Calls start in submission order and within both limits: the limiter's
\* steps are steps of the promise or invisible to the callers.
KeepsPromise == Promise!Spec
=============================================================================
