------------------------- MODULE MCMapApiRateLimiter -------------------------
(***************************************************************************)
(* A finite instance of MapApiRateLimiter.  Two bounds keep it finite:     *)
(* a request is answered within MaxLatency ticks of its start (fetch gives *)
(* up on its own in the code), and idle time is not counted once the last  *)
(* start has left the window and nothing waits.                            *)
(***************************************************************************)
EXTENDS MapApiRateLimiter

CONSTANT MaxLatency

\* The time of the latest start.
LastStart == IF starts = <<>> THEN 0 ELSE starts[Len(starts)]

TimeMatters ==
  \/ \E l \in Loops : loopPc[l] = "asleep" /\ wakeAt[l] > now
  \/ Running # {} /\ now < LastStart + MaxLatency
  \/ Live = {} /\ Running = {} /\ starts # <<>> /\ now <= LastStart + Window

\* A loop keeps polling only while a call is in flight: the poll is bounded
\* by the latency bound of the last call it started.
WithinLatency == Running # {} => now < LastStart + MaxLatency

MCTick == TimeMatters /\ WithinLatency /\ Tick

MCNext ==
  \/ \E c \in Calls : Enqueue(c) \/ Settle(c)
  \/ \E l \in Loops : Loop(l) \/ LoopWake(l)
  \/ MCTick

\* Fairness: the event loop runs ready code and due timers, the clock
\* advances, and every fetch settles.  Callers owe nothing.
Fairness ==
  /\ WF_vars(\E l \in Loops : Loop(l) \/ LoopWake(l))
  /\ WF_vars(MCTick)
  /\ \A c \in Calls : WF_vars(Settle(c))

MCSpec == Init /\ [][MCNext]_vars /\ Fairness

\* Every call handed to enqueue() is answered: no lost wake-up, no loop that
\* polls for ever (enqueue's promise is awaited by the guide generation).
EveryCallSettles == \A c \in Calls : callState[c] = "queued" ~> callState[c] = "settled"
=============================================================================
