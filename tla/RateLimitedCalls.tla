-------------------------- MODULE RateLimitedCalls --------------------------
(***************************************************************************)
(* What callers of the map WebService limiter are promised                 *)
(* (docs/TRAVEL_GUIDE_MAP.md, "at most AMAP_QPS per second, at most        *)
(* AMAP_MAX_CONCURRENT at once"): submitted calls are started in the order *)
(* of submission, never more than MaxConcurrent at a time and never more   *)
(* than MaxPerSecond in any Window.  No queue draining, no timers.         *)
(***************************************************************************)
EXTENDS Integers, Sequences, FiniteSets

CONSTANTS Calls,          \* the calls ever submitted
          MaxConcurrent,  \* amap.maxConcurrent
          MaxPerSecond,   \* amap.qps
          Window          \* one second, in clock ticks

VARIABLES now, waiting, inFlight, done, starts

vars == <<now, waiting, inFlight, done, starts>>

Init ==
  /\ now = 0
  /\ waiting = <<>>
  /\ inFlight = {}
  /\ done = {}
  /\ starts = <<>>

Submit(c) ==
  /\ c \notin inFlight \union done
  /\ \A i \in DOMAIN waiting : waiting[i] # c
  /\ waiting' = Append(waiting, c)
  /\ UNCHANGED <<now, inFlight, done, starts>>

\* No MaxPerSecond earlier starts lie within the Window that ends now.
SlotFree ==
  \A i \in DOMAIN starts :
     Len(starts) - i >= MaxPerSecond - 1 => now - starts[i] > Window

Start ==
  /\ waiting # <<>>
  /\ Cardinality(inFlight) < MaxConcurrent
  /\ SlotFree
  /\ inFlight' = inFlight \union {Head(waiting)}
  /\ waiting' = Tail(waiting)
  /\ starts' = Append(starts, now)
  /\ UNCHANGED <<now, done>>

Settle(c) ==
  /\ c \in inFlight
  /\ inFlight' = inFlight \ {c}
  /\ done' = done \union {c}
  /\ UNCHANGED <<now, waiting, starts>>

Tick ==
  /\ now' = now + 1
  /\ UNCHANGED <<waiting, inFlight, done, starts>>

Next ==
  \/ \E c \in Calls : Submit(c) \/ Settle(c)
  \/ Start
  \/ Tick

Spec == Init /\ [][Next]_vars
=============================================================================
