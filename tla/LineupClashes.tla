--------------------------- MODULE LineupClashes ----------------------------
(***************************************************************************)
(* Which artists of a lineup cannot both be watched, and what can be done  *)
(* about it: itinerary/domain/lineup-conflict.util.ts.                     *)
(*                                                                         *)
(* A slot is the time of one set in minutes of the festival, its stage and *)
(* its day.  A timetable gives each artist his published slots, after      *)
(* toClashPerformances() dropped those without a time.  A conflict is      *)
(* between one artist (whose time is pending) or two; which of them the    *)
(* code calls A and which B is the order of the selection and is left out. *)
(***************************************************************************)
EXTENDS Integers, FiniteSets

CONSTANTS
  Artists,
  Stages,
  NoStage,               \* a slot without a stage label
  StagePairs,            \* minutes from one stage to another, where known
  DefaultTransferMinutes

\* A pair of stages may be given in one direction or in both, then alike: which
\* direction counts is otherwise the order of the selection.
ASSUME LineupClashesAssumption ==
  /\ NoStage \notin Stages
  /\ DefaultTransferMinutes \in Nat
  /\ DOMAIN StagePairs \subseteq Stages \X Stages
  /\ \A pair \in DOMAIN StagePairs :
       /\ StagePairs[pair] \in Nat
       /\ <<pair[2], pair[1]>> \in DOMAIN StagePairs
            => StagePairs[<<pair[2], pair[1]>>] = StagePairs[pair]

Slots == [day : STRING, stage : Stages \union {NoStage}, start : Nat, end : Nat]

SameStageTransferMinutes    == 2
TransferSafetyBufferMinutes == 3
HardClashOverlapMinutes     == 30
MinMeaningfulWatchMinutes   == 15

Least(m, n)    == IF m <= n THEN m ELSE n
Greatest(m, n) == IF m <= n THEN n ELSE m

EstimateTransferMinutes(s, t) ==
  IF NoStage \in {s, t} THEN DefaultTransferMinutes
  ELSE IF s = t THEN SameStageTransferMinutes
  ELSE IF <<s, t>> \in DOMAIN StagePairs THEN StagePairs[<<s, t>>]
  ELSE IF <<t, s>> \in DOMAIN StagePairs THEN StagePairs[<<t, s>>]
  ELSE DefaultTransferMinutes

Walk(a, b)  == EstimateTransferMinutes(a.stage, b.stage)
Minutes(a)  == a.end - a.start
Overlap(a, b) ==
  Greatest(0, Least(a.end, b.end) - Greatest(a.start, b.start))

Earlier(a, b) == IF a.start <= b.start THEN a ELSE b
Later(a, b)   == IF a.start <= b.start THEN b ELSE a
Gap(a, b)     == Later(a, b).start - Earlier(a, b).end

IsHard(a, b) ==
  \/ Overlap(a, b) >= HardClashOverlapMinutes
  \/ 2 * Overlap(a, b) >= Least(Minutes(a), Minutes(b))

ClassifyWithoutBufferMutant(a, b) ==
  CASE Overlap(a, b) > 0 -> IF IsHard(a, b) THEN "hard-clash" ELSE "partial-clash"
    [] Overlap(a, b) = 0 -> IF Gap(a, b) \in 0 .. Walk(a, b) - 1 THEN "tight-transfer" ELSE "none"

\* classifyOverlap(): what keeps a traveller from watching both sets in full.
Classify(a, b) ==
  CASE Overlap(a, b) > 0 -> IF IsHard(a, b) THEN "hard-clash" ELSE "partial-clash"
    [] Overlap(a, b) = 0 ->
         IF Gap(a, b) \in 0 .. Walk(a, b) + TransferSafetyBufferMinutes - 1
           THEN "tight-transfer" ELSE "none"

-----------------------------------------------------------------------------
(* What a traveller may decide: whom to keep on the route and whom to defer *)

Keep(x, y)           == [keeps |-> {x}, defers |-> {y}]
SplitBoth(x, y)      == [keeps |-> {x, y}, defers |-> {}]
DecideLater(between) == [keeps |-> {}, defers |-> between]

\* When a traveller who splits leaves the earlier set.
WatchUntil(a, b) == Least(Earlier(a, b).end, Later(a, b).start - Walk(a, b))
Missed(a, b) ==
  IF Gap(a, b) >= 0 THEN 0 ELSE Greatest(0, Earlier(a, b).end - WatchUntil(a, b))

\* buildSplitOption()
CanSplit(a, b) ==
  IF Gap(a, b) >= 0
    THEN Gap(a, b) >= Walk(a, b)
    ELSE /\ WatchUntil(a, b) - Earlier(a, b).start >= MinMeaningfulWatchMinutes
         /\ Minutes(Later(a, b)) >= MinMeaningfulWatchMinutes

\* resolutionOptionsForPair(): a hard clash is split only if not too much is missed.
Options(x, y, a, b) ==
  {Keep(x, y), Keep(y, x), DecideLater({x, y})}
    \union IF /\ CanSplit(a, b)
              /\ Classify(a, b) = "hard-clash"
                   => Missed(a, b) < HardClashOverlapMinutes + 10
             THEN {SplitBoth(x, y)} ELSE {}

\* suggestOption(): who is on the route already stays.
Suggestions(x, y, type, options, journey) ==
  CASE x \in journey /\ y \notin journey -> Keep(x, y)
    [] y \in journey /\ x \notin journey -> Keep(y, x)
    [] (x \in journey <=> y \in journey) /\ SplitBoth(x, y) \in options
         /\ type # "hard-clash" -> SplitBoth(x, y)
    [] OTHER -> DecideLater({x, y})

-----------------------------------------------------------------------------
(* The conflicts of a lineup *)

\* pickPrimarySlot(): the earliest slot of an artist, whatever its day.
IsPrimary(slot, slots) ==
  /\ slot \in slots
  /\ \A other \in slots : \/ slot.start < other.start
                          \/ slot.start = other.start /\ slot.end <= other.end

PrimarySlot(slots) == CHOOSE slot \in slots : IsPrimary(slot, slots)

Performing(timetable) == {x \in Artists : timetable[x] # {}}

\* A selected artist without a time is pending, never without conflicts.
Pending(timetable, selected) ==
  LET day == IF Performing(timetable) = {} THEN "unknown" ELSE "pending"
  IN {[type |-> "schedule-pending", day |-> day, between |-> {x},
       options |-> {DecideLater({x})}, suggested |-> DecideLater({x})] :
         x \in selected \ Performing(timetable)}

Pair(timetable, x, y, journey) ==
  LET a       == PrimarySlot(timetable[x])
      b       == PrimarySlot(timetable[y])
      options == Options(x, y, a, b)
  IN [type |-> Classify(a, b), day |-> a.day, between |-> {x, y}, options |-> options,
      suggested |-> Suggestions(x, y, Classify(a, b), options, journey)]

Clash(timetable, x, y) ==
  LET a == PrimarySlot(timetable[x])
      b == PrimarySlot(timetable[y])
  IN a.day = b.day /\ Classify(a, b) # "none"

\* detectLineupConflicts(): who is deferred does not press on the route.
DetectConflicts(timetable, selected, deferred, journey) ==
  LET route == (selected \ deferred) \intersect Performing(timetable)
  IN Pending(timetable, selected)
       \union {Pair(timetable, p[1], p[2], journey) :
                 p \in {q \in route \X route : q[1] # q[2] /\ Clash(timetable, q[1], q[2])}}

\* evaluateArtist(): the conflicts of one artist, in the lineup or added to it.
EvaluateArtist(timetable, artist, selected, deferred, journey) ==
  {conflict \in DetectConflicts(timetable, selected \union {artist}, deferred, journey) :
     artist \in conflict.between}

-----------------------------------------------------------------------------
(* What it means *)

\* Two sets can both be watched in full: one ends early enough to walk to the other.
CanWatchBoth(a, b) ==
  \/ a.end + Walk(a, b) + TransferSafetyBufferMinutes <= b.start
  \/ b.end + Walk(a, b) + TransferSafetyBufferMinutes <= a.start
=============================================================================
