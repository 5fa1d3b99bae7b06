------------------------ MODULE ClashResolutionProofs -----------------------
(***************************************************************************)
(* Proofs about LineupClashes, for any stages and times, and about         *)
(* ClashResolution, for any travellers, calls and timetables.              *)
(***************************************************************************)
EXTENDS ClashResolution, TLAPS, FiniteSetTheorems, WellFoundedInduction

-----------------------------------------------------------------------------
(* Two slots *)

LEMMA WalkType ==
  ASSUME NEW a \in Slots, NEW b \in Slots
  PROVE  Walk(a, b) \in Nat /\ Walk(a, b) = Walk(b, a)
<1> DEFINE s == a.stage  t == b.stage
<1>1. s \in Stages \union {NoStage} /\ t \in Stages \union {NoStage}
  BY DEF Slots
<1> HIDE DEF s, t
<1>2. /\ EstimateTransferMinutes(s, t) \in Nat
      /\ EstimateTransferMinutes(s, t) = EstimateTransferMinutes(t, s)
  BY <1>1, LineupClashesAssumption DEF EstimateTransferMinutes, SameStageTransferMinutes
<1> QED
  BY <1>2 DEF Walk, s, t

\* classifyOverlap(): two sets that begin before they end clash exactly when
\* they cannot both be watched in full.
LEMMA NoneMeansBoth ==
  ASSUME NEW a \in Slots, NEW b \in Slots, a.start < a.end, b.start < b.end
  PROVE  Classify(a, b) = "none" <=> CanWatchBoth(a, b)
<1> DEFINE w == Walk(a, b) + TransferSafetyBufferMinutes
<1>1. w \in Nat /\ Walk(a, b) \in Nat
  BY WalkType DEF TransferSafetyBufferMinutes
<1>2. a.start \in Int /\ a.end \in Int /\ b.start \in Int /\ b.end \in Int
  BY DEF Slots
<1>3. CanWatchBoth(a, b) <=> Gap(a, b) >= w
  BY <1>1, <1>2 DEF CanWatchBoth, Gap, Later, Earlier, TransferSafetyBufferMinutes
<1>4. Gap(a, b) \in Int /\ Overlap(a, b) \in Nat /\ (Overlap(a, b) = 0 <=> Gap(a, b) >= 0)
  BY <1>2 DEF Gap, Later, Earlier, Overlap, Least, Greatest
<1>5. CASE Overlap(a, b) > 0
  <2>1. Classify(a, b) \in {"hard-clash", "partial-clash"}
    BY <1>5 DEF Classify
  <2> QED
    BY <1>1, <1>3, <1>4, <1>5, <2>1
<1>6. CASE Overlap(a, b) = 0
  <2>1. ~ (Overlap(a, b) > 0)
    BY <1>6
  <2> DEFINE near == Gap(a, b) \in 0 .. Walk(a, b) + TransferSafetyBufferMinutes - 1
  <2>2. Classify(a, b) = IF near THEN "tight-transfer" ELSE "none"
    BY <1>6, <2>1, Zenon DEF Classify
  <2>3. near <=> Gap(a, b) \in 0 .. w - 1
    BY <1>1 DEF TransferSafetyBufferMinutes
  <2> HIDE DEF near
  <2> QED
    BY <1>1, <1>3, <1>4, <1>6, <2>2, <2>3
<1> QED
  BY <1>4, <1>5, <1>6

LEMMA LeastNat ==
  ASSUME NEW T, T \subseteq Nat, T # {}
  PROVE  \E m \in T : \A n \in T : m <= n
<1> DEFINE R == OpToRel(<, Nat)
<1>1. IsWellFoundedOn(R, Nat)
  BY NatLessThanWellFounded
<1>2. \A m, n \in Nat : n < m => <<n, m>> \in R
  BY DEF OpToRel
<1> HIDE DEF R
<1>3. PICK m \in T : \A n \in T : ~ (<<n, m>> \in R)
  BY <1>1, WFMin
<1>4. \A n \in T : n \in Nat /\ m \in Nat /\ ~ (n < m)
  BY <1>2, <1>3
<1>5. \A n \in T : m <= n
  BY <1>4
<1> QED
  BY <1>5

\* pickPrimarySlot(): whoever has slots has a first one.
LEMMA PrimaryAmongSlots ==
  ASSUME NEW slots, slots \subseteq Slots, slots # {}
  PROVE  IsPrimary(PrimarySlot(slots), slots)
<1> DEFINE starts == {slot.start : slot \in slots}
<1>1. starts \subseteq Nat /\ starts # {}
  BY DEF Slots
<1>2. PICK first \in starts : \A n \in starts : first <= n
  <2> HIDE DEF starts
  <2> QED
    BY <1>1, LeastNat
<1> DEFINE ends == {slot.end : slot \in {s \in slots : s.start = first}}
<1>3. ends \subseteq Nat /\ ends # {}
  BY <1>2 DEF Slots
<1>4. PICK last \in ends : \A n \in ends : last <= n
  <2> HIDE DEF ends
  <2> QED
    BY <1>3, LeastNat
<1>5. PICK slot \in slots : slot.start = first /\ slot.end = last
  BY <1>4
<1>6. ASSUME NEW other \in slots
      PROVE  \/ slot.start < other.start
             \/ slot.start = other.start /\ slot.end <= other.end
  <2>1. first <= other.start /\ first \in Nat /\ other.start \in Nat
    BY <1>1, <1>2 DEF Slots
  <2>2. CASE first = other.start
    <3>1. last <= other.end
      BY <1>4, <2>2
    <3> QED
      BY <1>5, <2>2, <3>1
  <2>3. CASE first # other.start
    BY <1>5, <2>1, <2>3
  <2> QED
    BY <2>2, <2>3
<1>7. IsPrimary(slot, slots)
  BY <1>6 DEF IsPrimary
<1> QED
  BY <1>7 DEF PrimarySlot

LEMMA SingleSlot ==
  ASSUME NEW a \in Slots
  PROVE  PrimarySlot({a}) = a
<1>1. IsPrimary(a, {a})
  BY DEF IsPrimary, Slots
<1> QED
  BY <1>1 DEF PrimarySlot

LEMMA BothWays ==
  ASSUME NEW a \in Slots, NEW b \in Slots
  PROVE  CanWatchBoth(a, b) <=> CanWatchBoth(b, a)
  BY WalkType DEF CanWatchBoth

FirstSetsClash(table, x, y) ==
  LET a == PrimarySlot(table[x])
      b == PrimarySlot(table[y])
  IN a.day = b.day /\ ~ CanWatchBoth(a, b)

\* Two artists with times are reported to clash if and only if their first sets are on
\* one day and cannot both be watched, and neither is deferred: whatever other
\* sets they play (detectLineupConflicts() looks at pickPrimarySlot() alone).
THEOREM FirstSetsDecide ==
  ASSUME NEW table \in Timetables, NEW selected \in SUBSET Artists,
         NEW deferred, NEW journey, NEW x \in selected, NEW y \in selected,
         x # y, table[x] # {}, table[y] # {}
  PROVE  (\E conflict \in DetectConflicts(table, selected, deferred, journey) :
            conflict.between = {x, y})
           <=> FirstSetsClash(table, x, y) /\ {x, y} \intersect deferred = {}
<1> DEFINE route == (selected \ deferred) \intersect Performing(table)
           found == DetectConflicts(table, selected, deferred, journey)
           a == PrimarySlot(table[x])
           b == PrimarySlot(table[y])
<1>1. /\ a \in Slots /\ b \in Slots /\ a.start < a.end /\ b.start < b.end
  <2>1. a \in table[x] /\ b \in table[y]
    BY PrimaryAmongSlots, TimetableAssumption DEF IsPrimary
  <2> HIDE DEF a, b
  <2> QED
    BY <2>1, TimetableAssumption
<1>2. /\ Clash(table, x, y) <=> a.day = b.day /\ ~ CanWatchBoth(a, b)
      /\ Clash(table, y, x) <=> a.day = b.day /\ ~ CanWatchBoth(a, b)
  BY <1>1, NoneMeansBoth, BothWays DEF Clash
<1> HIDE DEF a, b
<1>3. x \in Performing(table) /\ y \in Performing(table)
  BY DEF Performing
<1>4. x \in route /\ y \in route <=> {x, y} \intersect deferred = {}
  BY <1>3
<1>5. (\E conflict \in found : conflict.between = {x, y})
        <=> \E p \in route \X route : /\ p[1] # p[2] /\ Clash(table, p[1], p[2])
                                      /\ {p[1], p[2]} = {x, y}
  <2>1. \A conflict \in Pending(table, selected) : conflict.between # {x, y}
    <3>1. ASSUME NEW conflict \in Pending(table, selected)
          PROVE  \E z : conflict.between = {z}
      <4>1. PICK z \in selected \ Performing(table) : conflict =
              [type |-> "schedule-pending",
               day |-> IF Performing(table) = {} THEN "unknown" ELSE "pending",
               between |-> {z}, options |-> {DecideLater({z})},
               suggested |-> DecideLater({z})]
        BY <3>1 DEF Pending
      <4> QED
        BY <4>1
    <3>2. \A z : {z} # {x, y}
      OBVIOUS
    <3> QED
      BY <3>1, <3>2
  <2>2. \A p \in route \X route : Pair(table, p[1], p[2], journey).between = {p[1], p[2]}
    BY DEF Pair
  <2> QED
    BY <2>1, <2>2 DEF DetectConflicts
<1>6. (\E p \in route \X route : /\ p[1] # p[2] /\ Clash(table, p[1], p[2])
                                 /\ {p[1], p[2]} = {x, y})
        <=> /\ x \in route /\ y \in route
            /\ Clash(table, x, y) \/ Clash(table, y, x)
  <2> HIDE DEF route
  <2>1. ASSUME NEW p \in route \X route, {p[1], p[2]} = {x, y}, Clash(table, p[1], p[2])
        PROVE  /\ x \in route /\ y \in route
               /\ Clash(table, x, y) \/ Clash(table, y, x)
    <3>1. (p[1] = x /\ p[2] = y) \/ (p[1] = y /\ p[2] = x)
      BY <2>1
    <3> QED
      BY <2>1, <3>1
  <2>2. ASSUME x \in route, y \in route, Clash(table, x, y)
        PROVE  \E p \in route \X route : /\ p[1] # p[2] /\ Clash(table, p[1], p[2])
                                         /\ {p[1], p[2]} = {x, y}
    <3>1. <<x, y>> \in route \X route /\ <<x, y>>[1] = x /\ <<x, y>>[2] = y
      BY <2>2
    <3> QED
      BY <2>2, <3>1
  <2>3. ASSUME x \in route, y \in route, Clash(table, y, x)
        PROVE  \E p \in route \X route : /\ p[1] # p[2] /\ Clash(table, p[1], p[2])
                                         /\ {p[1], p[2]} = {x, y}
    <3>1. <<y, x>> \in route \X route /\ <<y, x>>[1] = y /\ <<y, x>>[2] = x
      BY <2>3
    <3> QED
      BY <2>3, <3>1
  <2> QED
    BY <2>1, <2>2, <2>3
<1> QED
  BY <1>2, <1>4, <1>5, <1>6 DEF a, b, FirstSetsClash

\* detectLineupConflicts(): of two artists who each play once, and of one without
\* a time.
ReportsRight(table, selected, deferred, journey) ==
  /\ \A x, y \in selected : \A a \in table[x], b \in table[y] :
       x # y /\ table[x] = {a} /\ table[y] = {b}
         => ((\E conflict \in DetectConflicts(table, selected, deferred, journey) :
                conflict.between = {x, y})
             <=> /\ a.day = b.day /\ ~ CanWatchBoth(a, b)
                 /\ {x, y} \intersect deferred = {})
  /\ \A x \in selected : table[x] = {}
       => \E conflict \in DetectConflicts(table, selected, deferred, journey) :
            conflict.between = {x}

LEMMA Reports ==
  ASSUME NEW table \in Timetables, NEW selected \in SUBSET Artists,
         NEW deferred, NEW journey
  PROVE  ReportsRight(table, selected, deferred, journey)
<1> DEFINE found == DetectConflicts(table, selected, deferred, journey)
<1>1. ASSUME NEW x \in selected, table[x] = {}
      PROVE  \E conflict \in found : conflict.between = {x}
  <2> DEFINE day == IF Performing(table) = {} THEN "unknown" ELSE "pending"
             new == [type |-> "schedule-pending", day |-> day, between |-> {x},
                     options |-> {DecideLater({x})}, suggested |-> DecideLater({x})]
  <2>1. x \in selected \ Performing(table)
    BY <1>1 DEF Performing
  <2>2. new \in Pending(table, selected)
    BY <2>1 DEF Pending
  <2>3. new.between = {x}
    OBVIOUS
  <2> HIDE DEF new
  <2>4. new \in found
    BY <2>2 DEF DetectConflicts
  <2> QED
    BY <2>3, <2>4
<1>2. ASSUME NEW x \in selected, NEW y \in selected, NEW a \in table[x], NEW b \in table[y],
             x # y, table[x] = {a}, table[y] = {b}
      PROVE  (\E conflict \in found : conflict.between = {x, y})
               <=> /\ a.day = b.day /\ ~ CanWatchBoth(a, b)
                   /\ {x, y} \intersect deferred = {}
  <2>1. PrimarySlot(table[x]) = a /\ PrimarySlot(table[y]) = b
    BY <1>2, TimetableAssumption, SingleSlot
  <2>2. FirstSetsClash(table, x, y) <=> a.day = b.day /\ ~ CanWatchBoth(a, b)
    BY <2>1 DEF FirstSetsClash
  <2>3. table[x] # {} /\ table[y] # {}
    BY <1>2
  <2> QED
    BY <1>2, <2>2, <2>3, FirstSetsDecide
<1> QED
  BY <1>1, <1>2 DEF ReportsRight

\* The conflicts found are of artists without a time, and of two on the route.
PendingOf(table, z) ==
  [type |-> "schedule-pending",
   day |-> IF Performing(table) = {} THEN "unknown" ELSE "pending",
   between |-> {z}, options |-> {DecideLater({z})}, suggested |-> DecideLater({z})]

OnRoute(table, selected, deferred) == (selected \ deferred) \intersect Performing(table)

LEMMA Found ==
  ASSUME NEW table, NEW selected, NEW deferred, NEW journey, NEW conflict
  PROVE  conflict \in DetectConflicts(table, selected, deferred, journey)
           <=> \/ \E z \in selected \ Performing(table) : conflict = PendingOf(table, z)
               \/ \E x, y \in OnRoute(table, selected, deferred) :
                    x # y /\ Clash(table, x, y) /\ conflict = Pair(table, x, y, journey)
<1> DEFINE route == OnRoute(table, selected, deferred)
           clashing == {q \in route \X route : q[1] # q[2] /\ Clash(table, q[1], q[2])}
<1>1. Pending(table, selected) = {PendingOf(table, z) : z \in selected \ Performing(table)}
  BY DEF Pending, PendingOf
<1>2. DetectConflicts(table, selected, deferred, journey) =
        Pending(table, selected) \union {Pair(table, p[1], p[2], journey) : p \in clashing}
  BY DEF DetectConflicts, OnRoute
<1> HIDE DEF route
<1>3. ASSUME NEW x \in route, NEW y \in route, x # y, Clash(table, x, y)
      PROVE  <<x, y>> \in clashing /\ <<x, y>>[1] = x /\ <<x, y>>[2] = y
  BY <1>3
<1>4. \A p \in clashing : p[1] \in route /\ p[2] \in route /\ p[1] # p[2] /\ Clash(table, p[1], p[2])
  OBVIOUS
<1> HIDE DEF clashing
<1>5. conflict \in {Pair(table, p[1], p[2], journey) : p \in clashing}
        <=> \E x, y \in route : x # y /\ Clash(table, x, y) /\ conflict = Pair(table, x, y, journey)
  <2>1. ASSUME NEW p \in clashing, conflict = Pair(table, p[1], p[2], journey)
        PROVE  \E x, y \in route : x # y /\ Clash(table, x, y) /\ conflict = Pair(table, x, y, journey)
    BY <1>4, <2>1
  <2>2. ASSUME NEW x \in route, NEW y \in route, x # y, Clash(table, x, y),
               conflict = Pair(table, x, y, journey)
        PROVE  \E p \in clashing : conflict = Pair(table, p[1], p[2], journey)
    <3>1. <<x, y>> \in clashing /\ <<x, y>>[1] = x /\ <<x, y>>[2] = y
      BY <1>3, <2>2
    <3>2. conflict = Pair(table, <<x, y>>[1], <<x, y>>[2], journey)
      BY <2>2, <3>1
    <3> QED
      BY <3>1, <3>2
  <2> QED
    BY <2>1, <2>2
<1>6. conflict \in Pending(table, selected)
        <=> \E z \in selected \ Performing(table) : conflict = PendingOf(table, z)
  BY <1>1
<1>7. conflict \in DetectConflicts(table, selected, deferred, journey)
        <=> \/ conflict \in Pending(table, selected)
            \/ conflict \in {Pair(table, p[1], p[2], journey) : p \in clashing}
  BY <1>2
<1> QED
  BY <1>5, <1>6, <1>7, Zenon DEF route

LEMMA PairIsBetween ==
  ASSUME NEW table, NEW x, NEW y, NEW journey
  PROVE  Pair(table, x, y, journey).between = {x, y}
  BY DEF Pair

LEMMA PendingIsBetween ==
  ASSUME NEW table, NEW z
  PROVE  PendingOf(table, z).between = {z}
  BY DEF PendingOf

-----------------------------------------------------------------------------
(* What the conflicts of a lineup promise *)

\* The order in which two artists are looked at says only which of them is A.
LEMMA EitherWay ==
  ASSUME NEW a \in Slots, NEW b \in Slots, a.start < a.end, b.start < b.end, NEW x, NEW y
  PROVE  /\ Classify(a, b) = Classify(b, a)
         /\ CanSplit(a, b) <=> CanSplit(b, a)
         /\ Options(x, y, a, b) = Options(y, x, b, a)
<1>1. a.start \in Int /\ a.end \in Int /\ b.start \in Int /\ b.end \in Int
  BY DEF Slots
<1>2. Walk(a, b) \in Nat /\ Walk(b, a) = Walk(a, b)
  BY WalkType
<1>3. Overlap(a, b) = Overlap(b, a) /\ Overlap(a, b) \in Nat /\ (IsHard(a, b) <=> IsHard(b, a))
  BY <1>1 DEF Overlap, IsHard, Least, Greatest, Minutes
<1>4. CASE a.start = b.start
  <2>1. Overlap(a, b) > 0
    BY <1>1, <1>4 DEF Overlap, Least, Greatest
  <2>2. Classify(a, b) = Classify(b, a)
    BY <1>3, <2>1 DEF Classify
  <2>3. ~ CanSplit(a, b)
    <3>1. Earlier(a, b) = a /\ Later(a, b) = b
      BY <1>1, <1>4 DEF Earlier, Later
    <3>2. WatchUntil(a, b) \in Int /\ WatchUntil(a, b) - a.start <= 0
      BY <1>1, <1>2, <1>4, <3>1 DEF WatchUntil, Least
    <3>3. Gap(a, b) \in Int /\ Gap(a, b) < 0
      BY <1>1, <1>4, <3>1 DEF Gap
    <3> QED
      BY <1>1, <3>1, <3>2, <3>3 DEF CanSplit, MinMeaningfulWatchMinutes
  <2>4. ~ CanSplit(b, a)
    <3>1. Earlier(b, a) = b /\ Later(b, a) = a
      BY <1>1, <1>4 DEF Earlier, Later
    <3>2. WatchUntil(b, a) \in Int /\ WatchUntil(b, a) - b.start <= 0
      BY <1>1, <1>2, <1>4, <3>1 DEF WatchUntil, Least
    <3>3. Gap(b, a) \in Int /\ Gap(b, a) < 0
      BY <1>1, <1>4, <3>1 DEF Gap
    <3> QED
      BY <1>1, <3>1, <3>2, <3>3 DEF CanSplit, MinMeaningfulWatchMinutes
  <2>5. Options(x, y, a, b) = Options(y, x, b, a)
    BY <2>3, <2>4 DEF Options, DecideLater
  <2> QED
    BY <2>2, <2>3, <2>4, <2>5
<1>5. CASE a.start # b.start
  <2>1. Earlier(a, b) = Earlier(b, a) /\ Later(a, b) = Later(b, a)
    BY <1>1, <1>5 DEF Earlier, Later
  <2>2. Gap(a, b) = Gap(b, a)
    BY <2>1 DEF Gap
  <2>3. Classify(a, b) = Classify(b, a)
    BY <1>2, <1>3, <2>2 DEF Classify
  <2>4. WatchUntil(a, b) = WatchUntil(b, a)
    BY <1>2, <2>1 DEF WatchUntil
  <2>5. CanSplit(a, b) <=> CanSplit(b, a)
    BY <1>2, <2>1, <2>2, <2>4 DEF CanSplit
  <2>6. Missed(a, b) = Missed(b, a)
    BY <2>1, <2>2, <2>4 DEF Missed
  <2>7. Options(x, y, a, b) = Options(y, x, b, a)
    BY <2>3, <2>5, <2>6 DEF Options, DecideLater, SplitBoth
  <2> QED
    BY <2>3, <2>5, <2>7
<1> QED
  BY <1>4, <1>5

LEMMA PairEitherWay ==
  ASSUME NEW table \in Timetables, NEW x \in Artists, NEW y \in Artists,
         table[x] # {}, table[y] # {}, Clash(table, x, y), NEW journey
  PROVE  Pair(table, x, y, journey) = Pair(table, y, x, journey)
<1> DEFINE a == PrimarySlot(table[x])
           b == PrimarySlot(table[y])
<1>1. /\ a \in Slots /\ b \in Slots /\ a.start < a.end /\ b.start < b.end
  <2>1. a \in table[x] /\ b \in table[y]
    BY PrimaryAmongSlots, TimetableAssumption DEF IsPrimary
  <2> HIDE DEF a, b
  <2> QED
    BY <2>1, TimetableAssumption
<1>2. a.day = b.day
  BY DEF Clash
<1> HIDE DEF a, b
<1>3. Classify(a, b) = Classify(b, a) /\ Options(x, y, a, b) = Options(y, x, b, a)
  BY <1>1, EitherWay
<1>4. \A type, options :
        Suggestions(x, y, type, options, journey) = Suggestions(y, x, type, options, journey)
  BY DEF Suggestions, SplitBoth, DecideLater
<1>5. {x, y} = {y, x}
  OBVIOUS
<1> QED
  BY <1>2, <1>3, <1>4, <1>5 DEF Pair, a, b

\* Of one artist, and of two, at most one conflict is found, whatever the order of
\* the selection: what detectLineupConflicts() keeps in "seen" and the id of a
\* conflict stand for one and the same conflict, with one set of options.
THEOREM OneConflictEach ==
  ASSUME NEW table \in Timetables, NEW selected \in SUBSET Artists,
         NEW deferred, NEW journey,
         NEW c \in DetectConflicts(table, selected, deferred, journey),
         NEW d \in DetectConflicts(table, selected, deferred, journey),
         c.between = d.between
  PROVE  c = d
<1> DEFINE route == OnRoute(table, selected, deferred)
<1>1. route \subseteq Artists /\ \A x \in route : table[x] # {}
  BY DEF OnRoute, Performing
<1> HIDE DEF route
<1>2. ASSUME NEW e \in DetectConflicts(table, selected, deferred, journey)
      PROVE  \/ \E z \in selected \ Performing(table) : e = PendingOf(table, z)
             \/ \E x, y \in route :
                  x # y /\ Clash(table, x, y) /\ e = Pair(table, x, y, journey)
  BY Found DEF route
<1>3. CASE \E z \in selected \ Performing(table) : c = PendingOf(table, z)
  <2>1. PICK z : c = PendingOf(table, z)
    BY <1>3
  <2>2. ASSUME NEW x, NEW y, x # y PROVE d # Pair(table, x, y, journey)
    <3>1. d.between = {z}
      BY <2>1, PendingIsBetween
    <3>2. Pair(table, x, y, journey).between = {x, y}
      BY PairIsBetween
    <3> QED
      BY <2>2, <3>1, <3>2
  <2>3. PICK w : d = PendingOf(table, w)
    BY <1>2, <2>2
  <2>4. z = w
    BY <2>1, <2>3, PendingIsBetween
  <2> QED
    BY <2>1, <2>3, <2>4
<1>4. CASE \E x, y \in route : x # y /\ Clash(table, x, y) /\ c = Pair(table, x, y, journey)
  <2>1. PICK x \in route, y \in route :
          x # y /\ Clash(table, x, y) /\ c = Pair(table, x, y, journey)
    BY <1>4
  <2>2. c.between = {x, y}
    BY <2>1, PairIsBetween
  <2>3. ASSUME NEW z PROVE d # PendingOf(table, z)
    <3>1. PendingOf(table, z).between = {z}
      BY PendingIsBetween
    <3> QED
      BY <2>1, <2>2, <3>1
  <2>4. PICK v \in route, w \in route :
          v # w /\ Clash(table, v, w) /\ d = Pair(table, v, w, journey)
    BY <1>2, <2>3
  <2>5. {x, y} = {v, w}
    <3>1. d.between = {v, w}
      BY <2>4, PairIsBetween
    <3> QED
      BY <2>2, <3>1
  <2>6. (v = x /\ w = y) \/ (v = y /\ w = x)
    BY <2>1, <2>4, <2>5
  <2>7. Pair(table, x, y, journey) = Pair(table, y, x, journey)
    BY <1>1, <2>1, PairEitherWay
  <2> QED
    BY <2>1, <2>4, <2>6, <2>7
<1> QED
  BY <1>2, <1>3, <1>4

\* What is offered about a conflict: to keep one and defer the other, to decide later,
\* or to split two that can be split.
IsSplitOf(table, x, y) ==
  LET a == PrimarySlot(table[x])
      b == PrimarySlot(table[y])
  IN /\ CanSplit(a, b)
     /\ Classify(a, b) = "hard-clash" => Missed(a, b) < HardClashOverlapMinutes + 10

OffersSplit(conflict, table, journey) ==
  \E x, y \in Artists :
    /\ x # y /\ table[x] # {} /\ table[y] # {}
    /\ conflict = Pair(table, x, y, journey) /\ IsSplitOf(table, x, y)

Answers(option, between) ==
  /\ option.keeps \union option.defers = between
  /\ option.keeps \intersect option.defers = {}

LEMMA Offered ==
  ASSUME NEW table, NEW selected \in SUBSET Artists, NEW deferred, NEW journey,
         NEW conflict \in DetectConflicts(table, selected, deferred, journey),
         NEW option \in conflict.options
  PROVE  /\ conflict.between \subseteq Artists
         /\ Answers(option, conflict.between)
         /\ option.defers = {} => OffersSplit(conflict, table, journey)
<1> DEFINE route == OnRoute(table, selected, deferred)
<1>1. route \subseteq Artists /\ \A x \in route : table[x] # {}
  BY DEF OnRoute, Performing
<1> HIDE DEF route
<1>2. \/ \E z \in selected \ Performing(table) : conflict = PendingOf(table, z)
      \/ \E x, y \in route :
           x # y /\ Clash(table, x, y) /\ conflict = Pair(table, x, y, journey)
  BY Found DEF route
<1>3. CASE \E z \in selected \ Performing(table) : conflict = PendingOf(table, z)
  <2>1. PICK z \in selected : conflict = PendingOf(table, z)
    BY <1>3
  <2>2. option = DecideLater({z}) /\ conflict.between = {z}
    BY <2>1 DEF PendingOf
  <2> QED
    BY <2>1, <2>2 DEF DecideLater, Answers
<1>4. CASE \E x, y \in route :
             x # y /\ Clash(table, x, y) /\ conflict = Pair(table, x, y, journey)
  <2>1. PICK x \in route, y \in route : x # y /\ conflict = Pair(table, x, y, journey)
    BY <1>4
  <2> DEFINE a == PrimarySlot(table[x])
             b == PrimarySlot(table[y])
  <2>2. option \in Options(x, y, a, b) /\ conflict.between = {x, y}
    BY <2>1 DEF Pair
  <2>3. \/ option \in {Keep(x, y), Keep(y, x), DecideLater({x, y})}
        \/ /\ option = SplitBoth(x, y) /\ CanSplit(a, b)
           /\ Classify(a, b) = "hard-clash" => Missed(a, b) < HardClashOverlapMinutes + 10
    BY <2>2 DEF Options
  <2>4. CASE option \in {Keep(x, y), Keep(y, x), DecideLater({x, y})}
    <3>1. /\ option.defers # {} /\ option.keeps \intersect option.defers = {}
          /\ option.keeps \union option.defers = {x, y}
      BY <2>1, <2>4 DEF Keep, DecideLater
    <3> QED
      BY <1>1, <2>2, <3>1 DEF Answers
  <2>5. CASE /\ option = SplitBoth(x, y) /\ CanSplit(a, b)
             /\ Classify(a, b) = "hard-clash" => Missed(a, b) < HardClashOverlapMinutes + 10
    <3>1. option.defers = {} /\ option.keeps = {x, y}
      BY <2>5 DEF SplitBoth
    <3>2. IsSplitOf(table, x, y)
      BY <2>5 DEF IsSplitOf
    <3> QED
      BY <1>1, <2>1, <2>2, <3>1, <3>2 DEF Answers, OffersSplit
  <2> QED
    BY <2>3, <2>4, <2>5
<1> QED
  BY <1>2, <1>3, <1>4

\* The arithmetic of buildSplitOption().
LEMMA SplitTimes ==
  ASSUME NEW a \in Slots, NEW b \in Slots, a.start < a.end, b.start < b.end, CanSplit(a, b)
  PROVE  /\ WatchUntil(a, b) \in Earlier(a, b).start + 1 .. Earlier(a, b).end
         /\ WatchUntil(a, b) + Walk(a, b) <= Later(a, b).start
         /\ WatchUntil(a, b) < Earlier(a, b).end
              => /\ Overlap(a, b) > 0
                 /\ WatchUntil(a, b) - Earlier(a, b).start >= MinMeaningfulWatchMinutes
                 /\ Minutes(Later(a, b)) >= MinMeaningfulWatchMinutes
         /\ Missed(a, b) = Earlier(a, b).end - WatchUntil(a, b)
<1> DEFINE e == Earlier(a, b)
           l == Later(a, b)
           w == Walk(a, b)
<1>1. /\ a.start \in Int /\ a.end \in Int /\ b.start \in Int /\ b.end \in Int
      /\ w \in Nat
  BY WalkType DEF Slots
<1>2. (e = a /\ l = b) \/ (e = b /\ l = a)
  BY DEF Earlier, Later
<1>3. /\ e.start \in Int /\ e.end \in Int /\ l.start \in Int /\ l.end \in Int
      /\ e.start < e.end /\ l.start < l.end /\ e.start <= l.start
  BY <1>1 DEF Earlier, Later
<1>4. /\ WatchUntil(a, b) = IF e.end <= l.start - w THEN e.end ELSE l.start - w
      /\ Gap(a, b) = l.start - e.end
      /\ Overlap(a, b) > 0 <=> l.start < e.end
      /\ Minutes(l) = l.end - l.start
  <2>1. Overlap(a, b) > 0 <=> l.start < e.end
    BY <1>1 DEF Overlap, Least, Greatest, Earlier, Later
  <2> QED
    BY <2>1 DEF WatchUntil, Least, Gap, Minutes
<1>5. /\ Gap(a, b) >= 0 => Gap(a, b) >= w
      /\ Gap(a, b) < 0 => /\ WatchUntil(a, b) - e.start >= MinMeaningfulWatchMinutes
                          /\ Minutes(l) >= MinMeaningfulWatchMinutes
  BY <1>1, <1>3, <1>4 DEF CanSplit
<1>6. Missed(a, b) = IF Gap(a, b) >= 0 THEN 0 ELSE Greatest(0, e.end - WatchUntil(a, b))
  BY DEF Missed
<1> HIDE DEF e, l, w
<1>7. /\ WatchUntil(a, b) \in e.start + 1 .. e.end
      /\ WatchUntil(a, b) + w <= l.start
      /\ WatchUntil(a, b) < e.end
           => /\ Overlap(a, b) > 0
              /\ WatchUntil(a, b) - e.start >= MinMeaningfulWatchMinutes
              /\ Minutes(l) >= MinMeaningfulWatchMinutes
      /\ Missed(a, b) = e.end - WatchUntil(a, b)
  BY <1>1, <1>3, <1>4, <1>5, <1>6 DEF MinMeaningfulWatchMinutes, Greatest
<1> QED
  BY <1>7 DEF e, l, w

\* A traveller leaves the earlier of two sets, having begun it, and reaches the
\* later one before it begins; if he leaves before the end he has seen enough of it.
WalksAcross(a, b) ==
  \E leaves \in Earlier(a, b).start + 1 .. Earlier(a, b).end :
    /\ leaves + Walk(a, b) <= Later(a, b).start
    /\ leaves < Earlier(a, b).end
         => /\ leaves - Earlier(a, b).start >= MinMeaningfulWatchMinutes
            /\ Minutes(Later(a, b)) >= MinMeaningfulWatchMinutes
    /\ Classify(a, b) = "hard-clash"
         => Earlier(a, b).end - leaves < HardClashOverlapMinutes + 10

\* Who is offered to watch both of two artists that clash can walk from the one to
\* the other in time, sees a meaningful part of each, and misses less than forty
\* minutes of a hard clash (buildSplitOption(), resolutionOptionsForPair()).
THEOREM SplitsCanBeWalked ==
  ASSUME NEW table \in Timetables, NEW selected \in SUBSET Artists,
         NEW deferred, NEW journey,
         NEW conflict \in DetectConflicts(table, selected, deferred, journey),
         NEW option \in conflict.options, option.defers = {}
  PROVE  \E x, y \in Artists :
           /\ x # y /\ conflict.between = {x, y} /\ option.keeps = {x, y}
           /\ WalksAcross(PrimarySlot(table[x]), PrimarySlot(table[y]))
<1>1. Answers(option, conflict.between)
  BY Offered
<1>2. PICK x \in Artists, y \in Artists :
        /\ x # y /\ table[x] # {} /\ table[y] # {}
        /\ conflict = Pair(table, x, y, journey) /\ IsSplitOf(table, x, y)
  <2>1. OffersSplit(conflict, table, journey)
    BY Offered, Zenon
  <2> QED
    BY <2>1 DEF OffersSplit
<1> DEFINE a == PrimarySlot(table[x])
           b == PrimarySlot(table[y])
<1>3. /\ a \in Slots /\ b \in Slots /\ a.start < a.end /\ b.start < b.end
  <2>1. a \in table[x] /\ b \in table[y]
    BY <1>2, PrimaryAmongSlots, TimetableAssumption DEF IsPrimary
  <2> HIDE DEF a, b
  <2> QED
    BY <2>1, TimetableAssumption
<1>4. /\ CanSplit(a, b)
      /\ Classify(a, b) = "hard-clash" => Missed(a, b) < HardClashOverlapMinutes + 10
  BY <1>2 DEF IsSplitOf
<1> HIDE DEF a, b
<1>5. /\ WatchUntil(a, b) \in Earlier(a, b).start + 1 .. Earlier(a, b).end
      /\ WatchUntil(a, b) + Walk(a, b) <= Later(a, b).start
      /\ WatchUntil(a, b) < Earlier(a, b).end
           => /\ WatchUntil(a, b) - Earlier(a, b).start >= MinMeaningfulWatchMinutes
              /\ Minutes(Later(a, b)) >= MinMeaningfulWatchMinutes
      /\ Missed(a, b) = Earlier(a, b).end - WatchUntil(a, b)
  BY <1>3, <1>4, SplitTimes
<1>6. WalksAcross(a, b)
  BY <1>4, <1>5, Zenon DEF WalksAcross
<1>7. conflict.between = {x, y}
  BY <1>2, PairIsBetween
<1>8. option.keeps = {x, y}
  BY <1>1, <1>7 DEF Answers
<1> QED
  BY <1>2, <1>6, <1>7, <1>8 DEF a, b

\* An artist who is deferred does not press on the route: the only conflict with him
\* is that he has no time.
LEMMA DeferredDoNotPress ==
  ASSUME NEW table, NEW selected, NEW deferred, NEW journey,
         NEW conflict \in DetectConflicts(table, selected, deferred, journey),
         NEW z \in conflict.between, z \in deferred
  PROVE  conflict.type = "schedule-pending" /\ conflict.between = {z}
<1>1. CASE \E w \in selected \ Performing(table) : conflict = PendingOf(table, w)
  <2>1. PICK w : conflict = PendingOf(table, w)
    BY <1>1
  <2> QED
    BY <2>1 DEF PendingOf
<1>2. CASE \E x, y \in OnRoute(table, selected, deferred) :
             x # y /\ Clash(table, x, y) /\ conflict = Pair(table, x, y, journey)
  <2>1. PICK x \in OnRoute(table, selected, deferred), y \in OnRoute(table, selected, deferred) :
               conflict = Pair(table, x, y, journey)
    BY <1>2
  <2>2. conflict.between = {x, y}
    BY <2>1, PairIsBetween
  <2> QED
    BY <2>2 DEF OnRoute
<1> QED
  BY <1>1, <1>2, Found

\* A decision settles the clash it is about: once it is applied to the deferred
\* artists (resolve()), the two are not found to clash in any lineup and under any
\* timetable, unless the decision was to watch both.
THEOREM OptionsSettle ==
  ASSUME NEW table \in Timetables, NEW selected \in SUBSET Artists,
         NEW deferred, NEW journey,
         NEW conflict \in DetectConflicts(table, selected, deferred, journey),
         NEW option \in conflict.options, option.defers # {},
         NEW later \in Timetables, NEW lineup \in SUBSET Artists, NEW seen,
         NEW other \in DetectConflicts(later, lineup,
                         (deferred \union option.defers) \ option.keeps, seen),
         other.between = conflict.between
  PROVE  other.type = "schedule-pending"
<1> DEFINE now == (deferred \union option.defers) \ option.keeps
<1>1. PICK z \in option.defers : TRUE
  OBVIOUS
<1>2. Answers(option, conflict.between)
  BY Offered
<1>3. z \in now /\ z \in other.between
  BY <1>2 DEF Answers
<1> HIDE DEF now
<1>4. other \in DetectConflicts(later, lineup, now, seen)
  BY DEF now
<1> QED
  BY <1>3, <1>4, DeferredDoNotPress

\* Evaluating an artist who is not in the lineup yet tells exactly the conflicts that
\* adding him brings: the others are found without him, and none of them goes away
\* (evaluateArtist(), conflictsInvolvingArtist()).
THEOREM EvaluatingForetells ==
  ASSUME NEW table, NEW selected \in SUBSET Artists, NEW artist \in Artists \ selected,
         NEW deferred, NEW journey
  PROVE  LET found(lineup) == DetectConflicts(table, lineup, deferred, journey)
             told == EvaluateArtist(table, artist, selected, deferred, journey)
         IN /\ found(selected \union {artist}) = found(selected) \union told
            /\ found(selected) \intersect told = {}
<1> DEFINE lineup == selected \union {artist}
           before == DetectConflicts(table, selected, deferred, journey)
           after  == DetectConflicts(table, lineup, deferred, journey)
           told   == EvaluateArtist(table, artist, selected, deferred, journey)
<1>1. told = {conflict \in after : artist \in conflict.between}
  BY DEF EvaluateArtist
<1>2. ASSUME NEW conflict \in before
      PROVE  conflict \in after /\ artist \notin conflict.between
  <2>1. CASE \E z \in selected \ Performing(table) : conflict = PendingOf(table, z)
    <3>1. PICK z \in selected \ Performing(table) : conflict = PendingOf(table, z)
      BY <2>1
    <3>2. z \in lineup \ Performing(table) /\ conflict.between = {z}
      BY <3>1, PendingIsBetween
    <3>3. conflict \in after
      BY <3>1, <3>2, Found
    <3> QED
      BY <3>1, <3>2, <3>3
  <2>2. CASE \E x, y \in OnRoute(table, selected, deferred) :
               x # y /\ Clash(table, x, y) /\ conflict = Pair(table, x, y, journey)
    <3>1. PICK x \in OnRoute(table, selected, deferred), y \in OnRoute(table, selected, deferred) :
                 x # y /\ Clash(table, x, y) /\ conflict = Pair(table, x, y, journey)
      BY <2>2
    <3>2. /\ x \in OnRoute(table, lineup, deferred) /\ y \in OnRoute(table, lineup, deferred)
          /\ artist \notin {x, y}
      BY <3>1 DEF OnRoute
    <3>3. conflict.between = {x, y}
      BY <3>1, PairIsBetween
    <3>4. conflict \in after
      BY <3>1, <3>2, Found
    <3> QED
      BY <3>2, <3>3, <3>4
  <2> QED
    BY <2>1, <2>2, Found
<1>3. ASSUME NEW conflict \in after, artist \notin conflict.between
      PROVE  conflict \in before
  <2>1. CASE \E z \in lineup \ Performing(table) : conflict = PendingOf(table, z)
    <3>1. PICK z \in lineup \ Performing(table) : conflict = PendingOf(table, z)
      BY <2>1
    <3>2. z \in selected \ Performing(table)
      BY <1>3, <3>1, PendingIsBetween
    <3> QED
      BY <3>1, <3>2, Found
  <2>2. CASE \E x, y \in OnRoute(table, lineup, deferred) :
               x # y /\ Clash(table, x, y) /\ conflict = Pair(table, x, y, journey)
    <3>1. PICK x \in OnRoute(table, lineup, deferred), y \in OnRoute(table, lineup, deferred) :
                 x # y /\ Clash(table, x, y) /\ conflict = Pair(table, x, y, journey)
      BY <2>2
    <3>2. conflict.between = {x, y}
      BY <3>1, PairIsBetween
    <3>3. x \in OnRoute(table, selected, deferred) /\ y \in OnRoute(table, selected, deferred)
      BY <1>3, <3>1, <3>2 DEF OnRoute
    <3> QED
      BY <3>1, <3>3, Found
  <2>3. conflict \in DetectConflicts(table, lineup, deferred, journey)
    BY <1>3
  <2> HIDE DEF lineup
  <2> QED
    BY <2>1, <2>2, <2>3, Found
<1> HIDE DEF lineup, before, after, told
<1>4. after = before \union told /\ before \intersect told = {}
  BY <1>1, <1>2, <1>3
<1> QED
  BY <1>4 DEF lineup, before, after, told

-----------------------------------------------------------------------------
(* States and decisions *)

ResolutionShape(r) ==
  r = [conflict |-> r.conflict, option |-> r.option, schedule |-> r.schedule,
       needsReview |-> r.needsReview, by |-> r.by]

StateShape(s) ==
  /\ s = [schedule |-> s.schedule, route |-> s.route, deferred |-> s.deferred,
          journey |-> s.journey, resolutions |-> s.resolutions, lineage |-> s.lineage]
  /\ \A r \in s.resolutions : ResolutionShape(r)

ShapeInv ==
  /\ state = [t \in Travellers |-> state[t]]
  /\ ask = [c \in Calls |-> ask[c]]
  /\ read = [c \in Calls |-> read[c]]
  /\ \A t \in Travellers : StateShape(state[t])
  /\ \A c \in Calls : StateShape(read[c])

\* What a call asks for and what it loaded; only calls of the signed-in write an
\* itinerary.
AskInv ==
  \A c \in Calls :
    /\ step[c] \in {"loading", "reading", "storing"}
         => ask[c].option.keeps \subseteq Artists /\ ask[c].option.defers \subseteq Artists
    /\ step[c] \in {"reading", "storing"} => loaded[c] \in Timetables
    /\ step[c] \in {"looking", "creating"} => who[c] \in SignedIn

Basis == TypeOK /\ ShapeInv /\ AskInv

Review(r) == [r EXCEPT !.needsReview = TRUE]

LEMMA Reviewed ==
  ASSUME NEW r, ResolutionShape(r)
  PROVE  /\ ResolutionShape(Review(r))
         /\ Review(r).conflict = r.conflict /\ Review(r).by = r.by
         /\ Review(r).schedule = r.schedule /\ Review(r).needsReview = TRUE
<1>1. Review(r) = [conflict |-> r.conflict, option |-> r.option, schedule |-> r.schedule,
                   needsReview |-> TRUE, by |-> r.by]
  <2> DEFINE a == r.conflict  b == r.option  c == r.schedule  d == r.needsReview  e == r.by
  <2>1. r = [conflict |-> a, option |-> b, schedule |-> c, needsReview |-> d, by |-> e]
    BY DEF ResolutionShape
  <2> HIDE DEF a, b, c, d, e
  <2>2. \A v : [r EXCEPT !.needsReview = v]
                = [conflict |-> a, option |-> b, schedule |-> c, needsReview |-> v, by |-> e]
    BY <2>1
  <2> QED
    BY <2>2 DEF Review, a, b, c, d, e
<1> QED
  BY <1>1 DEF ResolutionShape

MarkedState(s) ==
  IF s = NoState \/ s.schedule = timetable THEN s
  ELSE [s EXCEPT !.schedule = timetable,
                 !.resolutions = {[r EXCEPT !.needsReview = TRUE] : r \in @}]

\* What Mark does to a state.
LEMMA Marked ==
  ASSUME NEW s, StateShape(s), s # NoState, s.schedule # timetable
  PROVE  /\ StateShape(MarkedState(s))
         /\ MarkedState(s).schedule = timetable
         /\ MarkedState(s).resolutions = {Review(r) : r \in s.resolutions}
         /\ MarkedState(s).route = s.route
         /\ MarkedState(s).deferred = s.deferred
         /\ MarkedState(s).journey = s.journey
         /\ MarkedState(s).lineage = s.lineage
<1> DEFINE m == [s EXCEPT !.schedule = timetable,
                          !.resolutions = {[r EXCEPT !.needsReview = TRUE] : r \in @}]
<1>1. MarkedState(s) = m
  BY DEF MarkedState
<1>2. /\ m = [schedule |-> m.schedule, route |-> m.route, deferred |-> m.deferred,
              journey |-> m.journey, resolutions |-> m.resolutions, lineage |-> m.lineage]
      /\ m.schedule = timetable
      /\ m.resolutions = {Review(r) : r \in s.resolutions}
      /\ m.route = s.route /\ m.deferred = s.deferred
      /\ m.journey = s.journey /\ m.lineage = s.lineage
  <2> DEFINE a == s.schedule  b == s.route  c == s.deferred  d == s.journey
             e == s.resolutions  f == s.lineage
  <2>1. s = [schedule |-> a, route |-> b, deferred |-> c, journey |-> d,
             resolutions |-> e, lineage |-> f]
    BY DEF StateShape
  <2>2. m = [s EXCEPT !.schedule = timetable, !.resolutions = {Review(r) : r \in e}]
    BY DEF Review
  <2> HIDE DEF a, b, c, d, e, f, m
  <2>3. m = [schedule |-> timetable, route |-> b, deferred |-> c, journey |-> d,
             resolutions |-> {Review(r) : r \in e}, lineage |-> f]
    BY <2>1, <2>2
  <2> QED
    BY <2>3 DEF a, b, c, d, e, f
<1> HIDE DEF m
<1>3. \A r \in m.resolutions : ResolutionShape(r)
  BY <1>2, Reviewed DEF StateShape
<1> QED
  BY <1>1, <1>2, <1>3 DEF StateShape

LEMMA MarkedType ==
  ASSUME NEW s, StateShape(s), IsState(s), timetable \in Timetables, s # NoState
  PROVE  IsState(MarkedState(s)) /\ StateShape(MarkedState(s))
<1>1. CASE s.schedule = timetable
  BY <1>1 DEF MarkedState
<1>2. CASE s.schedule # timetable
  <2> DEFINE m == MarkedState(s)
  <2>1. /\ StateShape(m) /\ m.schedule = timetable
        /\ m.resolutions = {Review(r) : r \in s.resolutions}
        /\ m.route = s.route /\ m.deferred = s.deferred
        /\ m.journey = s.journey /\ m.lineage = s.lineage
    BY <1>2, Marked
  <2> HIDE DEF m
  <2>2. ASSUME NEW r \in s.resolutions
        PROVE  /\ Review(r).by \in m.lineage /\ Review(r).schedule \in Timetables
               /\ Review(r).needsReview \in BOOLEAN
               /\ Review(r).conflict = r.conflict
    BY <2>1, Reviewed DEF IsState, StateShape
  <2>3. \A q, r \in s.resolutions : q.conflict = r.conflict => q = r
    BY DEF IsState
  <2>4. \A r \in m.resolutions : \A q \in m.resolutions : q.conflict = r.conflict => q = r
    BY <2>1, <2>2, <2>3
  <2>5. \A r \in m.resolutions : /\ r.by \in m.lineage /\ r.schedule \in Timetables
                                 /\ r.needsReview \in BOOLEAN
    BY <2>1, <2>2
  <2>6. IsState(m)
    BY <2>1, <2>4, <2>5 DEF IsState
  <2> QED
    BY <2>1, <2>6 DEF m
<1> QED
  BY <1>1, <1>2

New(c) == [conflict |-> ask[c].conflict, option |-> ask[c].option,
           schedule |-> loaded[c], needsReview |-> FALSE, by |-> c]

LEMMA NewFields ==
  ASSUME NEW c
  PROVE  /\ ResolutionShape(New(c))
         /\ New(c).conflict = ask[c].conflict /\ New(c).schedule = loaded[c]
         /\ New(c).needsReview = FALSE /\ New(c).by = c
  BY DEF New, ResolutionShape

LEMMA NoStateFields ==
  /\ StateShape(NoState) /\ NoState.route = 0 /\ NoState.schedule = None
  /\ NoState.deferred = {} /\ NoState.journey = {}
  /\ NoState.resolutions = {} /\ NoState.lineage = {}
  BY DEF NoState, StateShape

\* What Store makes of the state a call read.
LEMMA DecidedFields ==
  ASSUME NEW c
  PROVE  /\ Decided(c) = [schedule |-> Decided(c).schedule, route |-> Decided(c).route,
                          deferred |-> Decided(c).deferred, journey |-> Decided(c).journey,
                          resolutions |-> Decided(c).resolutions,
                          lineage |-> Decided(c).lineage]
         /\ Decided(c).schedule = loaded[c] /\ Decided(c).route = read[c].route + 1
         /\ Decided(c).deferred = Deferred(c) /\ Decided(c).journey = Journey(c)
         /\ Decided(c).resolutions =
              {r \in read[c].resolutions : r.conflict # ask[c].conflict} \union {New(c)}
         /\ Decided(c).lineage = read[c].lineage \union {c}
  BY DEF Decided, New

LEMMA DecidedType ==
  ASSUME Basis, NEW c \in Calls, step[c] = "storing"
  PROVE  IsState(Decided(c)) /\ StateShape(Decided(c)) /\ Decided(c) # NoState
<1>1. /\ loaded[c] \in Timetables /\ StateShape(read[c])
      /\ ask[c].option.keeps \subseteq Artists /\ ask[c].option.defers \subseteq Artists
  BY DEF Basis, AskInv, ShapeInv
<1>2. /\ read[c].route \in Nat
      /\ read[c].deferred \subseteq Artists /\ read[c].journey \subseteq Artists
      /\ read[c].deferred \intersect read[c].journey = {}
      /\ read[c].lineage \subseteq Calls
      /\ \A r \in read[c].resolutions :
           /\ r.by \in read[c].lineage /\ r.schedule \in Timetables
           /\ r.needsReview \in BOOLEAN
           /\ \A q \in read[c].resolutions : q.conflict = r.conflict => q = r
  <2>1. read[c] = NoState \/ IsState(read[c])
    BY DEF Basis, TypeOK
  <2>2. CASE read[c] = NoState
    BY <2>2, NoStateFields
  <2>3. CASE IsState(read[c])
    BY <2>3 DEF IsState
  <2> QED
    BY <2>1, <2>2, <2>3
<1> DEFINE d == Decided(c)
<1>3. /\ d.route \in Nat \ {0} /\ d.lineage \subseteq Calls /\ d.schedule \in Timetables
  BY <1>1, <1>2, DecidedFields
<1>4. /\ d.deferred \subseteq Artists /\ d.journey \subseteq Artists
      /\ d.deferred \intersect d.journey = {}
  BY <1>1, <1>2, DecidedFields DEF Deferred, Journey
<1>5. ASSUME NEW r \in d.resolutions
      PROVE  /\ ResolutionShape(r) /\ r.by \in d.lineage /\ r.schedule \in Timetables
             /\ r.needsReview \in BOOLEAN
             /\ \A q \in d.resolutions : q.conflict = r.conflict => q = r
  <2>1. /\ d.resolutions = {q \in read[c].resolutions : q.conflict # ask[c].conflict}
                             \union {New(c)}
        /\ d.lineage = read[c].lineage \union {c}
    BY DecidedFields
  <2>2. CASE r = New(c)
    <3>1. r.needsReview \in BOOLEAN
      BY <2>2, NewFields, Zenon
    <3> QED
      BY <1>1, <2>1, <2>2, <3>1, NewFields
  <2>3. CASE r # New(c)
    BY <1>1, <1>2, <2>1, <2>3, NewFields DEF StateShape
  <2> QED
    BY <2>2, <2>3
<1>6. IsState(d) /\ StateShape(d)
  BY <1>3, <1>4, <1>5, DecidedFields DEF IsState, StateShape
<1>7. d # NoState
  BY <1>3, NoStateFields
<1> QED
  BY <1>6, <1>7

LEMMA BasisInit ==
  ASSUME Init PROVE Basis
<1>1. TypeOK
  <2>1. /\ \A t \in Travellers : state[t] = NoState
        /\ \A c \in Calls : read[c] = NoState
    BY Zenon DEF Init
  <2>2. writes \in 0 .. MaxWrites
    BY ClashResolutionAssumption DEF Init
  <2>3. /\ step \in [Calls -> InFlight \union {"idle", "answered", "refused", "cutShort", "halfway"}]
        /\ loaded \in [Calls -> Timetables \union {None}]
        /\ timetable \in Timetables /\ who \in [Calls -> Travellers]
        /\ itinerary \subseteq SignedIn /\ crossed \subseteq Calls
        /\ seeder \in {"idle", "seeding", "down"}
    BY DEF Init
  <2> QED
    BY <2>1, <2>2, <2>3 DEF TypeOK
<1>2. ShapeInv
  BY NoStateFields, Zenon DEF Init, ShapeInv
<1>3. AskInv
  BY DEF Init, AskInv
<1> QED
  BY <1>1, <1>2, <1>3 DEF Basis

\* Steps that leave the states, and what was read of them, alone.
LEMMA BasisWhenStatesStay ==
  ASSUME Basis, UNCHANGED state, TypeOK',
         ask' = [c \in Calls |-> ask'[c]], read' = [c \in Calls |-> read'[c]],
         \A c \in Calls : read'[c] = read[c] \/ StateShape(read'[c]),
         \A c \in Calls :
           \/ step'[c] \notin {"loading", "reading", "storing"}
           \/ step[c] \in {"loading", "reading", "storing"} /\ ask'[c] = ask[c]
           \/ ask'[c].option.keeps \subseteq Artists /\ ask'[c].option.defers \subseteq Artists,
         \A c \in Calls :
           \/ step'[c] \notin {"reading", "storing"}
           \/ step[c] \in {"reading", "storing"} /\ loaded'[c] = loaded[c]
           \/ loaded'[c] \in Timetables,
         who' = who,
         \A c \in Calls : step'[c] \in {"looking", "creating"}
                            => step[c] \in {"looking", "creating"}
  PROVE  Basis'
<1>1. ShapeInv'
  BY DEF Basis, ShapeInv, StateShape
<1>2. AskInv'
  BY DEF Basis, AskInv
<1> QED
  BY <1>1, <1>2 DEF Basis

LEMMA AskStep ==
  ASSUME Basis, NEW c \in Calls, NEW selected \in Lineups, NEW artist \in Artists,
         NEW days \in Views, NEW named \in Namings, Ask(c, selected, artist, days, named)
  PROVE  /\ step[c] = "idle" /\ step'[c] = "loading"
         /\ ask'[c].schedule = None \/ ask'[c].schedule = timetable \/ ~ ask'[c].whole
         /\ ask'[c].route \in {None, state[who[c]].route}
         /\ ask'[c].writes = writes /\ ask'[c].lineage = state[who[c]].lineage
         /\ ask'[c].option.keeps \intersect ask'[c].option.defers = {}
         /\ ask'[c].option.defers \subseteq ask'[c].conflict.between
         /\ UNCHANGED <<timetable, writes, seeder, state, itinerary, who, loaded, read, crossed>>
         /\ \A d \in Calls \ {c} : step'[d] = step[d] /\ ask'[d] = ask[d]
         /\ Basis'
<1> DEFINE shown == During(timetable, days)
           seen  == state[who[c]]
           Asked(conflict, option) ==
             [conflict |-> Id(conflict), option |-> option,
              schedule |-> IF "schedule" \in named THEN shown ELSE None,
              route    |-> IF "route" \in named THEN seen.route ELSE None,
              whole    |-> shown = timetable,
              writes   |-> writes,
              lineage  |-> seen.lineage]
<1>1. PICK conflict \in EvaluateArtist(shown, artist, selected, seen.deferred, seen.journey) :
        \E option \in conflict.options : ask' = [ask EXCEPT ![c] = Asked(conflict, option)]
  BY DEF Ask
<1>2. PICK option \in conflict.options : ask' = [ask EXCEPT ![c] = Asked(conflict, option)]
  BY <1>1
<1>3. /\ option.keeps \subseteq Artists /\ option.defers \subseteq Artists
      /\ option.keeps \intersect option.defers = {}
      /\ option.defers \subseteq Id(conflict).between
  <2>1. selected \union {artist} \in SUBSET Artists
    BY ClashResolutionAssumption
  <2>2. PICK table, lineup, deferred, journey :
          /\ lineup \in SUBSET Artists
          /\ conflict \in DetectConflicts(table, lineup, deferred, journey)
    BY <2>1 DEF EvaluateArtist
  <2>3. conflict.between \subseteq Artists /\ Answers(option, conflict.between)
    BY <2>2, Offered
  <2>4. Id(conflict).between = conflict.between
    BY DEF Id
  <2> QED
    BY <2>3, <2>4 DEF Answers
<1>4. ask' = [d \in Calls |-> ask'[d]] /\ ask'[c].option = option
      /\ ask'[c].conflict = Id(conflict)
      /\ \A d \in Calls \ {c} : ask'[d] = ask[d]
  BY <1>2 DEF Basis, ShapeInv
<1>5. /\ step' = [step EXCEPT ![c] = "loading"] /\ step[c] = "idle"
      /\ UNCHANGED <<timetable, writes, seeder, state, itinerary, who, loaded, read, crossed>>
  BY DEF Ask, To, seedVars, docVars
<1>6. TypeOK'
  BY <1>5 DEF Basis, TypeOK, IsState, InFlight
<1>7. \A d \in Calls : step'[d] = IF d = c THEN "loading" ELSE step[d]
  BY <1>5 DEF Basis, TypeOK
<1>8. Basis'
  BY <1>3, <1>4, <1>5, <1>6, <1>7, BasisWhenStatesStay DEF Basis, ShapeInv
<1>9. /\ ask'[c].schedule = None \/ ask'[c].schedule = timetable \/ ~ ask'[c].whole
      /\ ask'[c].route \in {None, state[who[c]].route}
      /\ ask'[c].writes = writes /\ ask'[c].lineage = state[who[c]].lineage
  <2> DEFINE new == Asked(conflict, option)
  <2>1. /\ new.schedule = None \/ new.schedule = timetable \/ ~ new.whole
        /\ new.route \in {None, state[who[c]].route}
        /\ new.writes = writes /\ new.lineage = state[who[c]].lineage
    OBVIOUS
  <2> HIDE DEF new
  <2>2. ask' = [ask EXCEPT ![c] = new]
    BY <1>2 DEF new
  <2> QED
    BY <2>1, <2>2 DEF Basis, ShapeInv
<1> QED
  BY <1>3, <1>4, <1>5, <1>7, <1>8, <1>9

LEMMA LoadStep ==
  ASSUME Basis, NEW c \in Calls, Load(c)
  PROVE  /\ step[c] = "loading"
         /\ UNCHANGED <<timetable, writes, seeder, state, itinerary, who, ask, read>>
         /\ \A d \in Calls \ {c} : step'[d] = step[d] /\ loaded'[d] = loaded[d]
         /\ \/ step'[c] = "reading" /\ loaded'[c] = timetable
            \/ step'[c] = "refused" /\ ask[c].schedule \notin {None, timetable}
         /\ crossed' = IF seeder = "idle" THEN crossed ELSE crossed \union {c}
         /\ Basis'
<1>1. /\ step[c] = "loading"
      /\ UNCHANGED <<timetable, writes, seeder, state, itinerary, who, ask, read>>
      /\ crossed' \in SUBSET Calls
      /\ crossed' = IF seeder = "idle" THEN crossed ELSE crossed \union {c}
  BY DEF Load, seedVars, docVars, Basis, TypeOK
<1>2. \/ step' = [step EXCEPT ![c] = "reading"]
         /\ loaded' = [loaded EXCEPT ![c] = timetable]
      \/ /\ step' = [step EXCEPT ![c] = "refused"] /\ loaded' = loaded
         /\ ask[c].schedule \notin {None, timetable}
  BY DEF Load, To
<1>3. TypeOK'
  BY <1>1, <1>2 DEF Basis, TypeOK, IsState, InFlight
<1>4. \A d \in Calls \ {c} : step'[d] = step[d] /\ loaded'[d] = loaded[d]
  BY <1>2 DEF Basis, TypeOK
<1>5. \/ step'[c] = "reading" /\ loaded'[c] = timetable
      \/ step'[c] = "refused" /\ ask[c].schedule \notin {None, timetable}
  BY <1>2 DEF Basis, TypeOK
<1>6. timetable \in Timetables
  BY DEF Basis, TypeOK
<1>7. Basis'
  BY <1>1, <1>3, <1>4, <1>5, <1>6, BasisWhenStatesStay DEF Basis, ShapeInv
<1> QED
  BY <1>1, <1>4, <1>5, <1>7

LEMMA ReadStep ==
  ASSUME Basis, NEW c \in Calls, Read(c)
  PROVE  /\ step[c] = "reading"
         /\ UNCHANGED <<timetable, writes, seeder, state, itinerary, who, ask, crossed>>
         /\ \A d \in Calls \ {c} : /\ step'[d] = step[d] /\ loaded'[d] = loaded[d]
                                   /\ read'[d] = read[d]
         /\ \/ /\ ask[c].route \in {None, state[who[c]].route}
               /\ step'[c] = "storing" /\ loaded'[c] = loaded[c]
               /\ read'[c] = state[who[c]]
            \/ /\ ask[c].route \notin {None, state[who[c]].route}
               /\ step'[c] = "refused" /\ read'[c] = read[c]
         /\ Basis'
<1>1. /\ step[c] = "reading"
      /\ UNCHANGED <<timetable, writes, seeder, state, itinerary, who, ask, crossed>>
  BY DEF Read, seedVars, docVars
<1>2. \/ /\ ask[c].route \in {None, state[who[c]].route}
         /\ step' = [step EXCEPT ![c] = "storing"] /\ loaded' = loaded
         /\ read' = [read EXCEPT ![c] = state[who[c]]]
      \/ /\ ask[c].route \notin {None, state[who[c]].route}
         /\ step' = [step EXCEPT ![c] = "refused"]
         /\ loaded' = [loaded EXCEPT ![c] = None] /\ read' = read
  BY DEF Read, To, Forget
<1>3. \A d \in Calls \ {c} : /\ step'[d] = step[d] /\ loaded'[d] = loaded[d]
                             /\ read'[d] = read[d]
  BY <1>2 DEF Basis, TypeOK, ShapeInv
<1>4. \/ /\ ask[c].route \in {None, state[who[c]].route}
         /\ step'[c] = "storing" /\ loaded'[c] = loaded[c]
         /\ read'[c] = state[who[c]]
      \/ /\ ask[c].route \notin {None, state[who[c]].route}
         /\ step'[c] = "refused" /\ read'[c] = read[c]
  BY <1>2 DEF Basis, TypeOK, ShapeInv
<1>5. read' = [d \in Calls |-> read'[d]]
  BY <1>2 DEF Basis, ShapeInv
<1>6. who[c] \in Travellers
  BY DEF Basis, TypeOK
<1>7. TypeOK'
  <2>1. \A d \in Calls : read'[d] = NoState \/ IsState(read'[d])
    BY <1>3, <1>4, <1>6 DEF Basis, TypeOK
  <2>2. step' \in [Calls -> InFlight \union {"idle", "answered", "refused", "cutShort", "halfway"}]
        /\ loaded' \in [Calls -> Timetables \union {None}]
    BY <1>2 DEF Basis, TypeOK, InFlight
  <2> QED
    BY <1>1, <2>1, <2>2 DEF Basis, TypeOK, IsState
<1>8. Basis'
  BY <1>1, <1>3, <1>4, <1>5, <1>6, <1>7, BasisWhenStatesStay DEF Basis, ShapeInv
<1> QED
  BY <1>1, <1>3, <1>4, <1>8

LEMMA StoreStep ==
  ASSUME Basis, NEW c \in Calls, Store(c)
  PROVE  /\ step[c] = "storing" /\ who[c] \in Travellers
         /\ UNCHANGED <<timetable, writes, seeder, itinerary, who, ask, read, crossed>>
         /\ \A d \in Calls \ {c} : step'[d] = step[d] /\ loaded'[d] = loaded[d]
         /\ \A t \in Travellers \ {who[c]} : state'[t] = state[t]
         /\ \/ /\ step'[c] \in {"looking", "answered"}
               /\ state'[who[c]] = Decided(c)
            \/ /\ step'[c] = "refused" /\ state'[who[c]] = state[who[c]]
               /\ ~ IndexAdmits(who[c])
         /\ Basis'
<1>1. /\ step[c] = "storing"
      /\ UNCHANGED <<timetable, writes, seeder, itinerary, who, ask, read, crossed>>
      /\ loaded' = [loaded EXCEPT ![c] = None]
  BY DEF Store, seedVars, Forget
<1>2. \/ /\ \/ who[c] \in SignedIn /\ step' = [step EXCEPT ![c] = "looking"]
            \/ step' = [step EXCEPT ![c] = "answered"]
         /\ state' = [state EXCEPT ![who[c]] = Decided(c)]
      \/ /\ step' = [step EXCEPT ![c] = "refused"] /\ state' = state
         /\ ~ IndexAdmits(who[c])
  BY DEF Store, To
<1>3. who[c] \in Travellers
  BY DEF Basis, TypeOK
<1>4. \A d \in Calls \ {c} : step'[d] = step[d] /\ loaded'[d] = loaded[d]
  BY <1>1, <1>2 DEF Basis, TypeOK
<1>5. state' = [t \in Travellers |-> state'[t]]
      /\ \A t \in Travellers \ {who[c]} : state'[t] = state[t]
  BY <1>2 DEF Basis, ShapeInv
<1>6. \/ /\ (who[c] \in SignedIn /\ step'[c] = "looking") \/ step'[c] = "answered"
         /\ state'[who[c]] = Decided(c)
      \/ /\ step'[c] = "refused" /\ state'[who[c]] = state[who[c]]
         /\ ~ IndexAdmits(who[c])
  <2>1. \A s : [state EXCEPT ![who[c]] = s][who[c]] = s
    BY <1>3 DEF Basis, ShapeInv
  <2>2. \A s : [step EXCEPT ![c] = s][c] = s
    BY DEF Basis, TypeOK
  <2> QED
    BY <1>2, <2>1, <2>2
<1>7. IsState(Decided(c)) /\ StateShape(Decided(c))
  BY <1>1, DecidedType
<1>8. \A t \in Travellers : /\ state'[t] = NoState \/ IsState(state'[t])
                            /\ StateShape(state'[t])
  BY <1>3, <1>5, <1>6, <1>7 DEF Basis, TypeOK, ShapeInv
<1>9. TypeOK'
  <2>1. step' \in [Calls -> InFlight \union {"idle", "answered", "refused", "cutShort", "halfway"}]
        /\ loaded' \in [Calls -> Timetables \union {None}]
    BY <1>1, <1>2 DEF Basis, TypeOK, InFlight
  <2> QED
    BY <1>1, <1>8, <2>1 DEF Basis, TypeOK, IsState
<1>10. ShapeInv'
  BY <1>1, <1>5, <1>8 DEF Basis, ShapeInv, StateShape
<1>11. AskInv'
  BY <1>1, <1>4, <1>6 DEF Basis, AskInv
<1>12. Basis'
  BY <1>9, <1>10, <1>11 DEF Basis
<1> QED
  BY <1>1, <1>3, <1>4, <1>5, <1>6, <1>12

\* Look, Create and Lost, of a call that is past the decision or leaves nothing.
LEMMA TailStep ==
  ASSUME Basis, NEW c \in Calls, Look(c) \/ Create(c) \/ Lost(c)
  PROVE  /\ UNCHANGED <<timetable, writes, seeder, state, who, crossed>>
         /\ \A d \in Calls \ {c} : /\ step'[d] = step[d] /\ loaded'[d] = loaded[d]
                                   /\ ask'[d] = ask[d] /\ read'[d] = read[d]
         /\ \/ /\ step[c] \in {"looking", "creating"}
               /\ step'[c] \in {"creating", "answered", "halfway"}
               /\ ask'[c] = ask[c] /\ read'[c] = read[c]
            \/ /\ step[c] \in {"loading", "reading", "storing"}
               /\ step'[c] = "cutShort" /\ read'[c] = NoState
         /\ Basis'
<1>1. UNCHANGED <<timetable, writes, seeder, state, who, crossed>>
  BY DEF Look, Create, Lost, seedVars, docVars
<1>2. itinerary' \subseteq SignedIn
  <2>1. CASE Create(c)
    <3>1. itinerary' = itinerary \union {who[c]} /\ step[c] = "creating"
      BY <2>1 DEF Create
    <3> QED
      BY <3>1 DEF Basis, TypeOK, AskInv
  <2>2. CASE Look(c) \/ Lost(c)
    BY <2>2 DEF Look, Lost, docVars, Basis, TypeOK
  <2> QED
    BY <2>1, <2>2
<1>3. \/ /\ step[c] \in {"looking", "creating"}
         /\ \E next \in {"creating", "answered", "halfway"} : step' = [step EXCEPT ![c] = next]
         /\ ask' = ask /\ read' = read /\ loaded' = loaded
      \/ /\ step[c] \in {"loading", "reading", "storing"}
         /\ step' = [step EXCEPT ![c] = "cutShort"]
         /\ ask' = [ask EXCEPT ![c] = None] /\ read' = [read EXCEPT ![c] = NoState]
         /\ loaded' = [loaded EXCEPT ![c] = None]
  <2>1. CASE Look(c)
    BY <2>1 DEF Look, To
  <2>2. CASE Create(c)
    BY <2>2 DEF Create, To
  <2>3. CASE Lost(c)
    BY <2>3 DEF Lost, To, Forget, InFlight
  <2> QED
    BY <2>1, <2>2, <2>3
<1>4. \A d \in Calls \ {c} : /\ step'[d] = step[d] /\ loaded'[d] = loaded[d]
                             /\ ask'[d] = ask[d] /\ read'[d] = read[d]
  BY <1>3 DEF Basis, TypeOK, ShapeInv
<1>5. \/ /\ step[c] \in {"looking", "creating"}
         /\ step'[c] \in {"creating", "answered", "halfway"}
         /\ ask'[c] = ask[c] /\ read'[c] = read[c]
      \/ /\ step[c] \in {"loading", "reading", "storing"}
         /\ step'[c] = "cutShort" /\ read'[c] = NoState
  BY <1>3 DEF Basis, TypeOK, ShapeInv
<1>6. step' \in [Calls -> InFlight \union {"idle", "answered", "refused", "cutShort", "halfway"}]
      /\ loaded' \in [Calls -> Timetables \union {None}]
  BY <1>3 DEF Basis, TypeOK, InFlight
<1>7. ask' = [d \in Calls |-> ask'[d]] /\ read' = [d \in Calls |-> read'[d]]
  BY <1>3 DEF Basis, ShapeInv
<1>8. TypeOK'
  <2>1. \A d \in Calls : read'[d] = NoState \/ IsState(read'[d])
    BY <1>4, <1>5 DEF Basis, TypeOK
  <2> QED
    BY <1>1, <1>2, <1>6, <2>1 DEF Basis, TypeOK, IsState
<1>9. Basis'
  BY <1>1, <1>4, <1>5, <1>7, <1>8, NoStateFields, BasisWhenStatesStay
<1> QED
  BY <1>1, <1>4, <1>5, <1>9

LEMMA MarkStep ==
  ASSUME Basis, Mark
  PROVE  /\ UNCHANGED <<timetable, writes, itinerary, callVars>>
         /\ seeder = "seeding" /\ seeder' = "idle"
         /\ \A t \in Travellers : state'[t] = MarkedState(state[t])
         /\ Basis'
<1>1. /\ UNCHANGED <<timetable, writes, itinerary, step, who, ask, loaded, read, crossed>>
      /\ seeder = "seeding" /\ seeder' = "idle"
  BY DEF Mark, callVars
<1>2. state' = [t \in Travellers |-> MarkedState(state[t])]
  BY DEF Mark, MarkedState
<1>3. state' = [t \in Travellers |-> state'[t]]
      /\ \A t \in Travellers : state'[t] = MarkedState(state[t])
  BY <1>2
<1>4. timetable \in Timetables
  BY DEF Basis, TypeOK
<1>5. ASSUME NEW t \in Travellers
      PROVE  (state'[t] = NoState \/ IsState(state'[t])) /\ StateShape(state'[t])
  <2>1. StateShape(state[t]) /\ (state[t] = NoState \/ IsState(state[t]))
    BY DEF Basis, TypeOK, ShapeInv
  <2>2. CASE state[t] = NoState
    <3>1. MarkedState(state[t]) = NoState
      BY <2>2 DEF MarkedState
    <3> QED
      BY <1>3, <3>1, NoStateFields
  <2>3. CASE state[t] # NoState
    BY <1>3, <1>4, <2>1, <2>3, MarkedType
  <2> QED
    BY <2>2, <2>3
<1>6. TypeOK'
  BY <1>1, <1>5 DEF Basis, TypeOK, IsState, InFlight
<1>7. ShapeInv' /\ AskInv'
  BY <1>1, <1>3, <1>5 DEF Basis, ShapeInv, AskInv, StateShape
<1>8. Basis'
  BY <1>6, <1>7 DEF Basis
<1> QED
  BY <1>1, <1>3, <1>8 DEF callVars

LEMMA BasisElse ==
  ASSUME Basis,
         \/ UNCHANGED vars
         \/ \E t \in SignedIn : SaveItinerary(t)
         \/ \E new \in Timetables : Seed(new)
         \/ SeederDies
  PROVE  Basis'
<1>1. UNCHANGED <<state, step, who, ask, loaded, read>>
  BY DEF vars, seedVars, docVars, callVars, SaveItinerary, Seed, SeederDies
<1>2. TypeOK'
  <2>1. itinerary' \subseteq SignedIn
    BY DEF vars, docVars, SaveItinerary, Seed, SeederDies, Basis, TypeOK
  <2>2. /\ timetable' \in Timetables /\ writes' \in 0 .. MaxWrites
        /\ seeder' \in {"idle", "seeding", "down"} /\ crossed' \subseteq Calls
    <3>1. CASE UNCHANGED vars
      BY <3>1 DEF vars, seedVars, callVars, Basis, TypeOK
    <3>2. CASE \E t \in SignedIn : SaveItinerary(t)
      BY <3>2 DEF SaveItinerary, seedVars, callVars, Basis, TypeOK
    <3>3. CASE \E new \in Timetables : Seed(new)
      BY <3>3, ClashResolutionAssumption DEF Seed, Basis, TypeOK
    <3>4. CASE SeederDies
      BY <3>4 DEF SeederDies, callVars, Basis, TypeOK
    <3> QED
      BY <3>1, <3>2, <3>3, <3>4
  <2> QED
    BY <1>1, <2>1, <2>2 DEF Basis, TypeOK, IsState
<1>3. ShapeInv' /\ AskInv'
  BY <1>1 DEF Basis, ShapeInv, AskInv, StateShape
<1> QED
  BY <1>2, <1>3 DEF Basis

LEMMA BasisNext ==
  ASSUME Basis, [Next]_vars PROVE Basis'
<1>1. CASE \E c \in Calls, selected \in Lineups, artist \in Artists, days \in Views, named \in Namings :
             Ask(c, selected, artist, days, named)
  BY <1>1, AskStep
<1>2. CASE \E c \in Calls : Proceed(c)
  BY <1>2, LoadStep, ReadStep, StoreStep, TailStep DEF Proceed
<1>3. CASE Mark
  BY <1>3, MarkStep
<1>4. CASE \/ UNCHANGED vars
           \/ \E t \in SignedIn : SaveItinerary(t)
           \/ \E new \in Timetables : Seed(new)
           \/ SeederDies
  BY <1>4, BasisElse
<1> QED
  BY <1>1, <1>2, <1>3, <1>4 DEF Next

\* No artist is at once kept and deferred, and no conflict is decided twice, by
\* whatever decisions (resolve() replaces the decision of the same conflict).
THEOREM TypeCorrect == Spec => []TypeOK
<1>1. Init => Basis
  BY BasisInit
<1>2. Basis /\ [Next]_vars => Basis'
  BY BasisNext
<1>3. Basis => TypeOK
  BY DEF Basis
<1> QED
  BY <1>1, <1>2, <1>3, PTL DEF Spec

\* What a traveller is told of his lineup is what the timetable says: two artists
\* who each play once clash if and only if they cannot both be watched and neither
\* is deferred, whatever was decided before and whatever was seeded since
\* (detectLineupConflicts(), classifyOverlap()).
THEOREM ClashesAreReported ==
  Spec => []ClashesReported
<1>1. TypeOK => ClashesReported
  <2> SUFFICES ASSUME TypeOK PROVE ClashesReported
    OBVIOUS
  <2>1. timetable \in Timetables /\ Lineups \subseteq SUBSET Artists
    BY ClashResolutionAssumption DEF TypeOK
  <2>2. ASSUME NEW s, NEW selected \in Lineups
        PROVE  ReportsRight(timetable, selected, s.deferred, s.journey)
    BY <2>1, Reports
  <2> QED
    BY <2>2, Zenon DEF ClashesReported, ReportsRight
<1> QED
  BY <1>1, TypeCorrect, PTL

-----------------------------------------------------------------------------
(* What no step takes back *)

Forward ==
  /\ who' = who /\ writes' >= writes /\ crossed \subseteq crossed'
  /\ \A c \in Calls :
       /\ step[c] # "idle" => step'[c] # "idle"
       /\ step[c] = "refused" => step'[c] = "refused" /\ ask'[c] = ask[c]
       /\ c \in Stored => c \in Stored' /\ ask'[c] = ask[c] /\ read'[c] = read[c]
  /\ \A t \in Travellers :
       /\ state[t] # NoState => state'[t] # NoState
       /\ \/ state'[t].lineage = state[t].lineage /\ state'[t].route = state[t].route
          \/ \E e \in Calls : /\ step[e] = "storing" /\ e \in state'[t].lineage
                              /\ step'[e] \notin {"idle", "storing"}

LEMMA ForwardOfOneCall ==
  ASSUME Basis, NEW c \in Calls, Proceed(c)
  PROVE  Forward
<1> USE DEF Stored
<1>1. writes \in Nat /\ who[c] \in Travellers
  BY DEF Basis, TypeOK
<1>2. CASE Load(c)
  BY <1>1, <1>2, LoadStep DEF Forward
<1>3. CASE Read(c)
  BY <1>1, <1>3, ReadStep DEF Forward
<1>4. CASE Store(c)
  <2>1. /\ step[c] = "storing"
        /\ UNCHANGED <<timetable, writes, seeder, itinerary, who, ask, read, crossed>>
        /\ \A d \in Calls \ {c} : step'[d] = step[d]
        /\ step'[c] \in {"looking", "answered", "refused"}
    BY <1>4, StoreStep
  <2>2. ASSUME NEW t \in Travellers
        PROVE  /\ state[t] # NoState => state'[t] # NoState
               /\ \/ state'[t].lineage = state[t].lineage /\ state'[t].route = state[t].route
                  \/ c \in state'[t].lineage
    <3>1. state'[t] = state[t] \/ state'[t] = Decided(c)
      BY <1>4, StoreStep
    <3> QED
      BY <2>1, <3>1, DecidedFields, DecidedType
  <2> QED
    BY <1>1, <2>1, <2>2 DEF Forward
<1>5. CASE Look(c) \/ Create(c) \/ Lost(c)
  BY <1>1, <1>5, TailStep DEF Forward
<1> QED
  BY <1>2, <1>3, <1>4, <1>5 DEF Proceed

LEMMA AllForward ==
  ASSUME Basis, [Next]_vars PROVE Forward
<1>1. writes \in Nat
  BY DEF Basis, TypeOK
<1>2. CASE \E c \in Calls, selected \in Lineups, artist \in Artists, days \in Views, named \in Namings :
             Ask(c, selected, artist, days, named)
  BY <1>1, <1>2, AskStep DEF Forward, Stored
<1>3. CASE \E c \in Calls : Proceed(c)
  BY <1>3, ForwardOfOneCall
<1>4. CASE Mark
  <2>1. UNCHANGED <<writes, who, crossed, step, ask, read>>
    BY <1>4 DEF Mark, callVars
  <2>2. ASSUME NEW t \in Travellers
        PROVE  /\ state[t] # NoState => state'[t] # NoState
               /\ state'[t].lineage = state[t].lineage /\ state'[t].route = state[t].route
    <3>1. StateShape(state[t]) /\ state'[t] = MarkedState(state[t])
          /\ (state[t] = NoState \/ state[t].route \in Nat \ {0})
      BY <1>4, MarkStep DEF Basis, ShapeInv, TypeOK, IsState
    <3>2. CASE state[t] = NoState \/ state[t].schedule = timetable
      BY <3>1, <3>2 DEF MarkedState
    <3>3. CASE state[t] # NoState /\ state[t].schedule # timetable
      BY <3>1, <3>3, Marked, NoStateFields
    <3> QED
      BY <3>2, <3>3
  <2>3. Stored' = Stored
    BY <2>1 DEF Stored
  <2> QED
    BY <1>1, <2>1, <2>2, <2>3 DEF Forward
<1>5. CASE \/ UNCHANGED vars
           \/ \E t \in SignedIn : SaveItinerary(t)
           \/ \E new \in Timetables : Seed(new)
           \/ SeederDies
  <2>1. UNCHANGED <<state, step, who, ask, read>> /\ writes' >= writes /\ crossed \subseteq crossed'
    <3>1. CASE UNCHANGED vars
      BY <1>1, <3>1 DEF vars, seedVars, docVars, callVars
    <3>2. CASE \E t \in SignedIn : SaveItinerary(t)
      BY <1>1, <3>2 DEF SaveItinerary, seedVars, callVars
    <3>3. CASE \E new \in Timetables : Seed(new)
      BY <1>1, <3>3 DEF Seed, docVars
    <3>4. CASE SeederDies
      BY <1>1, <3>4 DEF SeederDies, docVars, callVars
    <3> QED
      BY <1>5, <3>1, <3>2, <3>3, <3>4
  <2> QED
    BY <2>1 DEF Forward, Stored
<1> QED
  BY <1>2, <1>3, <1>4, <1>5 DEF Next

-----------------------------------------------------------------------------
(* Choices *)

\* The decision of a call stands in a state: itself, or decided again by a call that
\* knew of it; or it was lost to a call, neither of the two knowing of the other.
Stands(s, c) ==
  \/ \E r \in s.resolutions :
       r.conflict = ask[c].conflict /\ (r.by = c \/ c \in read[r.by].lineage)
  \/ \E d \in s.lineage : d \notin read[c].lineage \union {c} /\ c \notin read[d].lineage

\* A state builds on stored calls of its traveller.
BuildsOn(s, t) == s.lineage \subseteq {c \in Stored : who[c] = t}

ChoiceInv ==
  /\ \A t \in Travellers : BuildsOn(state[t], t)
  /\ \A c \in Calls : BuildsOn(read[c], who[c])
  /\ \A c \in Calls : step[c] = "storing"
       => \A d \in read[c].lineage : Stands(read[c], d)

\* Nothing of this changes for a stored call.
LEMMA StandsStill ==
  ASSUME Basis, [Next]_vars, NEW s, NEW t, BuildsOn(s, t),
         s = NoState \/ IsState(s), NEW c \in Stored
  PROVE  BuildsOn(s, t)' /\ (Stands(s, c) => Stands(s, c)')
<1>1. /\ who' = who
      /\ \A d \in Stored : d \in Stored' /\ ask'[d] = ask[d] /\ read'[d] = read[d]
  BY AllForward DEF Forward, Stored
<1>2. \A r \in s.resolutions : r.by \in Stored
  BY NoStateFields DEF IsState, BuildsOn
<1> QED
  BY <1>1, <1>2 DEF BuildsOn, Stands

LEMMA BuildsStill ==
  ASSUME Basis, [Next]_vars, NEW s, NEW t, BuildsOn(s, t)
  PROVE  BuildsOn(s, t)'
  BY AllForward DEF Forward, Stored, BuildsOn

\* After Mark the same decisions stand.
LEMMA MarkedStands ==
  ASSUME NEW s, StateShape(s), NEW c
  PROVE  /\ MarkedState(s).lineage = s.lineage
         /\ Stands(s, c) => Stands(MarkedState(s), c)
<1>1. CASE s = NoState \/ s.schedule = timetable
  BY <1>1 DEF MarkedState
<1>2. CASE s # NoState /\ s.schedule # timetable
  <2>1. /\ MarkedState(s).resolutions = {Review(r) : r \in s.resolutions}
        /\ MarkedState(s).lineage = s.lineage
    BY <1>2, Marked
  <2>2. \A r \in s.resolutions : Review(r).conflict = r.conflict /\ Review(r).by = r.by
    BY Reviewed DEF StateShape
  <2> QED
    BY <2>1, <2>2 DEF Stands
<1> QED
  BY <1>1, <1>2

\* What a call decides leaves standing what stands in the state it read, and all that
\* it did not know of.
LEMMA DecidedStands ==
  ASSUME Basis, ChoiceInv, NEW c \in Calls, step[c] = "storing", NEW d \in Stored
  PROVE  Stands(Decided(c), d)
<1>1. d # c /\ d \in Calls
  BY DEF Stored
<1>2. /\ Decided(c).resolutions =
           {r \in read[c].resolutions : r.conflict # ask[c].conflict} \union {New(c)}
      /\ Decided(c).lineage = read[c].lineage \union {c}
      /\ New(c).conflict = ask[c].conflict /\ New(c).by = c
  BY DecidedFields, NewFields
<1>3. CASE d \notin read[c].lineage
  <2>1. c \notin read[d].lineage
    BY <1>1 DEF ChoiceInv, BuildsOn, Stored
  <2> QED
    BY <1>1, <1>2, <1>3, <2>1 DEF Stands
<1>4. CASE d \in read[c].lineage
  <2>1. Stands(read[c], d)
    BY <1>4 DEF ChoiceInv
  <2>2. CASE \E e \in read[c].lineage : /\ e \notin read[d].lineage \union {d}
                                        /\ d \notin read[e].lineage
    BY <1>2, <2>2 DEF Stands
  <2>3. CASE \E r \in read[c].resolutions :
               r.conflict = ask[d].conflict /\ (r.by = d \/ d \in read[r.by].lineage)
    <3>1. PICK r \in read[c].resolutions :
                 r.conflict = ask[d].conflict /\ (r.by = d \/ d \in read[r.by].lineage)
      BY <2>3
    <3>2. CASE r.conflict = ask[c].conflict
      BY <1>2, <1>4, <3>1, <3>2 DEF Stands
    <3>3. CASE r.conflict # ask[c].conflict
      BY <1>2, <3>1, <3>3 DEF Stands
    <3> QED
      BY <3>2, <3>3
  <2> QED
    BY <2>1, <2>2, <2>3 DEF Stands
<1> QED
  BY <1>3, <1>4

\* A call's own decision stands when it stores it.
LEMMA OwnStands ==
  ASSUME NEW c PROVE Stands(Decided(c), c)
  BY DecidedFields, NewFields DEF Stands

LEMMA StatesThatStay ==
  ASSUME Basis, ChoiceInv, ChoicesSurvive, [Next]_vars
  PROVE  /\ \A t \in Travellers : state'[t] = state[t] => BuildsOn(state[t], t)'
         /\ \A c \in Stored : state'[who[c]] = state[who[c]] => Stands(state[who[c]], c)'
         /\ \A c \in Calls : read'[c] = read[c] => BuildsOn(read[c], who[c])'
         /\ \A c \in Calls : read'[c] = read[c] /\ step[c] = "storing"
              => \A d \in read[c].lineage : Stands(read[c], d)'
<1>1. who' = who
  BY AllForward DEF Forward
<1>2. ASSUME NEW t \in Travellers, state'[t] = state[t]
      PROVE  BuildsOn(state[t], t)'
  <2>1. PICK s : s = state[t]
    OBVIOUS
  <2>2. BuildsOn(s, t)
    BY <2>1 DEF ChoiceInv
  <2>3. BuildsOn(s, t)'
    BY <2>2, BuildsStill
  <2> QED
    BY <1>2, <2>1, <2>3 DEF BuildsOn
<1>3. ASSUME NEW c \in Stored, state'[who[c]] = state[who[c]]
      PROVE  Stands(state[who[c]], c)'
  <2>1. PICK s, t : s = state[who[c]] /\ t = who[c]
    OBVIOUS
  <2>2. /\ Stands(s, c) /\ BuildsOn(s, t)
        /\ s = NoState \/ IsState(s)
    <3>1. c \in Calls /\ who[c] \in Travellers
      BY DEF Stored, Basis, TypeOK
    <3> QED
      BY <2>1, <3>1 DEF ChoicesSurvive, Stands, Basis, TypeOK, ChoiceInv
  <2>3. Stands(s, c)'
    BY <2>2, StandsStill
  <2> QED
    BY <1>1, <1>3, <2>1, <2>3 DEF Stands
<1>4. ASSUME NEW c \in Calls, read'[c] = read[c]
      PROVE  BuildsOn(read[c], who[c])'
  <2>1. PICK s, t : s = read[c] /\ t = who[c]
    OBVIOUS
  <2>2. BuildsOn(s, t)
    BY <2>1 DEF ChoiceInv
  <2>3. BuildsOn(s, t)'
    BY <2>2, BuildsStill
  <2> QED
    BY <1>1, <1>4, <2>1, <2>3 DEF BuildsOn
<1>5. ASSUME NEW c \in Calls, read'[c] = read[c], step[c] = "storing",
             NEW d \in read[c].lineage
      PROVE  Stands(read[c], d)'
  <2>1. PICK s, t : s = read[c] /\ t = who[c]
    OBVIOUS
  <2>2. Stands(s, d) /\ BuildsOn(s, t) /\ d \in Stored /\ (s = NoState \/ IsState(s))
    BY <1>5, <2>1 DEF ChoiceInv, BuildsOn, Basis, TypeOK
  <2>3. Stands(s, d)'
    BY <2>2, StandsStill
  <2> QED
    BY <1>5, <2>1, <2>3 DEF Stands
<1> QED
  BY <1>2, <1>3, <1>4, <1>5

LEMMA ChoicesOfOneCall ==
  ASSUME Basis, ChoiceInv, ChoicesSurvive, [Next]_vars, NEW c \in Calls, Proceed(c)
  PROVE  ChoiceInv' /\ ChoicesSurvive'
<1>1. /\ who' = who /\ who[c] \in Travellers /\ \A d \in Stored : d \in Stored'
      /\ \A d \in Stored : who[d] \in Travellers /\ d \in Calls
  BY AllForward DEF Forward, Stored, Basis, TypeOK
<1>2. /\ \A t \in Travellers : state'[t] = state[t] => BuildsOn(state[t], t)'
      /\ \A d \in Stored : state'[who[d]] = state[who[d]] => Stands(state[who[d]], d)'
      /\ \A d \in Calls : read'[d] = read[d] => BuildsOn(read[d], who[d])'
      /\ \A d \in Calls : read'[d] = read[d] /\ step[d] = "storing"
           => \A e \in read[d].lineage : Stands(read[d], e)'
  BY StatesThatStay
<1>3. CASE Load(c) \/ Look(c) \/ Create(c) \/ Lost(c)
  <2>1. /\ UNCHANGED state
        /\ \A d \in Calls : \/ read'[d] = read[d]
                            \/ d = c /\ read'[d] = NoState /\ step'[d] = "cutShort"
        /\ \A d \in Calls : step'[d] = "storing" => step[d] = "storing"
        /\ Stored' = Stored
    <3>1. CASE Load(c)
      BY <3>1, LoadStep DEF Stored
    <3>2. CASE Look(c) \/ Create(c) \/ Lost(c)
      BY <3>2, TailStep DEF Stored
    <3> QED
      BY <1>3, <3>1, <3>2
  <2>2. \A t \in Travellers : BuildsOn(state[t], t)'
    BY <1>2, <2>1
  <2>3. \A d \in Calls : BuildsOn(read[d], who[d])'
    BY <1>2, <2>1, NoStateFields DEF BuildsOn
  <2>4. \A d \in Calls : step'[d] = "storing"
          => \A e \in read'[d].lineage : Stands(read[d], e)'
    BY <1>2, <2>1
  <2>5. \A d \in Stored' : Stands(state[who[d]], d)'
    BY <1>2, <2>1
  <2>6. ChoiceInv'
    BY <2>2, <2>3, <2>4 DEF ChoiceInv
  <2> QED
    BY <2>5, <2>6 DEF ChoicesSurvive, Stands
<1>4. CASE Read(c)
  <2>1. /\ UNCHANGED state /\ step[c] = "reading"
        /\ \A d \in Calls \ {c} : read'[d] = read[d] /\ step'[d] = step[d]
        /\ \/ read'[c] = state[who[c]] /\ step'[c] = "storing"
           \/ read'[c] = read[c] /\ step'[c] = "refused"
    BY <1>4, ReadStep
  <2>2. Stored' = Stored
    BY <2>1 DEF Stored
  <2>3. \A t \in Travellers : BuildsOn(state[t], t)'
    BY <1>2, <2>1
  <2>4. \A d \in Stored' : Stands(state[who[d]], d)'
    BY <1>2, <2>1, <2>2
  <2>5. ASSUME NEW d \in Calls PROVE BuildsOn(read[d], who[d])'
    <3>1. CASE read'[d] = read[d]
      BY <1>2, <3>1
    <3>2. CASE d = c /\ read'[c] = state[who[c]]
      BY <1>1, <2>1, <2>3, <3>2 DEF BuildsOn
    <3> QED
      BY <2>1, <3>1, <3>2
  <2>6. ASSUME NEW d \in Calls, step'[d] = "storing", NEW e \in read'[d].lineage
        PROVE  Stands(read[d], e)'
    <3>1. CASE d = c
      <4>1. read'[c] = state'[who'[c]]
        BY <1>1, <2>1, <2>6, <3>1
      <4>2. e \in Stored' /\ who'[e] = who'[c]
        BY <1>1, <2>3, <2>6, <3>1, <4>1 DEF BuildsOn
      <4>3. Stands(state[who[e]], e)'
        BY <2>4, <4>2
      <4> QED
        BY <3>1, <4>1, <4>2, <4>3 DEF Stands
    <3>2. CASE d # c
      BY <1>2, <2>1, <2>6, <3>2
    <3> QED
      BY <3>1, <3>2
  <2>7. ChoiceInv'
    BY <2>3, <2>5, <2>6 DEF ChoiceInv
  <2> QED
    BY <2>4, <2>7 DEF ChoicesSurvive, Stands
<1>5. CASE Store(c)
  <2>1. /\ step[c] = "storing" /\ UNCHANGED <<ask, read>>
        /\ \A d \in Calls \ {c} : step'[d] = step[d]
        /\ \A t \in Travellers \ {who[c]} : state'[t] = state[t]
        /\ \/ step'[c] \in {"looking", "answered"} /\ state'[who[c]] = Decided(c)
           \/ step'[c] = "refused" /\ state'[who[c]] = state[who[c]]
    BY <1>5, StoreStep
  <2>2. \A d \in Calls : BuildsOn(read[d], who[d])'
    BY <1>2, <2>1
  <2>3. \A d \in Calls : step'[d] = "storing"
          => \A e \in read'[d].lineage : Stands(read[d], e)'
    BY <1>2, <2>1
  <2>4. CASE step'[c] = "refused" /\ state'[who[c]] = state[who[c]]
    <3>1. Stored' = Stored /\ \A t \in Travellers : state'[t] = state[t]
      BY <2>1, <2>4 DEF Stored
    <3>2. /\ \A t \in Travellers : BuildsOn(state[t], t)'
          /\ \A d \in Stored' : Stands(state[who[d]], d)'
      BY <1>1, <1>2, <3>1
    <3>3. ChoiceInv'
      BY <2>2, <2>3, <3>2 DEF ChoiceInv
    <3> QED
      BY <3>2, <3>3 DEF ChoicesSurvive, Stands
  <2>5. CASE step'[c] \in {"looking", "answered"} /\ state'[who[c]] = Decided(c)
    <3>1. Stored' = Stored \union {c}
      BY <2>1, <2>5 DEF Stored
    <3>2. ASSUME NEW t \in Travellers PROVE BuildsOn(state[t], t)'
      <4>1. CASE t # who[c]
        BY <1>2, <2>1, <4>1
      <4>2. CASE t = who[c]
        <5>1. state'[t].lineage = read[c].lineage \union {c}
          BY <2>5, <4>2, DecidedFields
        <5>2. read[c].lineage \subseteq {d \in Stored : who[d] = t}
          BY <4>2 DEF ChoiceInv, BuildsOn
        <5> QED
          BY <1>1, <3>1, <4>2, <5>1, <5>2 DEF BuildsOn
      <4> QED
        BY <4>1, <4>2
    <3>3. ASSUME NEW d \in Stored' PROVE Stands(state[who[d]], d)'
      <4>1. CASE who[d] = who[c]
        <5>1. Stands(Decided(c), d)
          BY <2>1, <3>1, <3>3, DecidedStands, OwnStands
        <5> QED
          BY <1>1, <2>1, <2>5, <4>1, <5>1 DEF Stands
      <4>2. CASE who[d] # who[c]
        BY <1>1, <1>2, <2>1, <3>1, <3>3, <4>2
      <4> QED
        BY <4>1, <4>2
    <3>4. ChoiceInv'
      BY <2>2, <2>3, <3>2 DEF ChoiceInv
    <3> QED
      BY <3>3, <3>4 DEF ChoicesSurvive, Stands
  <2> QED
    BY <2>1, <2>4, <2>5
<1> QED
  BY <1>3, <1>4, <1>5 DEF Proceed

LEMMA ChoicesElse ==
  ASSUME Basis, ChoiceInv, ChoicesSurvive, [Next]_vars, ~ \E c \in Calls : Proceed(c)
  PROVE  ChoiceInv' /\ ChoicesSurvive'
<1>1. /\ who' = who /\ read' = read
      /\ \A d \in Stored : d \in Stored' /\ d \in Calls /\ who[d] \in Travellers
      /\ \A c \in Stored' : c \in Stored
      /\ \A c \in Calls : step'[c] = "storing" => step[c] = "storing"
  <2>1. CASE \E c \in Calls, selected \in Lineups, artist \in Artists, days \in Views, named \in Namings :
               Ask(c, selected, artist, days, named)
    BY <2>1, AskStep DEF Stored, Basis, TypeOK
  <2>2. CASE ~ \E c \in Calls, selected \in Lineups, artist \in Artists, days \in Views, named \in Namings :
                 Ask(c, selected, artist, days, named)
    <3>1. UNCHANGED <<who, read, step>>
      BY <2>2, Zenon DEF Next, vars, callVars, SaveItinerary, Seed, Mark, SeederDies
    <3> QED
      BY <3>1 DEF Stored, Basis, TypeOK
  <2> QED
    BY <2>1, <2>2
<1>2. /\ \A t \in Travellers : state'[t] = state[t] => BuildsOn(state[t], t)'
      /\ \A d \in Stored : state'[who[d]] = state[who[d]] => Stands(state[who[d]], d)'
      /\ \A d \in Calls : BuildsOn(read[d], who[d])'
      /\ \A d \in Calls : step[d] = "storing" => \A e \in read[d].lineage : Stands(read[d], e)'
  BY <1>1, StatesThatStay
<1>3. \/ \A t \in Travellers : state'[t] = state[t]
      \/ /\ \A t \in Travellers : state'[t] = MarkedState(state[t])
         /\ UNCHANGED <<ask, read>>
  <2>1. CASE Mark
    BY <2>1, MarkStep DEF callVars
  <2>2. CASE ~ Mark
    <3>1. UNCHANGED state
      <4>1. CASE \E c \in Calls, selected \in Lineups, artist \in Artists, days \in Views, named \in Namings :
                   Ask(c, selected, artist, days, named)
        BY <4>1, AskStep
      <4>2. CASE ~ (\E c \in Calls, selected \in Lineups, artist \in Artists, days \in Views, named \in Namings :
                      Ask(c, selected, artist, days, named))
        BY <2>2, <4>2, Zenon DEF Next, vars, docVars, SaveItinerary, Seed, SeederDies
      <4> QED
        BY <4>1, <4>2
    <3>2. \A t \in Travellers : state'[t] = state[t]
      BY <3>1
    <3> QED
      BY <3>2, Zenon
  <2> QED
    BY <2>1, <2>2, Zenon
<1>4. ASSUME NEW t \in Travellers PROVE BuildsOn(state[t], t)'
  <2>1. CASE state'[t] = MarkedState(state[t])
    <3>1. state'[t].lineage = state[t].lineage
      BY <2>1, MarkedStands DEF Basis, ShapeInv
    <3> QED
      BY <1>1, <3>1 DEF BuildsOn, ChoiceInv
  <2> QED
    BY <1>2, <1>3, <2>1
<1>5. ASSUME NEW d \in Stored' PROVE Stands(state[who[d]], d)'
  <2>1. who[d] \in Travellers /\ d \in Stored /\ d \in Calls
    BY <1>1
  <2>2. CASE state'[who[d]] = MarkedState(state[who[d]]) /\ UNCHANGED <<ask, read>>
    <3>1. Stands(state[who[d]], d)
      BY <2>1 DEF ChoicesSurvive, Stands
    <3>2. Stands(MarkedState(state[who[d]]), d)
      BY <2>1, <3>1, MarkedStands DEF Basis, ShapeInv
    <3> QED
      BY <1>1, <2>2, <3>2 DEF Stands
  <2> QED
    BY <1>2, <1>3, <2>1, <2>2
<1>6. ChoiceInv'
  BY <1>1, <1>2, <1>4 DEF ChoiceInv
<1> QED
  BY <1>5, <1>6 DEF ChoicesSurvive, Stands

\* A stored decision is lost only to a decision of the same traveller that was made
\* without knowing of it, and of which it did not know (resolve() reads the state and
\* writes it back whole).
THEOREM DecisionsSurvive == Spec => []ChoicesSurvive
<1>1. Init => Basis /\ ChoiceInv /\ ChoicesSurvive
  <2>1. Init => Basis
    BY BasisInit
  <2>2. ASSUME Init PROVE ChoiceInv
    <3>1. /\ \A t \in Travellers : state[t] = NoState
          /\ \A c \in Calls : read[c] = NoState /\ step[c] = "idle"
      BY <2>2, Zenon DEF Init
    <3> QED
      BY <3>1, NoStateFields DEF ChoiceInv, BuildsOn
  <2>3. Init => ChoicesSurvive
    BY DEF Init, ChoicesSurvive, Stored
  <2> QED
    BY <2>1, <2>2, <2>3
<1>2. Basis /\ ChoiceInv /\ ChoicesSurvive /\ [Next]_vars
        => (Basis /\ ChoiceInv /\ ChoicesSurvive)'
  BY BasisNext, ChoicesOfOneCall, ChoicesElse
<1> QED
  BY <1>1, <1>2, PTL DEF Spec

-----------------------------------------------------------------------------
(* Refusals *)

Waiting == {"loading", "reading", "storing", "refused"}

\* What a call asks for when it is taken up, and after.
LEMMA AskedOrWaiting ==
  ASSUME Basis, [Next]_vars, NEW c \in Calls, step'[c] \in Waiting
  PROVE  \/ /\ step[c] \in Waiting /\ ask'[c] = ask[c]
            /\ step'[c] = "loading" => step[c] = "loading"
            /\ step'[c] = "reading" => step[c] \in {"loading", "reading"}
         \/ /\ ask'[c].schedule = None \/ ask'[c].schedule = timetable \/ ~ ask'[c].whole
            /\ ask'[c].route \in {None, state[who[c]].route}
            /\ ask'[c].writes = writes /\ ask'[c].lineage = state[who[c]].lineage
            /\ UNCHANGED <<timetable, writes, state, who>>
<1>1. CASE \E d \in Calls, selected \in Lineups, artist \in Artists, days \in Views, named \in Namings :
             Ask(d, selected, artist, days, named)
  BY <1>1, AskStep
<1>2. CASE \E d \in Calls : Proceed(d)
  BY <1>2, LoadStep, ReadStep, StoreStep, TailStep DEF Proceed, Waiting
<1>3. CASE ~ (\E d \in Calls : Proceed(d))
           /\ ~ (\E d \in Calls, selected \in Lineups, artist \in Artists, days \in Views, named \in Namings :
                   Ask(d, selected, artist, days, named))
  <2>1. UNCHANGED <<step, ask>>
    BY <1>3, Zenon DEF Next, vars, callVars, SaveItinerary, Seed, Mark, SeederDies
  <2> QED
    BY <2>1
<1> QED
  BY <1>1, <1>2, <1>3

LEMMA TimetableSteps ==
  ASSUME Basis, [Next]_vars
  PROVE  \/ UNCHANGED <<timetable, writes>>
         \/ writes' = writes + 1
<1>1. CASE \E d \in Calls, selected \in Lineups, artist \in Artists, days \in Views, named \in Namings :
             Ask(d, selected, artist, days, named)
  BY <1>1, AskStep
<1>2. CASE \E d \in Calls : Proceed(d)
  BY <1>2, LoadStep, ReadStep, StoreStep, TailStep DEF Proceed
<1>3. CASE Mark
  BY <1>3, MarkStep
<1>4. CASE \E new \in Timetables : Seed(new)
  BY <1>4 DEF Seed
<1>5. CASE UNCHANGED vars \/ (\E t \in SignedIn : SaveItinerary(t)) \/ SeederDies
  BY <1>5 DEF vars, seedVars, SaveItinerary, SeederDies
<1> QED
  BY <1>1, <1>2, <1>3, <1>4, <1>5 DEF Next

\* The traveller has decided since the client of a call looked.
Overtaken(c) == state[who[c]].lineage \ ask[c].lineage # {}

OldTimetable(c) == writes > ask[c].writes \/ ~ ask[c].whole

\* What a call that may still be refused has come to see of the timetable and of
\* the traveller's route.
SeenInv ==
  \A c \in Calls :
    /\ step[c] \in Waiting => ask[c].lineage \subseteq Stored /\ ask[c].writes \in 0 .. writes
    /\ step[c] = "loading" => ask[c].schedule \in {None, timetable} \/ OldTimetable(c)
    /\ step[c] \in {"loading", "reading"}
         => ask[c].route \in {None, state[who[c]].route} \/ Overtaken(c)

LEMMA OvertakenStays ==
  ASSUME Basis, SeenInv, [Next]_vars, NEW c \in Calls, step[c] \in Waiting, ask'[c] = ask[c],
         Overtaken(c) \/ state'[who[c]].route # state[who[c]].route
  PROVE  Overtaken(c)'
<1>1. who[c] \in Travellers /\ who'[c] = who[c] /\ ask[c].lineage \subseteq Stored
  BY AllForward DEF Forward, Basis, TypeOK, SeenInv
<1>2. \/ state'[who[c]].lineage = state[who[c]].lineage
         /\ state'[who[c]].route = state[who[c]].route
      \/ \E e \in Calls : /\ step[e] = "storing" /\ e \in state'[who[c]].lineage
                          /\ step'[e] \notin {"idle", "storing"}
  BY <1>1, AllForward DEF Forward
<1>3. CASE \E e \in Calls : step[e] = "storing" /\ e \in state'[who[c]].lineage
  <2>1. PICK e \in Calls : step[e] = "storing" /\ e \in state'[who[c]].lineage
    BY <1>3
  <2>2. e \notin ask[c].lineage
    BY <1>1, <2>1 DEF Stored
  <2> QED
    BY <1>1, <2>1, <2>2 DEF Overtaken
<1>4. CASE /\ state'[who[c]].lineage = state[who[c]].lineage
           /\ state'[who[c]].route = state[who[c]].route
  BY <1>1, <1>4 DEF Overtaken
<1> QED
  BY <1>2, <1>3, <1>4

LEMMA OldTimetableStays ==
  ASSUME Basis, SeenInv, [Next]_vars, NEW c \in Calls, step[c] \in Waiting, ask'[c] = ask[c],
         OldTimetable(c) \/ timetable' # timetable
  PROVE  OldTimetable(c)'
<1>1. writes \in Nat /\ ask[c].writes \in Nat /\ ask[c].writes <= writes
  BY DEF Basis, TypeOK, SeenInv
<1> QED
  BY <1>1, TimetableSteps DEF OldTimetable

LEMMA SeenNext ==
  ASSUME Basis, ChoiceInv, SeenInv, [Next]_vars PROVE SeenInv'
<1> SUFFICES ASSUME NEW c \in Calls, step'[c] \in Waiting
             PROVE  /\ ask'[c].lineage \subseteq Stored' /\ ask'[c].writes \in 0 .. writes'
                    /\ step'[c] = "loading"
                         => ask'[c].schedule \in {None, timetable'} \/ OldTimetable(c)'
                    /\ step'[c] \in {"loading", "reading"}
                         => ask'[c].route \in {None, state'[who'[c]].route} \/ Overtaken(c)'
  BY DEF SeenInv, Waiting
<1>1. /\ Stored \subseteq Stored' /\ who' = who /\ who[c] \in Travellers
      /\ writes \in Nat /\ writes' \in Nat /\ writes' >= writes
  BY AllForward, BasisNext DEF Forward, Basis, TypeOK, Stored
<1>2. CASE /\ step[c] \in Waiting /\ ask'[c] = ask[c]
           /\ step'[c] = "loading" => step[c] = "loading"
           /\ step'[c] = "reading" => step[c] \in {"loading", "reading"}
  <2>1. ask'[c].lineage \subseteq Stored' /\ ask'[c].writes \in 0 .. writes'
    BY <1>1, <1>2 DEF SeenInv
  <2>2. ASSUME step'[c] = "loading"
        PROVE  ask'[c].schedule \in {None, timetable'} \/ OldTimetable(c)'
    <3>1. ask[c].schedule \in {None, timetable} \/ OldTimetable(c)
      BY <1>2, <2>2 DEF SeenInv
    <3> QED
      BY <1>2, <3>1, OldTimetableStays
  <2>3. ASSUME step'[c] \in {"loading", "reading"}
        PROVE  ask'[c].route \in {None, state'[who'[c]].route} \/ Overtaken(c)'
    <3>1. ask[c].route \in {None, state[who[c]].route} \/ Overtaken(c)
      BY <1>2, <2>3 DEF SeenInv
    <3> QED
      BY <1>1, <1>2, <3>1, OvertakenStays
  <2> QED
    BY <2>1, <2>2, <2>3
<1>3. CASE /\ ask'[c].schedule = None \/ ask'[c].schedule = timetable \/ ~ ask'[c].whole
           /\ ask'[c].route \in {None, state[who[c]].route}
           /\ ask'[c].writes = writes /\ ask'[c].lineage = state[who[c]].lineage
           /\ UNCHANGED <<timetable, writes, state, who>>
  <2>1. state[who[c]].lineage \subseteq Stored
    BY <1>1 DEF ChoiceInv, BuildsOn
  <2> QED
    BY <1>1, <1>3, <2>1 DEF OldTimetable
<1> QED
  BY <1>2, <1>3, AskedOrWaiting

Taken(c) ==
  \E t \in Travellers \ {who[c]} :
    state[t] # NoState /\ (t \in SignedIn <=> who[c] \in SignedIn)

LEMMA RefusalsNext ==
  ASSUME Basis, SeenInv, RefusalsExplained, [Next]_vars PROVE RefusalsExplained'
<1> SUFFICES ASSUME NEW c \in Calls, step'[c] = "refused"
             PROVE  \/ ask'[c].schedule # None /\ OldTimetable(c)'
                    \/ ask'[c].route # None /\ Overtaken(c)'
                    \/ Taken(c)'
  BY DEF RefusalsExplained, OldTimetable, Overtaken, Taken
<1>1. /\ who' = who /\ \A t \in Travellers : state[t] # NoState => state'[t] # NoState
      /\ step[c] = "refused" => ask'[c] = ask[c]
  BY AllForward DEF Forward
<1>2. Taken(c) => Taken(c)'
  BY <1>1 DEF Taken
<1>3. CASE step[c] = "refused"
  <2>1. \/ ask[c].schedule # None /\ OldTimetable(c)
        \/ ask[c].route # None /\ Overtaken(c)
        \/ Taken(c)
    BY <1>3 DEF RefusalsExplained, OldTimetable, Overtaken, Taken
  <2> QED
    BY <1>1, <1>2, <1>3, <2>1, OvertakenStays, OldTimetableStays DEF Waiting
<1>4. CASE step[c] # "refused"
  <2>1. Load(c) \/ Read(c) \/ Store(c)
    <3>1. CASE \E d \in Calls, selected \in Lineups, artist \in Artists, days \in Views, named \in Namings :
                 Ask(d, selected, artist, days, named)
      BY <1>4, <3>1, AskStep
    <3>2. CASE \E d \in Calls : Proceed(d)
      BY <1>4, <3>2, LoadStep, ReadStep, StoreStep, TailStep DEF Proceed
    <3>3. CASE ~ (\E d \in Calls : Proceed(d))
               /\ ~ (\E d \in Calls, selected \in Lineups, artist \in Artists, days \in Views, named \in Namings :
                       Ask(d, selected, artist, days, named))
      <4>1. UNCHANGED step
        BY <3>3, Zenon DEF Next, vars, callVars, SaveItinerary, Seed, Mark, SeederDies
      <4> QED
        BY <1>4, <4>1
    <3> QED
      BY <3>1, <3>2, <3>3
  <2>2. CASE Load(c)
    <3>1. /\ step[c] = "loading" /\ ask' = ask
          /\ ask[c].schedule \notin {None, timetable}
      BY <2>2, LoadStep
    <3>2. OldTimetable(c)
      BY <3>1 DEF SeenInv
    <3> QED
      BY <3>1, <3>2, OldTimetableStays DEF Waiting
  <2>3. CASE Read(c)
    <3>1. /\ step[c] = "reading" /\ ask' = ask
          /\ ask[c].route \notin {None, state[who[c]].route}
      BY <2>3, ReadStep
    <3>2. Overtaken(c)
      BY <3>1 DEF SeenInv
    <3> QED
      BY <3>1, <3>2, OvertakenStays DEF Waiting
  <2>4. CASE Store(c)
    <3>1. ~ IndexAdmits(who[c]) /\ who[c] \in Travellers
      BY <2>4, StoreStep
    <3> QED
      BY <1>2, <3>1 DEF IndexAdmits, Taken
  <2> QED
    BY <2>1, <2>2, <2>3, <2>4
<1> QED
  BY <1>3, <1>4

\* A client that names no version is refused by the unique indexes alone; one that
\* names the timetable, only if it was written since or shown in part; one that
\* names the route, only if the traveller has decided since (the two 409 answers of
\* resolve()).
THEOREM RefusalsHaveReasons == Spec => []RefusalsExplained
<1> DEFINE Inv == Basis /\ ChoiceInv /\ ChoicesSurvive /\ SeenInv /\ RefusalsExplained
<1>1. Init => Inv
  <2> SUFFICES ASSUME Init PROVE Inv
    OBVIOUS
  <2>1. /\ \A t \in Travellers : state[t] = NoState
        /\ \A c \in Calls : read[c] = NoState /\ step[c] = "idle"
    BY Zenon DEF Init
  <2>2. Stored = {}
    BY <2>1 DEF Stored
  <2>3. ChoiceInv /\ ChoicesSurvive
    BY <2>1, <2>2, NoStateFields DEF ChoiceInv, BuildsOn, ChoicesSurvive
  <2>4. SeenInv /\ RefusalsExplained
    BY <2>1 DEF SeenInv, Waiting, RefusalsExplained
  <2> QED
    BY <2>3, <2>4, BasisInit
<1>2. Inv /\ [Next]_vars => Inv'
  BY BasisNext, ChoicesOfOneCall, ChoicesElse, SeenNext, RefusalsNext
<1>3. Inv => RefusalsExplained
  OBVIOUS
<1> HIDE DEF Inv
<1> QED
  BY <1>1, <1>2, <1>3, PTL DEF Spec

-----------------------------------------------------------------------------
(* Decisions and timetables *)

\* A state that builds on a call which a seeding ran into, or the reverse.
Crossed(s) == s.lineage \intersect crossed # {}

\* A state is of the present timetable, its unmarked decisions are of the state's, and
\* a call that no seeding ran into has the present timetable in hand.
CrossInv ==
  /\ \A t \in Travellers :
       /\ \/ state[t] = NoState \/ state[t].schedule = timetable
          \/ seeder # "idle" \/ Crossed(state[t])
       /\ \A r \in state[t].resolutions :
            r.schedule # state[t].schedule /\ ~ r.needsReview => Crossed(state[t])
  /\ \A c \in Calls \ crossed :
       /\ step[c] \in {"reading", "storing"} => loaded[c] = timetable /\ seeder = "idle"
       /\ step[c] = "storing" => \A r \in read[c].resolutions :
            r.schedule # loaded[c] /\ ~ r.needsReview => Crossed(read[c])

LEMMA CrossedMeansExplained ==
  ASSUME CrossInv PROVE UnmarkedExplained
<1> SUFFICES ASSUME NEW t \in Travellers, NEW r \in state[t].resolutions,
                    r.schedule # timetable, ~ r.needsReview
             PROVE  seeder # "idle" \/ state[t].lineage \intersect crossed # {}
  BY DEF UnmarkedExplained
<1>1. state[t] # NoState
  BY NoStateFields
<1> QED
  BY <1>1 DEF CrossInv, Crossed

\* Steps that leave the states alone and let no call go unnoticed into a seeding.
LEMMA CrossWhenStatesStay ==
  ASSUME CrossInv, UNCHANGED state, crossed \subseteq crossed',
         timetable' = timetable \/ seeder' # "idle",
         seeder = "idle" \/ seeder' # "idle",
         \A c \in Calls \ crossed' :
           /\ step'[c] \in {"reading", "storing"}
                => loaded'[c] = timetable' /\ seeder' = "idle"
           /\ step'[c] = "storing" => /\ step[c] = "storing"
                                      /\ loaded'[c] = loaded[c] /\ read'[c] = read[c]
  PROVE  CrossInv'
<1>1. ASSUME NEW t \in Travellers
      PROVE  (\/ state[t] = NoState \/ state[t].schedule = timetable
              \/ seeder # "idle" \/ Crossed(state[t]))'
  BY DEF CrossInv, Crossed
<1>2. ASSUME NEW t \in Travellers, NEW r \in state'[t].resolutions,
             r.schedule # state'[t].schedule, ~ r.needsReview
      PROVE  Crossed(state[t])'
  BY <1>2 DEF CrossInv, Crossed
<1>3. ASSUME NEW c \in Calls \ crossed', step'[c] = "storing", NEW r \in read'[c].resolutions,
             r.schedule # loaded'[c], ~ r.needsReview
      PROVE  Crossed(read[c])'
  BY <1>3 DEF CrossInv, Crossed
<1> QED
  BY <1>1, <1>2, <1>3 DEF CrossInv

LEMMA CrossOfOneCall ==
  ASSUME Basis, CrossInv, NEW c \in Calls, Proceed(c)
  PROVE  CrossInv'
<1>1. CASE Load(c)
  <2>1. crossed \subseteq crossed' /\ (seeder # "idle" => c \in crossed')
    BY <1>1, LoadStep
  <2>2. UNCHANGED <<timetable, seeder, state, read>>
    BY <1>1, LoadStep
  <2>3. /\ \A d \in Calls \ {c} : step'[d] = step[d] /\ loaded'[d] = loaded[d]
        /\ \/ step'[c] = "reading" /\ loaded'[c] = timetable
           \/ step'[c] = "refused"
    BY <1>1, LoadStep
  <2>4. ASSUME NEW d \in Calls \ crossed'
        PROVE  /\ step'[d] \in {"reading", "storing"}
                    => loaded'[d] = timetable' /\ seeder' = "idle"
               /\ step'[d] = "storing" => /\ step[d] = "storing"
                                          /\ loaded'[d] = loaded[d] /\ read'[d] = read[d]
    <3>1. CASE d = c
      BY <2>1, <2>2, <2>3, <2>4, <3>1
    <3>2. CASE d # c
      BY <2>1, <2>2, <2>3, <2>4, <3>2 DEF CrossInv
    <3> QED
      BY <3>1, <3>2
  <2> QED
    BY <2>1, <2>2, <2>4, CrossWhenStatesStay
<1>2. CASE Look(c) \/ Create(c) \/ Lost(c)
  <2>1. UNCHANGED <<timetable, seeder, state, crossed>>
    BY <1>2, TailStep
  <2>2. /\ \A d \in Calls \ {c} : /\ step'[d] = step[d] /\ loaded'[d] = loaded[d]
                                  /\ read'[d] = read[d]
        /\ step'[c] \notin {"reading", "storing"}
    BY <1>2, TailStep
  <2> QED
    BY <2>1, <2>2, CrossWhenStatesStay DEF CrossInv
<1>3. CASE Read(c)
  <2>1. /\ UNCHANGED <<timetable, seeder, state, crossed>> /\ step[c] = "reading"
        /\ \A d \in Calls \ {c} : /\ step'[d] = step[d] /\ loaded'[d] = loaded[d]
                                  /\ read'[d] = read[d]
        /\ \/ step'[c] = "storing" /\ loaded'[c] = loaded[c] /\ read'[c] = state[who[c]]
           \/ step'[c] = "refused"
    BY <1>3, ReadStep
  <2>2. who[c] \in Travellers
    BY DEF Basis, TypeOK
  <2>3. ASSUME NEW t \in Travellers
        PROVE  /\ (\/ state[t] = NoState \/ state[t].schedule = timetable
                   \/ seeder # "idle" \/ Crossed(state[t]))'
               /\ \A r \in state'[t].resolutions :
                    r.schedule # state'[t].schedule /\ ~ r.needsReview => Crossed(state[t])'
    BY <2>1 DEF CrossInv, Crossed
  <2>4. ASSUME NEW d \in Calls \ crossed'
        PROVE  /\ step'[d] \in {"reading", "storing"}
                    => loaded'[d] = timetable' /\ seeder' = "idle"
               /\ step'[d] = "storing" => \A r \in read'[d].resolutions :
                    r.schedule # loaded'[d] /\ ~ r.needsReview => Crossed(read[d])'
    <3>1. CASE d # c
      BY <2>1, <2>4, <3>1 DEF CrossInv, Crossed
    <3>2. CASE d = c /\ step'[c] = "refused"
      BY <3>2
    <3>3. CASE /\ d = c /\ step'[c] = "storing" /\ loaded'[c] = loaded[c]
               /\ read'[c] = state[who[c]]
      <4>1. loaded[c] = timetable /\ seeder = "idle"
        BY <2>1, <2>4, <3>3 DEF CrossInv
      <4>2. ASSUME NEW r \in state[who[c]].resolutions, r.schedule # timetable, ~ r.needsReview
            PROVE  Crossed(state[who[c]])
        <5>1. UnmarkedExplained
          BY CrossedMeansExplained
        <5> QED
          BY <2>2, <4>1, <4>2, <5>1 DEF UnmarkedExplained, Crossed
      <4> QED
        BY <2>1, <3>3, <4>1, <4>2 DEF Crossed
    <3> QED
      BY <2>1, <3>1, <3>2, <3>3
  <2> QED
    BY <2>3, <2>4 DEF CrossInv
<1>4. CASE Store(c)
  <2>1. /\ step[c] = "storing" /\ who[c] \in Travellers
        /\ UNCHANGED <<timetable, seeder, read, crossed>>
        /\ \A d \in Calls \ {c} : step'[d] = step[d] /\ loaded'[d] = loaded[d]
        /\ \A t \in Travellers \ {who[c]} : state'[t] = state[t]
        /\ step'[c] \notin {"reading", "storing"}
        /\ state'[who[c]] = Decided(c) \/ state'[who[c]] = state[who[c]]
    BY <1>4, StoreStep
  <2>2. \A d \in Calls \ crossed' :
          /\ step'[d] \in {"reading", "storing"} => loaded'[d] = timetable' /\ seeder' = "idle"
          /\ step'[d] = "storing" => \A r \in read'[d].resolutions :
               r.schedule # loaded'[d] /\ ~ r.needsReview => Crossed(read[d])'
    BY <2>1 DEF CrossInv, Crossed
  <2>3. ASSUME NEW t \in Travellers
        PROVE  /\ (\/ state[t] = NoState \/ state[t].schedule = timetable
                   \/ seeder # "idle" \/ Crossed(state[t]))'
               /\ \A r \in state'[t].resolutions :
                    r.schedule # state'[t].schedule /\ ~ r.needsReview => Crossed(state[t])'
    <3>1. CASE state'[t] = state[t]
      BY <2>1, <3>1 DEF CrossInv, Crossed
    <3>2. CASE state'[t] = Decided(c)
      <4>1. /\ state'[t].schedule = loaded[c]
            /\ state'[t].lineage = read[c].lineage \union {c}
            /\ state'[t].resolutions =
                 {r \in read[c].resolutions : r.conflict # ask[c].conflict} \union {New(c)}
            /\ New(c).schedule = loaded[c]
        BY <3>2, DecidedFields, NewFields
      <4>2. CASE c \in crossed
        BY <2>1, <4>1, <4>2 DEF Crossed
      <4>3. CASE c \notin crossed
        <5>1. loaded[c] = timetable
          BY <2>1, <4>3 DEF CrossInv
        <5>2. ASSUME NEW r \in state'[t].resolutions,
                     r.schedule # state'[t].schedule, ~ r.needsReview
              PROVE  Crossed(state[t])'
          <6>1. r \in read[c].resolutions /\ r.schedule # loaded[c]
            BY <4>1, <5>2
          <6>2. Crossed(read[c])
            BY <2>1, <4>3, <5>2, <6>1 DEF CrossInv
          <6> QED
            BY <2>1, <4>1, <6>2 DEF Crossed
        <5> QED
          BY <2>1, <4>1, <5>1, <5>2
      <4> QED
        BY <4>2, <4>3
    <3> QED
      BY <2>1, <3>1, <3>2
  <2> QED
    BY <2>2, <2>3 DEF CrossInv
<1> QED
  BY <1>1, <1>2, <1>3, <1>4 DEF Proceed

LEMMA CrossOfMark ==
  ASSUME Basis, CrossInv, Mark PROVE CrossInv'
<1>1. /\ UNCHANGED <<timetable, step, loaded, read, crossed>> /\ seeder = "seeding"
      /\ \A t \in Travellers : state'[t] = MarkedState(state[t])
  BY MarkStep DEF callVars
<1>2. \A c \in Calls \ crossed' : step'[c] \notin {"reading", "storing"}
  BY <1>1 DEF CrossInv
<1>3. ASSUME NEW t \in Travellers
      PROVE  /\ (\/ state[t] = NoState \/ state[t].schedule = timetable
                 \/ seeder # "idle" \/ Crossed(state[t]))'
             /\ \A r \in state'[t].resolutions :
                  r.schedule # state'[t].schedule /\ ~ r.needsReview => Crossed(state[t])'
  <2>1. StateShape(state[t])
    BY DEF Basis, ShapeInv
  <2>2. CASE state[t] = NoState \/ state[t].schedule = timetable
    <3>1. state'[t] = state[t]
      BY <1>1, <2>2 DEF MarkedState
    <3> QED
      BY <1>1, <2>2, <3>1 DEF CrossInv, Crossed
  <2>3. CASE state[t] # NoState /\ state[t].schedule # timetable
    <3>1. /\ state'[t].schedule = timetable
          /\ state'[t].resolutions = {Review(r) : r \in state[t].resolutions}
      BY <1>1, <2>1, <2>3, Marked
    <3>2. \A r \in state'[t].resolutions : r.needsReview = TRUE
      BY <2>1, <3>1, Reviewed DEF StateShape
    <3> QED
      BY <1>1, <3>1, <3>2
  <2> QED
    BY <2>2, <2>3
<1> QED
  BY <1>2, <1>3 DEF CrossInv

LEMMA CrossNext ==
  ASSUME Basis, CrossInv, [Next]_vars PROVE CrossInv'
<1>1. CASE \E c \in Calls, selected \in Lineups, artist \in Artists, days \in Views, named \in Namings :
             Ask(c, selected, artist, days, named)
  <2>1. PICK c \in Calls, selected \in Lineups, artist \in Artists, days \in Views, named \in Namings :
               Ask(c, selected, artist, days, named)
    BY <1>1
  <2>2. /\ UNCHANGED <<timetable, seeder, state, loaded, read, crossed>>
        /\ step'[c] = "loading" /\ \A d \in Calls \ {c} : step'[d] = step[d]
    BY <2>1, AskStep
  <2> QED
    BY <2>2, CrossWhenStatesStay DEF CrossInv
<1>2. CASE \E c \in Calls : Proceed(c)
  BY <1>2, CrossOfOneCall
<1>3. CASE Mark
  BY <1>3, CrossOfMark
<1>4. CASE \E new \in Timetables : Seed(new)
  <2>1. /\ UNCHANGED <<state, step, loaded, read>> /\ seeder' = "seeding"
        /\ crossed' = crossed \union {c \in Calls : step[c] \in {"reading", "storing"}}
    BY <1>4 DEF Seed, docVars
  <2> QED
    BY <2>1, CrossWhenStatesStay
<1>5. CASE SeederDies
  <2>1. /\ UNCHANGED <<timetable, state, step, loaded, read, crossed>>
        /\ seeder = "seeding" /\ seeder' = "down"
    BY <1>5 DEF SeederDies, docVars, callVars
  <2> QED
    BY <2>1, CrossWhenStatesStay DEF CrossInv
<1>6. CASE UNCHANGED vars \/ \E t \in SignedIn : SaveItinerary(t)
  <2>1. UNCHANGED <<timetable, seeder, state, step, loaded, read, crossed>>
    <3>1. CASE UNCHANGED vars
      BY <3>1 DEF vars, seedVars, docVars, callVars
    <3>2. CASE \E t \in SignedIn : SaveItinerary(t)
      BY <3>2 DEF SaveItinerary, seedVars, callVars
    <3> QED
      BY <1>6, <3>1, <3>2
  <2> QED
    BY <2>1 DEF CrossInv, Crossed
<1> QED
  BY <1>1, <1>2, <1>3, <1>4, <1>5, <1>6 DEF Next

\* A decision about a timetable that is no longer in force is marked for review,
\* unless a seeding is under way or was cut short, or a decision that the traveller's
\* state builds on and a seeding ran into each other (invalidateForScheduleChange()
\* reads the states at one moment only).
THEOREM OldDecisionsAreMarked == Spec => []UnmarkedExplained
<1>1. Init => Basis /\ CrossInv
  <2>1. Init => Basis
    BY BasisInit
  <2>2. ASSUME Init PROVE CrossInv
    <3>1. /\ \A t \in Travellers : state[t] = NoState
          /\ \A c \in Calls : step[c] = "idle"
      BY <2>2, Zenon DEF Init
    <3> QED
      BY <3>1, NoStateFields DEF CrossInv
  <2> QED
    BY <2>1, <2>2
<1>2. Basis /\ CrossInv /\ [Next]_vars => (Basis /\ CrossInv)'
  BY BasisNext, CrossNext
<1>3. CrossInv => UnmarkedExplained
  BY CrossedMeansExplained
<1> QED
  BY <1>1, <1>2, <1>3, PTL DEF Spec
-----------------------------------------------------------------------------
(* The last decision *)

\* A state changes only by Mark or by a decision; a call keeps the state it read.
LEMMA StateSteps ==
  ASSUME Basis, [Next]_vars, NEW t \in Travellers
  PROVE  \/ state'[t] = state[t]
         \/ state'[t] = MarkedState(state[t])
         \/ \E c \in Calls : /\ step[c] = "storing" /\ step'[c] \in {"looking", "answered"}
                             /\ who[c] = t /\ state'[t] = Decided(c)
<1>1. CASE \E c \in Calls, selected \in Lineups, artist \in Artists, days \in Views, named \in Namings :
             Ask(c, selected, artist, days, named)
  BY <1>1, AskStep
<1>2. CASE \E c \in Calls : Proceed(c)
  <2>1. PICK c \in Calls : Proceed(c)
    BY <1>2
  <2>2. CASE Store(c)
    <3>1. /\ step[c] = "storing"
          /\ t # who[c] => state'[t] = state[t]
          /\ \/ step'[c] \in {"looking", "answered"} /\ state'[who[c]] = Decided(c)
             \/ state'[who[c]] = state[who[c]]
      BY <2>2, StoreStep
    <3> QED
      BY <3>1
  <2>3. CASE ~ Store(c)
    BY <2>1, <2>3, LoadStep, ReadStep, TailStep DEF Proceed
  <2> QED
    BY <2>2, <2>3
<1>3. CASE Mark
  BY <1>3, MarkStep
<1>4. CASE \/ UNCHANGED vars
           \/ \E u \in SignedIn : SaveItinerary(u)
           \/ \E new \in Timetables : Seed(new)
           \/ SeederDies
  <2>1. UNCHANGED state
    BY <1>4 DEF vars, docVars, SaveItinerary, Seed, SeederDies
  <2> QED
    BY <2>1
<1> QED
  BY <1>1, <1>2, <1>3, <1>4 DEF Next

LEMMA ReadSteps ==
  ASSUME Basis, [Next]_vars, NEW c \in Calls
  PROVE  read'[c] \in {read[c], NoState, state[who[c]]}
<1>1. CASE \E d \in Calls, selected \in Lineups, artist \in Artists, days \in Views, named \in Namings :
             Ask(d, selected, artist, days, named)
  BY <1>1, AskStep
<1>2. CASE \E d \in Calls : Proceed(d)
  <2>1. PICK d \in Calls : Proceed(d)
    BY <1>2
  <2> QED
    BY <2>1, LoadStep, ReadStep, StoreStep, TailStep DEF Proceed
<1>3. CASE ~ (\E d \in Calls : Proceed(d))
           /\ ~ (\E d \in Calls, selected \in Lineups, artist \in Artists, days \in Views, named \in Namings :
                   Ask(d, selected, artist, days, named))
  <2>1. UNCHANGED read
    BY <1>3, Zenon DEF Next, vars, callVars, SaveItinerary, Seed, Mark, SeederDies
  <2> QED
    BY <2>1
<1> QED
  BY <1>1, <1>2, <1>3

\* A step stores one decision at most.
LEMMA StoredOneByOne ==
  ASSUME Basis, [Next]_vars
  PROVE  Stored' = Stored \/ \E c \in Calls : Stored' = Stored \union {c}
<1>1. Stored \subseteq Stored'
  BY AllForward DEF Forward, Stored
<1>2. CASE \E d \in Calls, selected \in Lineups, artist \in Artists, days \in Views, named \in Namings :
             Ask(d, selected, artist, days, named)
  BY <1>2, AskStep DEF Stored
<1>3. CASE \E d \in Calls : Proceed(d)
  <2>1. PICK d \in Calls : Proceed(d)
    BY <1>3
  <2>2. \A c \in Calls : c # d => step'[c] = step[c]
    BY <2>1, LoadStep, ReadStep, StoreStep, TailStep DEF Proceed
  <2>3. Stored' \subseteq Stored \union {d}
    BY <2>2 DEF Stored
  <2> QED
    BY <1>1, <2>3
<1>4. CASE ~ (\E d \in Calls : Proceed(d))
           /\ ~ (\E d \in Calls, selected \in Lineups, artist \in Artists, days \in Views, named \in Namings :
                   Ask(d, selected, artist, days, named))
  <2>1. UNCHANGED step
    BY <1>4, Zenon DEF Next, vars, callVars, SaveItinerary, Seed, Mark, SeederDies
  <2> QED
    BY <2>1 DEF Stored
<1> QED
  BY <1>2, <1>3, <1>4

\* What a call asks for was offered to its client.
AskDecides ==
  \A c \in Calls :
    step[c] \in {"loading", "reading", "storing"} \/ c \in Stored
      => /\ ask[c].option.keeps \intersect ask[c].option.defers = {}
         /\ ask[c].option.defers \subseteq ask[c].conflict.between

LEMMA AskDecidesNext ==
  ASSUME Basis, AskDecides, [Next]_vars PROVE AskDecides'
<1> DEFINE Asking(c) == step[c] \in {"loading", "reading", "storing"} \/ c \in Stored
<1> SUFFICES ASSUME NEW c \in Calls, Asking(c)'
             PROVE  /\ ask'[c].option.keeps \intersect ask'[c].option.defers = {}
                    /\ ask'[c].option.defers \subseteq ask'[c].conflict.between
  BY DEF AskDecides
<1>1. \/ Asking(c) /\ ask'[c] = ask[c]
      \/ /\ ask'[c].option.keeps \intersect ask'[c].option.defers = {}
         /\ ask'[c].option.defers \subseteq ask'[c].conflict.between
  <2>1. CASE \E d \in Calls, selected \in Lineups, artist \in Artists, days \in Views, named \in Namings :
               Ask(d, selected, artist, days, named)
    BY <2>1, AskStep DEF Stored
  <2>2. CASE \E d \in Calls : Proceed(d)
    <3>1. PICK d \in Calls : Proceed(d)
      BY <2>2
    <3>2. CASE d = c
      BY <3>1, <3>2, LoadStep, ReadStep, StoreStep, TailStep DEF Proceed, Stored
    <3>3. CASE d # c
      <4>1. step'[c] = step[c] /\ ask'[c] = ask[c]
        BY <3>1, <3>3, LoadStep, ReadStep, StoreStep, TailStep DEF Proceed
      <4> QED
        BY <4>1 DEF Stored
    <3> QED
      BY <3>2, <3>3
  <2>3. CASE ~ (\E d \in Calls : Proceed(d))
             /\ ~ (\E d \in Calls, selected \in Lineups, artist \in Artists, days \in Views, named \in Namings :
                     Ask(d, selected, artist, days, named))
    <3>1. UNCHANGED <<step, ask>>
      BY <2>3, Zenon DEF Next, vars, callVars, SaveItinerary, Seed, Mark, SeederDies
    <3> QED
      BY <3>1 DEF Stored
  <2> QED
    BY <2>1, <2>2, <2>3
<1> QED
  BY <1>1 DEF AskDecides

\* The decision of a call is the traveller's current one.
InForce(c, s) ==
  /\ c \in s.lineage
  /\ ask[c].option.keeps \subseteq s.journey
  /\ ask[c].option.defers \subseteq s.deferred
  /\ \E r \in s.resolutions : r.by = c /\ r.conflict = ask[c].conflict

\* The traveller's state is what the decision made of the state it had read: of the
\* stored ones it is the last.
IsLast(c, t) == c \in Stored /\ who[c] = t /\ state[t].lineage = read[c].lineage \union {c}

LastInForce ==
  \A t \in Travellers :
    state[t] # NoState => \E c \in Stored : IsLast(c, t) /\ InForce(c, state[t])

\* No two decisions build on each other.
NoneMutual ==
  \A c, d \in Stored : c # d => ~ (c \in read[d].lineage /\ d \in read[c].lineage)

LEMMA NoneMutualNext ==
  ASSUME Basis, ChoiceInv, NoneMutual, [Next]_vars PROVE NoneMutual'
<1>1. \A c \in Calls : read[c].lineage \subseteq Stored
  BY DEF ChoiceInv, BuildsOn
<1>2. \A c \in Stored : c \in Calls /\ read'[c] = read[c]
  BY AllForward DEF Forward, Stored
<1>3. CASE Stored' = Stored
  BY <1>2, <1>3 DEF NoneMutual
<1>4. CASE \E e \in Calls : e \notin Stored /\ Stored' = Stored \union {e}
  <2>1. PICK e \in Calls : e \notin Stored /\ Stored' = Stored \union {e}
    BY <1>4
  <2>2. \A c \in Stored : e \notin read'[c].lineage
    BY <1>1, <1>2, <2>1
  <2> QED
    BY <1>2, <2>1, <2>2 DEF NoneMutual
<1> QED
  BY <1>3, <1>4, StoredOneByOne

LEMMA OneLast ==
  ASSUME NoneMutual, NEW t, NEW c, NEW d, IsLast(c, t), IsLast(d, t)
  PROVE  c = d
  BY DEF IsLast, NoneMutual

LEMMA InForceNext ==
  ASSUME Basis, AskDecides, LastInForce, [Next]_vars PROVE LastInForce'
<1> SUFFICES ASSUME NEW t \in Travellers, state'[t] # NoState
             PROVE  \E c \in Stored' : IsLast(c, t)' /\ InForce(c, state[t])'
  BY DEF LastInForce
<1>1. who' = who /\ \A c \in Stored : c \in Stored' /\ ask'[c] = ask[c] /\ read'[c] = read[c]
  BY AllForward DEF Forward, Stored
<1>2. ASSUME NEW c \in Stored, InForce(c, state[t]), IsLast(c, t),
             \/ state'[t] = state[t]
             \/ state'[t] = MarkedState(state[t])
      PROVE  \E d \in Stored' : IsLast(d, t)' /\ InForce(d, state[t])'
  <2>1. /\ state'[t].lineage = state[t].lineage /\ state'[t].journey = state[t].journey
        /\ state'[t].deferred = state[t].deferred
        /\ \A r \in state[t].resolutions :
             \E q \in state'[t].resolutions : q.by = r.by /\ q.conflict = r.conflict
    <3>1. CASE state'[t] = state[t]
      BY <3>1
    <3>2. CASE state'[t] = MarkedState(state[t]) /\ state[t] # NoState
               /\ state[t].schedule # timetable
      <4>1. PICK s : s = state[t]
        OBVIOUS
      <4>2. StateShape(s)
        BY <4>1 DEF Basis, ShapeInv
      <4>3. /\ MarkedState(s).resolutions = {Review(r) : r \in s.resolutions}
            /\ MarkedState(s).lineage = s.lineage /\ MarkedState(s).journey = s.journey
            /\ MarkedState(s).deferred = s.deferred
        BY <3>2, <4>1, <4>2, Marked
      <4>4. \A r \in s.resolutions : Review(r).conflict = r.conflict /\ Review(r).by = r.by
        BY <4>2, Reviewed DEF StateShape
      <4> QED
        BY <3>2, <4>1, <4>3, <4>4
    <3>3. CASE state'[t] = MarkedState(state[t])
               /\ (state[t] = NoState \/ state[t].schedule = timetable)
      BY <3>3 DEF MarkedState
    <3> QED
      BY <1>2, <3>1, <3>2, <3>3
  <2>2. InForce(c, state[t])'
    BY <1>1, <1>2, <2>1 DEF InForce
  <2>3. IsLast(c, t)'
    BY <1>1, <1>2, <2>1 DEF IsLast
  <2> QED
    BY <1>1, <1>2, <2>2, <2>3
<1>3. ASSUME NEW c \in Calls, step[c] = "storing", step'[c] \in {"looking", "answered"},
             who[c] = t, state'[t] = Decided(c), ask'[c] = ask[c], read'[c] = read[c]
      PROVE  \E d \in Stored' : IsLast(d, t)' /\ InForce(d, state[t])'
  <2>1. c \in Stored'
    BY <1>3 DEF Stored
  <2>2. /\ Decided(c).deferred = Deferred(c) /\ Decided(c).journey = Journey(c)
        /\ Decided(c).lineage = read[c].lineage \union {c}
        /\ New(c) \in Decided(c).resolutions
        /\ New(c).by = c /\ New(c).conflict = ask[c].conflict
    BY DecidedFields, NewFields
  <2>3. ask[c].option.keeps \intersect ask[c].option.defers = {}
    BY <1>3 DEF AskDecides
  <2>4. ask[c].option.keeps \subseteq Journey(c) /\ ask[c].option.defers \subseteq Deferred(c)
    BY <2>3 DEF Journey, Deferred
  <2>5. InForce(c, state[t])'
    BY <1>3, <2>2, <2>4 DEF InForce
  <2>6. IsLast(c, t)'
    BY <1>1, <1>3, <2>1, <2>2 DEF IsLast
  <2> QED
    BY <2>1, <2>5, <2>6
<1>4. ASSUME NEW c \in Calls, step[c] = "storing"
      PROVE  (ask'[c] = ask[c] /\ read'[c] = read[c]) \/ step'[c] = "cutShort"
  <2>1. CASE \E d \in Calls, selected \in Lineups, artist \in Artists, days \in Views, named \in Namings :
               Ask(d, selected, artist, days, named)
    BY <1>4, <2>1, AskStep
  <2>2. CASE \E d \in Calls : Proceed(d)
    BY <1>4, <2>2, LoadStep, ReadStep, StoreStep, TailStep DEF Proceed
  <2>3. CASE ~ (\E d \in Calls : Proceed(d))
             /\ ~ (\E d \in Calls, selected \in Lineups, artist \in Artists, days \in Views, named \in Namings :
                     Ask(d, selected, artist, days, named))
    BY <2>3, Zenon DEF Next, vars, callVars, SaveItinerary, Seed, Mark, SeederDies
  <2> QED
    BY <2>1, <2>2, <2>3
<1>5. state'[t] = state[t] \/ state'[t] = MarkedState(state[t]) => state[t] # NoState
  BY DEF MarkedState
<1>6. state[t] # NoState => \E c \in Stored : IsLast(c, t) /\ InForce(c, state[t])
  BY DEF LastInForce
<1> QED
  BY <1>2, <1>3, <1>4, <1>5, <1>6, StateSteps

\* As long as a traveller has a state there is one decision of his that was stored
\* last, and it is in force: the artists it keeps are on his journey and those it
\* defers are deferred, and whatever timetable is seeded since, its clash is found
\* in no lineup again, unless he chose to watch both.
DecisionInForce ==
  \A t \in Travellers : state[t] # NoState =>
    \E c \in Stored :
      /\ IsLast(c, t) /\ \A d \in Stored : IsLast(d, t) => d = c
      /\ InForce(c, state[t])
      /\ ask[c].option.defers # {}
           => \A selected \in SUBSET Artists :
                \A conflict \in DetectConflicts(timetable, selected,
                                                state[t].deferred, state[t].journey) :
                  conflict.between = ask[c].conflict.between
                    => conflict.type = "schedule-pending"

THEOREM DecisionsInForce == Spec => []DecisionInForce
<1> DEFINE Inv == Basis /\ ChoiceInv /\ ChoicesSurvive /\ AskDecides /\ NoneMutual /\ LastInForce
<1>1. Init => Inv
  <2> SUFFICES ASSUME Init PROVE Inv
    OBVIOUS
  <2>1. /\ \A t \in Travellers : state[t] = NoState
        /\ \A c \in Calls : read[c] = NoState /\ step[c] = "idle"
    BY Zenon DEF Init
  <2>2. Stored = {}
    BY <2>1 DEF Stored
  <2>3. ChoiceInv /\ ChoicesSurvive
    BY <2>1, <2>2, NoStateFields DEF ChoiceInv, BuildsOn, ChoicesSurvive
  <2>4. AskDecides /\ NoneMutual /\ LastInForce
    BY <2>1, <2>2 DEF AskDecides, NoneMutual, LastInForce
  <2> QED
    BY <2>3, <2>4, BasisInit
<1>2. Inv /\ [Next]_vars => Inv'
  BY BasisNext, ChoicesOfOneCall, ChoicesElse, AskDecidesNext, NoneMutualNext, InForceNext
<1>3. Inv => DecisionInForce
  <2> SUFFICES ASSUME AskDecides, NoneMutual, LastInForce, NEW t \in Travellers, state[t] # NoState
               PROVE  \E c \in Stored :
                 /\ IsLast(c, t) /\ \A d \in Stored : IsLast(d, t) => d = c
                 /\ InForce(c, state[t])
                 /\ ask[c].option.defers # {}
                      => \A selected \in SUBSET Artists :
                           \A conflict \in DetectConflicts(timetable, selected,
                                                           state[t].deferred, state[t].journey) :
                             conflict.between = ask[c].conflict.between
                               => conflict.type = "schedule-pending"
    BY DEF DecisionInForce
  <2>1. PICK c \in Stored : IsLast(c, t) /\ InForce(c, state[t])
    BY DEF LastInForce
  <2>2. \A d \in Stored : IsLast(d, t) => d = c
    BY <2>1, OneLast
  <2>3. ask[c].option.defers \subseteq ask[c].conflict.between /\ ask[c].option.defers \subseteq state[t].deferred
    BY <2>1 DEF AskDecides, InForce, Stored
  <2>4. ASSUME ask[c].option.defers # {}, NEW selected \in SUBSET Artists,
               NEW conflict \in DetectConflicts(timetable, selected,
                                                state[t].deferred, state[t].journey),
               conflict.between = ask[c].conflict.between
        PROVE  conflict.type = "schedule-pending"
    <3>1. PICK z \in ask[c].option.defers : TRUE
      BY <2>4
    <3>2. z \in conflict.between /\ z \in state[t].deferred
      BY <2>3, <2>4, <3>1
    <3> QED
      BY <2>4, <3>2, DeferredDoNotPress
  <2> QED
    BY <2>1, <2>2, <2>4
<1> HIDE DEF Inv
<1> QED
  BY <1>1, <1>2, <1>3, PTL DEF Spec
-----------------------------------------------------------------------------
(* What the version of a route tells *)

\* The decisions of a traveller that were stored.
StoredOf(t) == {c \in Stored : who[c] = t}

Counted(s) == IsFiniteSet(s.lineage) /\ s.route = Cardinality(s.lineage)

CountInv ==
  /\ IsFiniteSet(Stored)
  /\ \A t \in Travellers : Counted(state[t])
  /\ \A c \in Calls : Counted(read[c])

LEMMA MarkedCounts ==
  ASSUME NEW s, StateShape(s), Counted(s)
  PROVE  Counted(MarkedState(s))
<1>1. CASE s = NoState \/ s.schedule = timetable
  BY <1>1 DEF MarkedState
<1>2. CASE s # NoState /\ s.schedule # timetable
  BY <1>2, Marked DEF Counted
<1> QED
  BY <1>1, <1>2

LEMMA DecidedCounts ==
  ASSUME NEW c \in Calls, step[c] = "storing", BuildsOn(read[c], who[c]), Counted(read[c])
  PROVE  Counted(Decided(c))
<1>1. c \notin read[c].lineage
  BY DEF BuildsOn, Stored
<1>2. /\ IsFiniteSet(read[c].lineage \union {c})
      /\ Cardinality(read[c].lineage \union {c}) = Cardinality(read[c].lineage) + 1
  BY <1>1, FS_AddElement DEF Counted
<1> QED
  BY <1>2, DecidedFields DEF Counted

LEMMA CountNext ==
  ASSUME Basis, ChoiceInv, CountInv, [Next]_vars PROVE CountInv'
<1>1. IsFiniteSet(Stored')
  BY StoredOneByOne, FS_AddElement DEF CountInv
<1>2. ASSUME NEW t \in Travellers PROVE Counted(state[t])'
  <2>1. PICK s : s = state[t]
    OBVIOUS
  <2>2. StateShape(s) /\ Counted(s)
    BY <2>1 DEF Basis, ShapeInv, CountInv
  <2>3. CASE state'[t] \in {s, MarkedState(s)}
    BY <2>2, <2>3, MarkedCounts DEF Counted
  <2>4. CASE \E c \in Calls : step[c] = "storing" /\ who[c] = t /\ state'[t] = Decided(c)
    <3>1. PICK c \in Calls : step[c] = "storing" /\ who[c] = t /\ state'[t] = Decided(c)
      BY <2>4
    <3>2. BuildsOn(read[c], who[c]) /\ Counted(read[c])
      BY DEF ChoiceInv, CountInv
    <3>3. Counted(Decided(c))
      BY <3>1, <3>2, DecidedCounts
    <3> QED
      BY <3>1, <3>3 DEF Counted
  <2> QED
    BY <2>1, <2>3, <2>4, StateSteps
<1>3. ASSUME NEW c \in Calls PROVE Counted(read[c])'
  <2>1. /\ read'[c] \in {read[c], NoState, state[who[c]]}
        /\ who[c] \in Travellers
    BY ReadSteps DEF Basis, TypeOK
  <2>2. Counted(NoState)
    BY NoStateFields, FS_EmptySet DEF Counted
  <2>3. Counted(read[c]) /\ Counted(state[who[c]])
    BY <2>1 DEF CountInv
  <2> QED
    BY <2>1, <2>2, <2>3 DEF Counted
<1> QED
  BY <1>1, <1>2, <1>3 DEF CountInv

\* The version of a route that resolve() compares is the number of decisions the state
\* builds on.  It falls short of the decisions that were stored exactly when one of
\* them was lost to another: only then can a later state have a version that a client
\* saw before.
RouteTells ==
  \A t \in Travellers :
    /\ state[t].route <= Cardinality(StoredOf(t))
    /\ state[t].route = Cardinality(StoredOf(t)) <=> state[t].lineage = StoredOf(t)

THEOREM RoutesTell == Spec => []RouteTells
<1> DEFINE Inv == Basis /\ ChoiceInv /\ ChoicesSurvive /\ CountInv
<1>1. Init => Inv
  <2> SUFFICES ASSUME Init PROVE Inv
    OBVIOUS
  <2>1. /\ \A t \in Travellers : state[t] = NoState
        /\ \A c \in Calls : read[c] = NoState /\ step[c] = "idle"
    BY Zenon DEF Init
  <2>2. Stored = {}
    BY <2>1 DEF Stored
  <2>3. ChoiceInv /\ ChoicesSurvive
    BY <2>1, <2>2, NoStateFields DEF ChoiceInv, BuildsOn, ChoicesSurvive
  <2>4. CountInv
    BY <2>1, <2>2, NoStateFields, FS_EmptySet DEF CountInv, Counted
  <2> QED
    BY <2>3, <2>4, BasisInit
<1>2. Inv /\ [Next]_vars => Inv'
  BY BasisNext, ChoicesOfOneCall, ChoicesElse, CountNext
<1>3. Inv => RouteTells
  <2> SUFFICES ASSUME ChoiceInv, CountInv, NEW t \in Travellers
               PROVE  /\ state[t].route <= Cardinality(StoredOf(t))
                      /\ state[t].route = Cardinality(StoredOf(t))
                           <=> state[t].lineage = StoredOf(t)
    BY DEF RouteTells
  <2>1. state[t].lineage \subseteq StoredOf(t)
    BY DEF ChoiceInv, BuildsOn, StoredOf
  <2>2. IsFiniteSet(StoredOf(t))
    BY FS_Subset DEF CountInv, StoredOf
  <2>3. /\ Cardinality(state[t].lineage) <= Cardinality(StoredOf(t))
        /\ Cardinality(state[t].lineage) = Cardinality(StoredOf(t))
             => state[t].lineage = StoredOf(t)
    BY <2>1, <2>2, FS_Subset
  <2> QED
    BY <2>3 DEF CountInv, Counted
<1> HIDE DEF Inv
<1> QED
  BY <1>1, <1>2, <1>3, PTL DEF Spec
=============================================================================
