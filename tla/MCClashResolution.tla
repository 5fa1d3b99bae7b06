------------------------- MODULE MCClashResolution --------------------------
(***************************************************************************)
(* A finite instance of ClashResolution: a signed-in traveller and two     *)
(* anonymous ones, two artists and four timetables.                        *)
(***************************************************************************)
EXTENDS ClashResolution, TLC

CONSTANTS ann, guest, other, c1, c2, x, y, main, barn

TwoCalls == {c1, c2}
TwoGuests == {guest, other}
OneUser == {ann}
AndGuests == {ann, guest, other}
TwoArtists == {x, y}
TwoStages == {main, barn}

\* The barn is four minutes from the main stage.
NearBarn == (<<main, barn>> :> 4)

Slot(day, stage, start, end) == [day |-> day, stage |-> stage, start |-> start, end |-> end]

\* Six minutes between two sets, of which four are spent walking.
TightTimes ==
  (x :> {Slot("fri", main, 60, 120)} @@ y :> {Slot("fri", barn, 126, 170)})

\* Only one of the two has a time yet.
UntimedTimes == (x :> {Slot("fri", main, 60, 120)} @@ y :> {})

\* Seven minutes between the sets of one day.
ApartTimes ==
  (x :> {Slot("fri", main, 60, 120)} @@ y :> {Slot("fri", barn, 127, 170)})

\* Ten minutes of overlap: who leaves for the barn at 106 sees most of both.  y also
\* plays on the second weekend and earlier in the day: who looks at both weekends is
\* told of no clash.
PartialTimes ==
  (x :> {Slot("fri", main, 60, 120)}
     @@ y :> {Slot("fri", barn, 110, 170), Slot("next fri", barn, 100, 170)})

Programme  == {TightTimes, UntimedTimes, ApartTimes, PartialTimes}
Revised    == {<<UntimedTimes, PartialTimes>>, <<PartialTimes, TightTimes>>,
               <<TightTimes, ApartTimes>>, <<ApartTimes, ApartTimes>>}
AllArtists == {{x, y}}
Weekends   == {{"fri"}, {"fri", "next fri"}}
AllOrNone  == {{}, {"schedule", "route"}}

Symmetric == Permutations(TwoCalls) \union Permutations(TwoGuests)
=============================================================================
