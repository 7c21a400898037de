---------------------------- MODULE MCStuffCache ----------------------------
(* Instances of StuffCache for TLC: two builds of different text, two      *)
(* locations.                                                              *)
EXTENDS StuffCache, TLC

CONSTANTS b1, b2, t1, t2, global, east

TwoBuilds == {b1, b2}
TwoTexts == {t1, t2}
TextOfTwo == [b \in TwoBuilds |-> IF b = b1 THEN t1 ELSE t2]
TwoLocations == {global, east}
EitherWay == {TRUE, FALSE}
OnlyDrift == {TRUE}

\* The builds may change places, if their texts do; and so may the locations.
Symmetry ==
  {f \in Permutations(TwoBuilds \cup TwoTexts \cup TwoLocations) :
     \A b \in TwoBuilds : f[b] \in TwoBuilds /\ f[TextOfTwo[b]] = TextOfTwo[f[b]]}
=============================================================================
