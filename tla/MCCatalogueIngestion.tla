------------------------ MODULE MCCatalogueIngestion ------------------------
(* Small instances of CatalogueIngestion and MarketSubjects for TLC.        *)
EXTENDS MarketSubjects, TLC

CONSTANTS i1, i2, i3, a1, a2, a3, a4, c1, c2, c3, c4, nifty, o1, o2, kn, k1, k2

Row(key, instrument, metadata) == [key |-> key, instrument |-> instrument, metadata |-> metadata]

\* c2 adds an instrument and changes the metadata of o1, c3 lists o2 under the
\* key of o1, c4 lists o1 under another key.
MCRows ==
  (c1 :> {Row(kn, nifty, 1), Row(k1, o1, 1)}) @@
  (c2 :> {Row(kn, nifty, 1), Row(k1, o1, 2), Row(k2, o2, 1)}) @@
  (c3 :> {Row(kn, nifty, 1), Row(k1, o2, 1)}) @@
  (c4 :> {Row(kn, nifty, 1), Row(k2, o1, 1)})

MCContent == [a \in Artifacts |-> ((a1 :> c1) @@ (a2 :> c2) @@ (a3 :> c3) @@ (a4 :> c4))[a]]

OpenEnded == [from |-> 0, until |-> 9]
Bounded == [from |-> 1, until |-> 2]

OneInterval == {OpenEnded}
TwoIntervals == {OpenEnded, Bounded}
ThreeIntervals == TwoIntervals \cup {[from |-> 1, until |-> 9]}

Symmetry == Permutations(Invocations) \cup Permutations(Keys)
=============================================================================
