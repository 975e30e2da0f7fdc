------------------------ MODULE TemporalRecordsProofs ------------------------
(* Lemmas about histories of records and about the point-in-time queries.   *)
EXTENDS TemporalRecords, FiniteSetTheorems, WellFoundedInduction, TLAPS

-----------------------------------------------------------------------------
(* Naturals                                                                *)

\* A set of naturals has a least element.
LEMMA LeastNatural ==
  ASSUME NEW S \in SUBSET Nat, S # {}
  PROVE  \E m \in S : \A x \in S : m <= x
<1> DEFINE R == OpToRel(<, Nat)
<1>1. \A x, y \in Nat : x < y => <<x, y>> \in R
  BY Zenon DEF OpToRel
<1>2. IsWellFoundedOn(R, Nat)
  BY NatLessThanWellFounded
<1> HIDE DEF R
<1>3. PICK m \in S : \A x \in S : <<x, m>> \notin R
  BY <1>2, WFMin
<1>4. \A x \in S : ~(x < m)
  BY <1>1, <1>3
<1> QED
  BY <1>3, <1>4

\* A set of naturals below n has a greatest element.
LEMMA GreatestBelow ==
  ASSUME NEW S \in SUBSET Nat, S # {}, NEW n \in Nat, \A x \in S : x < n
  PROVE  \E m \in S : \A x \in S : x <= m
<1> DEFINE T == {k \in Nat : \A x \in S : x <= k}
<1>1. T \in SUBSET Nat /\ T # {}
  BY DEF T
<1>2. PICK m \in T : \A k \in T : m <= k
  <2> HIDE DEF T
  <2> QED
    BY <1>1, LeastNatural
<1>3. m \in S
  <2> SUFFICES ASSUME m \notin S PROVE FALSE
    OBVIOUS
  <2>1. m \in Nat /\ \A x \in S : x <= m /\ x # m /\ x \in Nat
    BY <1>2
  <2>2. m - 1 \in T
    <3>1. PICK x \in S : TRUE
      OBVIOUS
    <3> QED
      BY <2>1, <3>1
  <2> QED
    BY <1>2, <2>1, <2>2
<1> QED
  BY <1>2, <1>3

\* At most one element.
LEMMA AtMostOne ==
  ASSUME NEW S, \A x, y \in S : x = y
  PROVE  Cardinality(S) <= 1
<1>1. CASE S = {}
  BY <1>1, FS_EmptySet
<1>2. CASE S # {}
  <2>1. PICK x \in S : S = {x}
    BY <1>2
  <2> QED
    BY <2>1, FS_Singleton
<1> QED
  BY <1>1, <1>2

-----------------------------------------------------------------------------
(* Histories                                                               *)

\* The latest record is the only current leaf.
HasTip(R) ==
  R = {} \/ \E latest \in R : /\ KnowledgeLeaves(R) = {latest}
                             /\ \A s \in R : s.recorded_at <= latest.recorded_at

History(R) ==
  /\ \A r \in R : r.recorded_at \in Nat
  /\ IsHistory(R)
  /\ HasTip(R)

\* A record that supersedes the leaf of a history and is later than all of it
\* extends the history (the only write _insert_temporal_record lets through).
LEMMA HistoryAppend ==
  ASSUME NEW R, History(R), NEW new,
         new.recorded_at \in Nat,
         \A s \in R : s.recorded_at < new.recorded_at,
         new.supersedes = KnowledgeLeaves(R)
  PROVE  History(R \cup {new})
<1> DEFINE N == R \cup {new}
<1>1. \A r \in N : r.recorded_at \in Nat
  BY DEF History
<1>2. \A r, s \in N : r.recorded_at = s.recorded_at => r = s
  BY DEF History, IsHistory
<1>3. \A r \in N : r.supersedes =
        {p \in N : /\ p.recorded_at < r.recorded_at
                   /\ \A s \in N : s.recorded_at < r.recorded_at => s.recorded_at <= p.recorded_at}
  <2>1. ASSUME NEW r \in R
        PROVE  r.supersedes =
        {p \in N : /\ p.recorded_at < r.recorded_at
                   /\ \A s \in N : s.recorded_at < r.recorded_at => s.recorded_at <= p.recorded_at}
    <3>1. ~(new.recorded_at < r.recorded_at)
      BY DEF History
    <3> QED
      BY <3>1 DEF History, IsHistory
  <2>2. new.supersedes =
        {p \in N : /\ p.recorded_at < new.recorded_at
                   /\ \A s \in N : s.recorded_at < new.recorded_at => s.recorded_at <= p.recorded_at}
    <3>1. ~(new.recorded_at < new.recorded_at)
      OBVIOUS
    <3>2. CASE R = {}
      <4>1. KnowledgeLeaves(R) = {}
        BY <3>2 DEF KnowledgeLeaves
      <4> QED
        BY <4>1, <3>1, <3>2
    <3>3. CASE R # {}
      <4>1. PICK latest \in R : /\ KnowledgeLeaves(R) = {latest}
                                /\ \A s \in R : s.recorded_at <= latest.recorded_at
        BY <3>3 DEF History, HasTip
      <4>2. \A p \in R : (\A s \in R : s.recorded_at <= p.recorded_at) <=> p = latest
        BY <4>1 DEF History, IsHistory
      <4> QED
        BY <4>1, <4>2, <3>1
    <3> QED
      BY <3>2, <3>3
  <2> QED
    BY <2>1, <2>2
<1>4. HasTip(N)
  <2>1. new \notin R
    BY DEF History
  <2>2. Superseded(N) = Superseded(R) \cup KnowledgeLeaves(R)
    BY DEF Superseded
  <2>3. new \notin Superseded(N)
    <3>1. \A r \in N : ~(new.recorded_at < r.recorded_at)
      BY <1>1 DEF History
    <3>2. \A r \in N : \A p \in r.supersedes : p.recorded_at < r.recorded_at
      BY <1>3
    <3> QED
      BY <3>1, <3>2 DEF Superseded
  <2>4. KnowledgeLeaves(N) = {new}
    BY <2>1, <2>2, <2>3 DEF KnowledgeLeaves
  <2>5. \A s \in N : s.recorded_at <= new.recorded_at
    BY DEF History
  <2> QED
    BY <2>4, <2>5 DEF HasTip
<1> QED
  BY <1>1, <1>2, <1>3, <1>4 DEF History, IsHistory

-----------------------------------------------------------------------------
(* Queries of a history                                                    *)

Recorded(R) == \A r \in R : r.recorded_at \in Nat

\* What is visible of a history at a cutoff is a history.
LEMMA VisibleHistory ==
  ASSUME NEW R, Recorded(R), IsHistory(R), NEW known \in Nat
  PROVE  Recorded(Visible(R, known)) /\ IsHistory(Visible(R, known))
<1> DEFINE V == Visible(R, known)
<1>1. \A r \in R : r \in V <=> r.recorded_at <= known
  BY DEF Visible
<1>2. V \subseteq R
  BY DEF Visible
<1>3. \A r \in V : \A p \in R : p.recorded_at < r.recorded_at => p \in V
  BY <1>1, <1>2 DEF Recorded
<1> HIDE DEF V
<1>4. \A r \in V : r.supersedes =
       {p \in V : /\ p.recorded_at < r.recorded_at
                 /\ \A s \in V : s.recorded_at < r.recorded_at => s.recorded_at <= p.recorded_at}
  BY <1>2, <1>3 DEF IsHistory
<1> QED
  BY <1>2, <1>4 DEF Recorded, IsHistory, V

\* A record that is not the first supersedes one that is as late as any before it.
LEMMA Predecessor ==
  ASSUME NEW R, Recorded(R), IsHistory(R), NEW r \in R, NEW s \in R, r.recorded_at < s.recorded_at
  PROVE  \E p \in R : /\ s.supersedes = {p} /\ p.recorded_at < s.recorded_at
                      /\ r.recorded_at <= p.recorded_at
<1> DEFINE S == {x.recorded_at : x \in {y \in R : y.recorded_at < s.recorded_at}}
<1>1. S \in SUBSET Nat /\ S # {} /\ s.recorded_at \in Nat /\ \A n \in S : n < s.recorded_at
  BY DEF Recorded
<1>2. PICK m \in S : \A n \in S : n <= m
  <2> HIDE DEF S
  <2> QED
    BY <1>1, GreatestBelow
<1>3. PICK p \in R : p.recorded_at = m /\ p.recorded_at < s.recorded_at
  BY <1>2
<1>4. \A x \in R : x.recorded_at < s.recorded_at => x.recorded_at <= p.recorded_at
  BY <1>2, <1>3
<1> HIDE DEF S
<1>5. \A x \in s.supersedes : /\ x \in R /\ x.recorded_at < s.recorded_at
                              /\ \A y \in R : y.recorded_at < s.recorded_at => y.recorded_at <= x.recorded_at
  BY DEF IsHistory
<1>6. p \in s.supersedes
  BY <1>3, <1>4 DEF IsHistory
<1>7. \A x \in s.supersedes : x = p
  <2> SUFFICES ASSUME NEW x \in s.supersedes PROVE x = p
    OBVIOUS
  <2>1. x.recorded_at = p.recorded_at /\ x \in R
    BY <1>3, <1>4, <1>5 DEF Recorded
  <2> QED
    BY <2>1 DEF IsHistory
<1> QED
  BY <1>3, <1>4, <1>6, <1>7

\* No record has two successors.
LEMMA HistoryIsValid ==
  ASSUME NEW R, Recorded(R), IsHistory(R), NEW s, \A r \in R : r.scope = s
  PROVE  ValidGraph(R)
<1>1. ASSUME NEW r \in R, NEW p \in r.supersedes
      PROVE  /\ p \in R /\ p.recorded_at < r.recorded_at
             /\ \A x \in R : x.recorded_at < r.recorded_at => x.recorded_at <= p.recorded_at
  BY DEF IsHistory
<1>2. ASSUME NEW r \in R, NEW q \in R, NEW p \in r.supersedes, p \in q.supersedes
      PROVE  r = q
  <2>1. r.recorded_at = q.recorded_at
    BY <1>1, <1>2 DEF Recorded
  <2> QED
    BY <2>1 DEF IsHistory
<1> QED
  BY <1>1, <1>2 DEF ValidGraph

\* A record that is not the last is superseded by the next one.
LEMMA LeafIsLatest ==
  ASSUME NEW R, Recorded(R), IsHistory(R), NEW r \in KnowledgeLeaves(R), NEW s \in R
  PROVE  s.recorded_at <= r.recorded_at
<1>1. ASSUME NEW x \in R, NEW y \in R, x.recorded_at < y.recorded_at
      PROVE  x \in Superseded(R)
  <2> DEFINE S == {z.recorded_at : z \in {z \in R : x.recorded_at < z.recorded_at}}
  <2>1. S \in SUBSET Nat /\ S # {}
    BY <1>1 DEF Recorded
  <2>2. PICK m \in S : \A n \in S : m <= n
    <3> HIDE DEF S
    <3> QED
      BY <2>1, LeastNatural
  <2>3. PICK z \in R : z.recorded_at = m /\ x.recorded_at < z.recorded_at
    BY <2>2
  <2>4. \A n \in R : x.recorded_at < n.recorded_at => z.recorded_at <= n.recorded_at
    BY <2>2, <2>3
  <2> HIDE DEF S
  <2>5. PICK p \in R : /\ z.supersedes = {p} /\ p.recorded_at < z.recorded_at
                       /\ x.recorded_at <= p.recorded_at
    BY <2>3, Predecessor
  <2>6. p.recorded_at = x.recorded_at
    BY <2>3, <2>4, <2>5 DEF Recorded
  <2>7. p = x
    BY <2>6 DEF IsHistory
  <2> QED
    BY <2>5, <2>7 DEF Superseded
<1>2. r \in R /\ r \notin Superseded(R)
  BY DEF KnowledgeLeaves
<1> QED
  BY <1>1, <1>2 DEF Recorded

LEMMA OneKnowledgeLeaf ==
  ASSUME NEW R, Recorded(R), IsHistory(R),
         NEW r \in KnowledgeLeaves(R), NEW s \in KnowledgeLeaves(R)
  PROVE  r = s
<1>1. r \in R /\ s \in R
  BY DEF KnowledgeLeaves
<1>2. r.recorded_at = s.recorded_at
  BY <1>1, LeafIsLatest DEF Recorded
<1> QED
  BY <1>1, <1>2 DEF IsHistory

\* The equation of Ancestors has a solution in a history: what is earlier.
LEMMA AncestorsEquation ==
  ASSUME NEW R, Recorded(R), IsHistory(R)
  PROVE  Ancestors(R) =
           [r \in R |-> r.supersedes \cup UNION {Ancestors(R)[p] : p \in r.supersedes}]
<1> DEFINE Solves(up) == up = [r \in R |-> r.supersedes \cup UNION {up[p] : p \in r.supersedes}]
           earlier == [r \in R |-> {x \in R : x.recorded_at < r.recorded_at}]
<1>1. ASSUME NEW r \in R
      PROVE  earlier[r] = r.supersedes \cup UNION {earlier[p] : p \in r.supersedes}
  <2>1. \A p \in r.supersedes : p \in R /\ p.recorded_at < r.recorded_at
    BY DEF IsHistory
  <2>2. ASSUME NEW x \in earlier[r]
        PROVE  x \in r.supersedes \cup UNION {earlier[p] : p \in r.supersedes}
    <3>1. x \in R /\ x.recorded_at < r.recorded_at
      OBVIOUS
    <3>2. PICK p \in R : r.supersedes = {p} /\ x.recorded_at <= p.recorded_at
      BY <3>1, Predecessor
    <3>3. CASE x.recorded_at = p.recorded_at
      BY <3>1, <3>2, <3>3 DEF IsHistory
    <3>4. CASE x.recorded_at # p.recorded_at
      <4>1. x.recorded_at < p.recorded_at
        BY <3>1, <3>2, <3>4 DEF Recorded
      <4> QED
        BY <3>1, <3>2, <4>1
    <3> QED
      BY <3>3, <3>4
  <2>3. ASSUME NEW p \in r.supersedes
        PROVE  p \in earlier[r] /\ earlier[p] \subseteq earlier[r]
    <3>1. p \in R /\ p.recorded_at < r.recorded_at
      BY <2>1
    <3>2. \A x \in R : x.recorded_at < p.recorded_at => x.recorded_at < r.recorded_at
      BY <3>1 DEF Recorded
    <3> QED
      BY <3>1, <3>2
  <2> HIDE DEF earlier
  <2> QED
    BY <2>2, <2>3
<1>2. Solves(earlier)
  <2>1. earlier = [r \in R |-> earlier[r]]
    OBVIOUS
  <2> HIDE DEF earlier
  <2> QED
    BY <1>1, <2>1, Zenon
<1>3. Solves(CHOOSE up : Solves(up))
  BY <1>2
<1> QED
  BY <1>3 DEF Ancestors

\* All that is earlier is an ancestor.
LEMMA EarlierAreAncestors ==
  ASSUME NEW R, Recorded(R), IsHistory(R), NEW r \in R, NEW s \in R, r.recorded_at < s.recorded_at
  PROVE  r \in Ancestors(R)[s]
<1> DEFINE up == Ancestors(R)
           Missed == {x \in R : r.recorded_at < x.recorded_at /\ r \notin up[x]}
           S == {x.recorded_at : x \in Missed}
<1>1. \A x \in R : up[x] = x.supersedes \cup UNION {up[p] : p \in x.supersedes}
  BY AncestorsEquation
<1> HIDE DEF up
<1> SUFFICES ASSUME Missed # {} PROVE FALSE
  BY DEF up
<1>2. S \in SUBSET Nat /\ S # {}
  BY DEF Recorded
<1>3. PICK m \in S : \A n \in S : m <= n
  <2> HIDE DEF S
  <2> QED
    BY <1>2, LeastNatural
<1>4. PICK x \in Missed : \A y \in Missed : x.recorded_at <= y.recorded_at
  BY <1>3
<1>5. PICK p \in R : /\ x.supersedes = {p} /\ p.recorded_at < x.recorded_at
                     /\ r.recorded_at <= p.recorded_at
  BY <1>4, Predecessor
<1>6. p \in up[x] /\ up[p] \subseteq up[x]
  BY <1>1, <1>4, <1>5
<1>7. CASE p.recorded_at = r.recorded_at
  BY <1>4, <1>6, <1>7 DEF IsHistory
<1>8. CASE p.recorded_at # r.recorded_at
  <2>1. r.recorded_at < p.recorded_at
    BY <1>5, <1>8 DEF Recorded
  <2>2. p \notin Missed
    BY <1>4, <1>5 DEF Recorded
  <2> QED
    BY <1>4, <1>6, <2>1, <2>2
<1> QED
  BY <1>7, <1>8

\* And nothing else is.
LEMMA AncestorsAreEarlier ==
  ASSUME NEW R, Recorded(R), IsHistory(R), NEW s \in R, NEW r \in Ancestors(R)[s]
  PROVE  r.recorded_at < s.recorded_at
<1> DEFINE up == Ancestors(R)
           Early(x) == \A a \in up[x] : a \in R /\ a.recorded_at < x.recorded_at
           Wrong == {x \in R : ~Early(x)}
           S == {x.recorded_at : x \in Wrong}
<1>1. \A x \in R : up[x] = x.supersedes \cup UNION {up[p] : p \in x.supersedes}
  BY AncestorsEquation
<1>2. \A x \in R : \A p \in x.supersedes : p \in R /\ p.recorded_at < x.recorded_at
  BY DEF IsHistory
<1> HIDE DEF up
<1> SUFFICES ASSUME Wrong # {} PROVE FALSE
  BY DEF up
<1>3. S \in SUBSET Nat /\ S # {}
  BY DEF Recorded
<1>4. PICK m \in S : \A n \in S : m <= n
  <2> HIDE DEF S
  <2> QED
    BY <1>3, LeastNatural
<1>5. PICK x \in Wrong : \A y \in Wrong : x.recorded_at <= y.recorded_at
  BY <1>4
<1>6. \A p \in x.supersedes : Early(p)
  BY <1>2, <1>5 DEF Recorded
<1>7. Early(x)
  <2> SUFFICES ASSUME NEW a \in up[x] PROVE a \in R /\ a.recorded_at < x.recorded_at
    OBVIOUS
  <2>1. CASE a \in x.supersedes
    BY <1>2, <1>5, <2>1
  <2>2. CASE a \notin x.supersedes
    <3>1. PICK p \in x.supersedes : a \in up[p]
      BY <1>1, <1>5, <2>2
    <3>2. a \in R /\ a.recorded_at < p.recorded_at /\ p \in R /\ p.recorded_at < x.recorded_at
      BY <1>2, <1>5, <1>6, <3>1
    <3> QED
      BY <3>2, <1>5 DEF Recorded
  <2> QED
    BY <2>1, <2>2
<1> QED
  BY <1>5, <1>7

\* resolve_temporal_state raises for no history.
LEMMA OneEligibleLeaf ==
  ASSUME NEW R, Recorded(R), IsHistory(R), NEW E \in SUBSET R,
         NEW r \in EligibleLeaves(R, E), NEW s \in EligibleLeaves(R, E)
  PROVE  r = s
<1>1. /\ r \in R /\ s \in R
      /\ r \notin Ancestors(R)[s] /\ s \notin Ancestors(R)[r]
  BY DEF EligibleLeaves
<1>2. r.recorded_at = s.recorded_at
  BY <1>1, EarlierAreAncestors DEF Recorded
<1> QED
  BY <1>1, <1>2 DEF IsHistory

\* It answers with the latest record if that one is eligible.
LEMMA LatestIsEligibleLeaf ==
  ASSUME NEW R, Recorded(R), IsHistory(R), NEW E \in SUBSET R,
         NEW r \in E, \A s \in R : s.recorded_at <= r.recorded_at
  PROVE  EligibleLeaves(R, E) = {r}
<1>1. \A s \in E : r \notin Ancestors(R)[s]
  BY AncestorsAreEarlier DEF Recorded
<1>2. r \in EligibleLeaves(R, E)
  BY <1>1 DEF EligibleLeaves
<1> QED
  BY <1>2, OneEligibleLeaf
=============================================================================
