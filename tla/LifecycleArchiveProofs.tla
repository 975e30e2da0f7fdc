----------------------- MODULE LifecycleArchiveProofs -----------------------
(***************************************************************************)
(* Theorems about LifecycleArchive, for any writers, batches, workloads    *)
(* and reports: what an accepted sequence of lifecycle events is, and what *)
(* READ COMMITTED transactions leave in the tables.                        *)
(***************************************************************************)
EXTENDS LifecycleArchive, TemporalRecordsProofs

-----------------------------------------------------------------------------
(* Sequences of events                                                     *)

\* The numbers of an interval are sorted as they are.
LEMMA SortedInterval ==
  ASSUME NEW n \in Nat
  PROVE  Sorted(1..n) = [k \in 1..n |-> k]
<1>1. Cardinality(1..n) = n
  BY FS_Interval
<1>2. ASSUME NEW k \in 1..n
      PROVE  (CHOOSE x \in 1..n : Cardinality({y \in 1..n : y < x}) = k - 1) = k
  <2>1. ASSUME NEW x \in 1..n PROVE Cardinality({y \in 1..n : y < x}) = x - 1
    <3>1. {y \in 1..n : y < x} = 1..(x - 1)
      OBVIOUS
    <3>2. Cardinality(1..(x - 1)) = x - 1
      BY FS_Interval
    <3> QED
      BY <3>1, <3>2
  <2> DEFINE P(x) == x \in 1..n /\ Cardinality({y \in 1..n : y < x}) = k - 1
  <2>2. P(k) /\ \A x : P(x) => x = k
    BY <2>1
  <2> HIDE DEF P
  <2>3. (CHOOSE x : P(x)) = k
    BY <2>2
  <2> QED
    BY <2>3 DEF P
<1> QED
  BY <1>1, <1>2 DEF Sorted

\* Events whose orders advance are all different.
LEMMA OrdersApart ==
  ASSUME NEW events \in Seq(Reports), \A i \in DOMAIN events : OrderAdvances(events, i),
         NEW i \in DOMAIN events, NEW j \in DOMAIN events, RawId(events[i]) = RawId(events[j])
  PROVE  i = j
<1>1. \A k \in DOMAIN events : events[k] \in Reports /\ events[k].order \in Nat /\ k \in Nat
  BY LifecycleAssumption
<1>2. events[i].source = events[j].source /\ events[i].order = events[j].order
  BY DEF RawId
<1>3. ~(i < j) /\ ~(j < i)
  BY <1>1, <1>2 DEF OrderAdvances, Before
<1> QED
  BY <1>1, <1>3

\* Events that are all different are their own unique events.
LEMMA UniqueOfDistinct ==
  ASSUME NEW S, NEW events \in Seq(S),
         \A i, j \in DOMAIN events : RawId(events[i]) = RawId(events[j]) => i = j
  PROVE  UniqueEvents(events) = events
<1> DEFINE n == Len(events)
<1>1. n \in Nat /\ DOMAIN events = 1..n /\ events = [k \in 1..n |-> events[k]]
  OBVIOUS
<1>2. ASSUME NEW i \in DOMAIN events PROVE ~IsDuplicate(events, i)
  <2> DEFINE P(j) == /\ j \in DOMAIN events /\ RawId(events[j]) = RawId(events[i])
                     /\ \A k \in Before(events, j) : RawId(events[k]) # RawId(events[i])
  <2>1. P(i)
    <3>1. \A k \in Before(events, i) : k \in DOMAIN events /\ k # i
      BY <1>1 DEF Before
    <3> QED
      BY <3>1
  <2>2. ASSUME NEW j, P(j) PROVE j = i
    BY <2>2
  <2> DEFINE first == CHOOSE j : P(j)
  <2>3. FirstOccurrence(events, i) = first - 1
    BY DEF FirstOccurrence
  <2> HIDE DEF P
  <2>4. first = i
    BY <2>1, <2>2
  <2> HIDE DEF first
  <2> QED
    BY <1>1, <2>3, <2>4 DEF IsDuplicate
<1>3. {i \in DOMAIN events : ~IsDuplicate(events, i)} = 1..n
  BY <1>1, <1>2
<1>4. Sorted({i \in DOMAIN events : ~IsDuplicate(events, i)}) = [k \in 1..n |-> k]
  BY <1>1, <1>3, SortedInterval
<1>5. UniqueEvents(events) = [k \in 1..n |-> events[k]]
  BY <1>4 DEF UniqueEvents
<1> QED
  BY <1>1, <1>5

\* A connection session that ended never comes back: the next step into it from
\* another one would begin it anew.
LEMMA SessionsAreContiguous ==
  ASSUME NEW S, NEW events \in Seq(S), ValidConnectionSequence(events),
         NEW i \in DOMAIN events, NEW j \in DOMAIN events, NEW k \in DOMAIN events,
         i < j, j < k, events[i].session = events[k].session
  PROVE  events[j].session = events[i].session
<1> DEFINE Returns == {p \in DOMAIN events : j < p /\ events[p].session = events[i].session}
<1> SUFFICES ASSUME events[j].session # events[i].session PROVE FALSE
  OBVIOUS
<1>1. DOMAIN events \in SUBSET Nat /\ \A p \in DOMAIN events : \A q \in Nat : 1 <= q /\ q <= p => q \in DOMAIN events
  OBVIOUS
<1>2. PICK p \in Returns : \A q \in Returns : p <= q
  <2>1. Returns \in SUBSET Nat /\ Returns # {}
    BY <1>1
  <2> HIDE DEF Returns
  <2> QED
    BY <2>1, LeastNatural
<1>3. p - 1 \in DOMAIN events /\ j <= p - 1 /\ i < p /\ p > 1 /\ p \in DOMAIN events
  BY <1>1, <1>2
<1>4. events[p - 1].session # events[p].session
  <2>1. p - 1 \notin Returns
    BY <1>2, <1>3
  <2> QED
    BY <1>2, <1>3, <2>1
<1>5. \A q \in Before(events, p) : events[q].session # events[p].session
  BY <1>3, <1>4 DEF ValidConnectionSequence, ContinuesOrReconnects
<1> QED
  BY <1>2, <1>3, <1>5 DEF Before

\* The events of a subscription have the instruments and the session of the first.
LEMMA SubscriptionsKeepInstruments ==
  ASSUME NEW S, NEW events \in Seq(S), ValidSubscriptionSequence(events),
         NEW i \in DOMAIN events, NEW j \in DOMAIN events, i < j,
         events[i].scope = events[j].scope
  PROVE  events[i].keys = events[j].keys /\ events[i].session = events[j].session
<1> DEFINE Same(k) == events[i].keys = events[k].keys /\ events[i].session = events[k].session
           Changed == {k \in DOMAIN events : i < k /\ events[k].scope = events[i].scope /\ ~Same(k)}
<1> SUFFICES ASSUME Changed # {} PROVE FALSE
  BY DEF Changed
<1>1. DOMAIN events \in SUBSET Nat
  OBVIOUS
<1>2. PICK c \in Changed : \A k \in Changed : c <= k
  <2>1. Changed \in SUBSET Nat
    BY <1>1
  <2> HIDE DEF Changed
  <2> QED
    BY <2>1, LeastNatural
<1>3. c \in DOMAIN events /\ c \in Nat /\ i \in Nat /\ i < c /\ events[c].scope = events[i].scope /\ ~Same(c)
  BY <1>1, <1>2
<1> DEFINE earlier == {k \in Before(events, c) : events[k].scope = events[c].scope}
           at == CHOOSE k \in earlier : \A l \in earlier : l <= k
<1>4. i \in earlier /\ earlier \in SUBSET Nat /\ \A k \in earlier : k < c /\ k \in DOMAIN events
  BY <1>1, <1>3 DEF Before
<1>5. at \in earlier /\ \A l \in earlier : l <= at
  <2>1. \E k \in earlier : \A l \in earlier : l <= k
    <3> HIDE DEF earlier
    <3> QED
      BY <1>3, <1>4, GreatestBelow
  <2> HIDE DEF earlier
  <2> QED
    BY <2>1
<1>6. events[c].keys = events[at].keys /\ events[c].session = events[at].session
  <2>1. earlier # {}
    BY <1>4
  <2>2. /\ <<events[c].provider, events[c].session, events[c].source>> =
             <<events[at].provider, events[at].session, events[at].source>>
        /\ events[c].keys = events[at].keys
    BY <1>3, <2>1 DEF ValidSubscriptionSequence
  <2> QED
    BY <2>2
<1> HIDE DEF at
<1>7. Same(at)
  <2>1. at \in DOMAIN events /\ at < c /\ i <= at /\ at \in Nat /\ events[at].scope = events[i].scope
    BY <1>3, <1>4, <1>5
  <2>2. CASE at = i
    BY <2>2
  <2>3. CASE at # i
    <3>1. at \notin Changed
      BY <1>2, <1>3, <2>1
    <3> QED
      BY <1>3, <2>1, <2>3, <3>1
  <2> QED
    BY <2>2, <2>3
<1> QED
  BY <1>3, <1>6, <1>7

-----------------------------------------------------------------------------
(* What a source reported                                                  *)

TrailInv ==
  /\ trail \in Seq(Reports) /\ Len(trail) <= MaxTrail
  /\ \A i \in DOMAIN trail : ValidEvent(trail[i]) /\ trail[i].kind = trail[1].kind
  /\ trail # <<>> => ValidSequence(trail[1].kind, trail)

LEMMA TrailInit == LifecycleInit => TrailInv
BY LifecycleAssumption DEF LifecycleInit, TrailInv

LEMMA TrailStep == TrailInv /\ [LifecycleNext]_lifecycleVars => TrailInv'
<1> SUFFICES ASSUME TrailInv, [LifecycleNext]_lifecycleVars PROVE TrailInv'
  OBVIOUS
<1>1. CASE trail' = trail
  BY <1>1 DEF TrailInv
<1>2. CASE trail' # trail
  <2>1. PICK e \in Reports : Report(e)
    BY <1>2 DEF LifecycleNext, lifecycleVars, InsertRow, CheckReferences, CommitRows, AbortRows
  <2> DEFINE more == Append(trail, e)
  <2>2. /\ trail \in Seq(Reports) /\ Len(trail) < MaxTrail /\ MaxTrail \in Nat
        /\ more \in Seq(Reports) /\ Len(more) = Len(trail) + 1
        /\ DOMAIN more = 1..(Len(trail) + 1) /\ more[Len(trail) + 1] = e
        /\ \A i \in 1..Len(trail) : more[i] = trail[i]
    BY <2>1, LifecycleAssumption DEF Report, TrailInv
  <2>3. trail' = more /\ ValidEvent(e) /\ ValidSequence(e.kind, more) /\ \A i \in DOMAIN trail : trail[i].kind = e.kind
    BY <2>1 DEF Report
  <2> HIDE DEF more
  <2>4. \A i \in DOMAIN more : ValidEvent(more[i]) /\ more[i].kind = e.kind
    BY <2>2, <2>3 DEF TrailInv
  <2>5. 1 \in DOMAIN more /\ Len(more) <= MaxTrail
    BY <2>2
  <2> QED
    BY <2>2, <2>3, <2>4, <2>5 DEF TrailInv
<1> QED
  BY <1>1, <1>2

LEMMA TrailHolds == LifecycleSpec => []TrailInv
BY TrailInit, TrailStep, PTL DEF LifecycleSpec

\* An accepted sequence has no identity twice, so that it is a batch of unique
\* events; connection sessions do not interleave, and a subscription keeps its
\* instruments (validate_connection_lifecycle_sequence,
\* validate_subscription_lifecycle_sequence).
THEOREM SequencesHaveOneLifeHolds == LifecycleSpec => []SequencesHaveOneLife
<1>1. TrailInv => SequencesHaveOneLife
  <2> SUFFICES ASSUME TrailInv PROVE SequencesHaveOneLife
    OBVIOUS
  <2>1. trail \in Seq(Reports) /\ DOMAIN trail \in SUBSET Nat /\ (trail # <<>> => 1 \in DOMAIN trail)
    BY DEF TrailInv
  <2>2. CASE trail = <<>>
    <3>1. DOMAIN trail = {} /\ Len(trail) = 0
      BY <2>2
    <3>2. UniqueEvents(trail) = trail
      BY <2>1, <3>1, UniqueOfDistinct
    <3> QED
      BY <3>1, <3>2 DEF SequencesHaveOneLife, ValidBatch, MaxLifecycleEvents
  <2>3. CASE trail # <<>>
    <3> DEFINE kind == trail[1].kind
    <3>1. ValidSequence(kind, trail) /\ \A i \in DOMAIN trail : trail[i].kind = kind
      BY <2>3 DEF TrailInv
    <3>2. \A i \in DOMAIN trail : OrderAdvances(trail, i)
      BY <3>1 DEF ValidSequence, ValidConnectionSequence, ValidSubscriptionSequence
    <3>3. \A i, j \in DOMAIN trail : RawId(trail[i]) = RawId(trail[j]) => i = j
      BY <2>1, <3>2, OrdersApart
    <3>4. UniqueEvents(trail) = trail
      BY <2>1, <3>3, UniqueOfDistinct
    <3>5. ValidBatch(trail)
      <4>1. Len(trail) <= MaxLifecycleEvents
        <5>1. MaxLifecycleEvents \in Nat
          BY DEF MaxLifecycleEvents
        <5> QED
          BY <2>1, <5>1, LifecycleAssumption DEF TrailInv
      <4> QED
        BY <3>3, <4>1 DEF ValidBatch
    <3>6. ASSUME NEW i \in DOMAIN trail, NEW j \in DOMAIN trail, NEW k \in DOMAIN trail,
                 i < j, j < k, trail[i].kind = "connection", trail[i].session = trail[k].session
          PROVE  trail[j].session = trail[i].session
      <4>1. ValidConnectionSequence(trail)
        BY <3>1, <3>6 DEF ValidSequence
      <4> QED
        BY <2>1, <3>6, <4>1, SessionsAreContiguous
    <3>7. ASSUME NEW i \in DOMAIN trail, NEW j \in DOMAIN trail,
                 trail[i].kind = "subscription", trail[i].scope = trail[j].scope
          PROVE  trail[i].keys = trail[j].keys /\ trail[i].session = trail[j].session
      <4>1. ValidSubscriptionSequence(trail)
        BY <3>1, <3>7 DEF ValidSequence
      <4>2. i < j \/ j < i \/ i = j
        BY <2>1
      <4>3. CASE i < j
        BY <2>1, <3>7, <4>1, <4>3, SubscriptionsKeepInstruments
      <4>4. CASE j < i
        BY <2>1, <3>7, <4>1, <4>4, SubscriptionsKeepInstruments
      <4> QED
        BY <4>2, <4>3, <4>4
    <3> QED
      BY <3>4, <3>5, <3>6, <3>7 DEF SequencesHaveOneLife
  <2> QED
    BY <2>2, <2>3
<1> QED
  BY <1>1, TrailHolds, PTL

-----------------------------------------------------------------------------
(* Identifiers                                                             *)

\* Two rows with the same identifier are one row.
Distinct(rows) == \A r, s \in rows : (Identifiers(r) \cap Identifiers(s)) # {} => r = s

\* What is known by the identifiers that references name.
LEMMA IdentifiedSet ==
  ASSUME NEW r, IsRow(r), NEW d, <<"set", d>> \in Identifiers(r)
  PROVE  r.table = "set" /\ r.digest = d
BY DEF IsRow, Tables, Identifiers, Kinds

LEMMA IdentifiedBatch ==
  ASSUME NEW r, IsRow(r), NEW b, NEW k, <<"batch", b, k>> \in Identifiers(r)
  PROVE  r.table = "batch" /\ r.batch = b /\ r.kind = k
BY DEF IsRow, Tables, Identifiers, Kinds

LEMMA IdentifiedRaw ==
  ASSUME NEW r, IsRow(r), NEW x, NEW k, <<"raw", x, k>> \in Identifiers(r)
  PROVE  r.table = "raw" /\ r.raw = x /\ r.kind = k
BY DEF IsRow, Tables, Identifiers, Kinds

LEMMA IdentifiedInput ==
  ASSUME NEW r, IsRow(r), NEW b, NEW x, NEW n, <<"input", b, x, n>> \in Identifiers(r)
  PROVE  r.table = "input" /\ r.batch = b /\ r.raw = x /\ r.ordinal = n
BY DEF IsRow, Tables, Identifiers, Kinds

LEMMA IdentifiedObservation ==
  ASSUME NEW r, IsRow(r), NEW e, NEW s, NEW k, NEW c, <<"observation", e, s, k, c>> \in Identifiers(r)
  PROVE  r.table = "observation" /\ r.event = e /\ r.kind = k
BY DEF IsRow, Tables, Identifiers, Kinds

LEMMA IdentifiedObservationKind ==
  ASSUME NEW r, IsRow(r), NEW e, NEW k, <<"observation", e, k>> \in Identifiers(r)
  PROVE  r.table = "observation" /\ r.event = e /\ r.kind = k
BY DEF IsRow, Tables, Identifiers, Kinds

-----------------------------------------------------------------------------
(* What the steps of transactions do to the rows                           *)

Sound(r) == IsRow(r) /\ RowOK(r)

\* The INSERT of a row that passes, the check of its references, and a commit.
Inserts(w, r) ==
  /\ checking[w] = NoRow /\ Sound(r)
  /\ Identifiers(r) \cap IdentifiersOf(VisibleTo(w)) = {}
  /\ \A x \in Writers \ {w} : Identifiers(r) \cap IdentifiersOf(written[x]) = {}
  /\ written' = [written EXCEPT ![w] = @ \cup {r}] /\ checking' = [checking EXCEPT ![w] = r]
  /\ committed' = committed

Refers(w) ==
  /\ References(checking[w]) \subseteq IdentifiersOf(VisibleTo(w))
  /\ checking' = [checking EXCEPT ![w] = NoRow] /\ written' = written /\ committed' = committed

Commits(w) ==
  /\ checking[w] = NoRow
  /\ \A r \in written[w] : DeferredOK(VisibleTo(w), r)
  /\ committed' = VisibleTo(w) /\ written' = [written EXCEPT ![w] = {}] /\ checking' = checking

RowsUnchanged == committed' = committed /\ written' = written /\ checking' = checking

\* Every step leaves the rows alone or is one of these, or a rollback.
LEMMA RowSteps ==
  ASSUME workload \in DOMAIN Workloads, [LifecycleNext]_lifecycleVars
  PROVE  /\ workload' \in DOMAIN Workloads
         /\ \/ RowsUnchanged
            \/ \E w \in Writers : (\E r : Inserts(w, r)) \/ Refers(w) \/ Commits(w) \/ Rollback(w)
<1>1. CASE UNCHANGED lifecycleVars
  BY <1>1 DEF lifecycleVars, RowsUnchanged
<1>2. CASE \E e \in Reports : Report(e)
  BY <1>2 DEF Report, RowsUnchanged
<1>3. ASSUME NEW w \in Writers, NEW r \in Workloads[workload][w], InsertRow(w, r)
      PROVE  workload' = workload /\ (Inserts(w, r) \/ Rollback(w))
  <2>1. IsRow(r)
    BY LifecycleAssumption
  <2> QED
    BY <1>3, <2>1 DEF InsertRow, Inserts, Sound
<1>4. ASSUME NEW w \in Writers, CheckReferences(w)
      PROVE  workload' = workload /\ (Refers(w) \/ Rollback(w))
  BY <1>4 DEF CheckReferences, Refers
<1>5. ASSUME NEW w \in Writers, CommitRows(w)
      PROVE  workload' = workload /\ (Commits(w) \/ Rollback(w))
  BY <1>5 DEF CommitRows, Commits
<1>6. ASSUME NEW w \in Writers, AbortRows(w) PROVE workload' = workload /\ Rollback(w)
  BY <1>6 DEF AbortRows
<1> QED
  BY <1>1, <1>2, <1>3, <1>4, <1>5, <1>6 DEF LifecycleNext

-----------------------------------------------------------------------------
(* Rows, their identifiers and their references                            *)

RowsInv ==
  /\ workload \in DOMAIN Workloads
  /\ written = [w \in Writers |-> written[w]] /\ checking = [w \in Writers |-> checking[w]]
  /\ IsFiniteSet(committed) /\ \A r \in committed : Sound(r)
  /\ \A w \in Writers : IsFiniteSet(written[w]) /\ \A r \in written[w] : Sound(r)

\* No two rows that a transaction may see together have an identifier in common, nor
\* have rows of two transactions.
KeysInv ==
  /\ Distinct(committed)
  /\ \A w \in Writers : Distinct(VisibleTo(w))
  /\ \A w \in Writers : \A r \in written[w], s \in committed : (Identifiers(r) \cap Identifiers(s)) = {}
  /\ \A w, x \in Writers : w # x =>
       \A r \in written[w], s \in written[x] : (Identifiers(r) \cap Identifiers(s)) = {}

\* Rows refer to rows that are there, but for the one that is being inserted.
Referring(rows) == \A r \in rows : References(r) \subseteq IdentifiersOf(rows)

ReferencesInv ==
  /\ Referring(committed)
  /\ \A w \in Writers :
       /\ checking[w] = NoRow \/ checking[w] \in written[w]
       /\ \A r \in written[w] \ {checking[w]} : References(r) \subseteq IdentifiersOf(VisibleTo(w))

LEMMA RowsInit == LifecycleInit => RowsInv /\ KeysInv /\ ReferencesInv
BY FS_EmptySet DEF LifecycleInit, RowsInv, KeysInv, ReferencesInv, Distinct, Referring, VisibleTo

LEMMA RowsStep == RowsInv /\ [LifecycleNext]_lifecycleVars => RowsInv'
<1> SUFFICES ASSUME RowsInv, [LifecycleNext]_lifecycleVars PROVE RowsInv'
  OBVIOUS
<1>1. /\ workload' \in DOMAIN Workloads
      /\ \/ RowsUnchanged
         \/ \E w \in Writers : (\E r : Inserts(w, r)) \/ Refers(w) \/ Commits(w) \/ Rollback(w)
  BY RowSteps DEF RowsInv
<1>2. CASE RowsUnchanged
  BY <1>1, <1>2 DEF RowsUnchanged, RowsInv
<1>3. ASSUME NEW w \in Writers, NEW r, Inserts(w, r) PROVE RowsInv'
  <2>1. IsFiniteSet(written[w] \cup {r})
    BY FS_AddElement DEF RowsInv
  <2> QED
    BY <1>1, <1>3, <2>1 DEF Inserts, RowsInv
<1>4. ASSUME NEW w \in Writers, Refers(w) PROVE RowsInv'
  BY <1>1, <1>4 DEF Refers, RowsInv
<1>5. ASSUME NEW w \in Writers, Commits(w) PROVE RowsInv'
  <2>1. IsFiniteSet(committed \cup written[w]) /\ IsFiniteSet({})
    BY FS_Union, FS_EmptySet DEF RowsInv
  <2> QED
    BY <1>1, <1>5, <2>1 DEF Commits, RowsInv, VisibleTo
<1>6. ASSUME NEW w \in Writers, Rollback(w) PROVE RowsInv'
  BY <1>1, <1>6, FS_EmptySet DEF Rollback, RowsInv
<1> QED
  BY <1>1, <1>2, <1>3, <1>4, <1>5, <1>6

LEMMA KeysStep == RowsInv /\ KeysInv /\ [LifecycleNext]_lifecycleVars => KeysInv'
<1> SUFFICES ASSUME RowsInv, KeysInv, [LifecycleNext]_lifecycleVars PROVE KeysInv'
  OBVIOUS
<1>1. \/ RowsUnchanged
      \/ \E w \in Writers : (\E r : Inserts(w, r)) \/ Refers(w) \/ Commits(w) \/ Rollback(w)
  BY RowSteps DEF RowsInv
<1>2. CASE RowsUnchanged
  BY <1>2 DEF RowsUnchanged, KeysInv, VisibleTo
<1>3. ASSUME NEW w \in Writers, NEW r, Inserts(w, r) PROVE KeysInv'
  <2>1. /\ committed' = committed /\ written'[w] = written[w] \cup {r}
        /\ \A x \in Writers \ {w} : written'[x] = written[x]
    BY <1>3 DEF Inserts, RowsInv
  <2>2. \A s \in VisibleTo(w) : (Identifiers(r) \cap Identifiers(s)) = {}
    BY <1>3 DEF Inserts, IdentifiersOf
  <2>3. \A x \in Writers \ {w} : \A s \in written[x] : (Identifiers(r) \cap Identifiers(s)) = {}
    BY <1>3 DEF Inserts, IdentifiersOf
  <2> QED
    BY <2>1, <2>2, <2>3 DEF KeysInv, VisibleTo, Distinct
<1>4. ASSUME NEW w \in Writers, Refers(w) PROVE KeysInv'
  BY <1>4 DEF Refers, KeysInv, VisibleTo
<1>5. ASSUME NEW w \in Writers, Commits(w) PROVE KeysInv'
  <2>1. /\ committed' = committed \cup written[w] /\ written'[w] = {}
        /\ \A x \in Writers \ {w} : written'[x] = written[x]
    BY <1>5 DEF Commits, RowsInv, VisibleTo
  <2> QED
    BY <2>1 DEF KeysInv, VisibleTo, Distinct
<1>6. ASSUME NEW w \in Writers, Rollback(w) PROVE KeysInv'
  <2>1. /\ committed' = committed /\ written'[w] = {}
        /\ \A x \in Writers \ {w} : written'[x] = written[x]
    BY <1>6 DEF Rollback, RowsInv
  <2> QED
    BY <2>1 DEF KeysInv, VisibleTo, Distinct
<1> QED
  BY <1>1, <1>2, <1>3, <1>4, <1>5, <1>6

LEMMA ReferencesStep == RowsInv /\ ReferencesInv /\ [LifecycleNext]_lifecycleVars => ReferencesInv'
<1> SUFFICES ASSUME RowsInv, ReferencesInv, [LifecycleNext]_lifecycleVars PROVE ReferencesInv'
  OBVIOUS
<1>1. \/ RowsUnchanged
      \/ \E w \in Writers : (\E r : Inserts(w, r)) \/ Refers(w) \/ Commits(w) \/ Rollback(w)
  BY RowSteps DEF RowsInv
<1>2. \A rows, more : rows \subseteq more => IdentifiersOf(rows) \subseteq IdentifiersOf(more)
  BY DEF IdentifiersOf
<1>3. \A w \in Writers : \A r \in written[w] : r # NoRow
  BY DEF RowsInv, Sound, IsRow, NoRow, Tables, Kinds
<1>4. CASE RowsUnchanged
  BY <1>4 DEF RowsUnchanged, ReferencesInv, VisibleTo
<1>5. ASSUME NEW w \in Writers, NEW r, Inserts(w, r) PROVE ReferencesInv'
  <2>1. /\ committed' = committed /\ written'[w] = written[w] \cup {r} /\ checking'[w] = r
        /\ \A x \in Writers \ {w} : written'[x] = written[x] /\ checking'[x] = checking[x]
        /\ checking[w] = NoRow
    BY <1>5 DEF Inserts, RowsInv
  <2>2. IdentifiersOf(VisibleTo(w)) \subseteq IdentifiersOf(committed' \cup written'[w])
    BY <1>2, <2>1 DEF VisibleTo
  <2> QED
    BY <1>3, <2>1, <2>2 DEF ReferencesInv, VisibleTo
<1>6. ASSUME NEW w \in Writers, Refers(w) PROVE ReferencesInv'
  <2>1. /\ checking'[w] = NoRow /\ \A x \in Writers \ {w} : checking'[x] = checking[x]
        /\ committed' = committed /\ written' = written
    BY <1>6 DEF Refers, RowsInv
  <2>2. References(checking[w]) \subseteq IdentifiersOf(VisibleTo(w))
    BY <1>6 DEF Refers
  <2> QED
    BY <1>3, <2>1, <2>2 DEF ReferencesInv, VisibleTo
<1>7. ASSUME NEW w \in Writers, Commits(w) PROVE ReferencesInv'
  <2>1. /\ committed' = committed \cup written[w] /\ written'[w] = {} /\ checking' = checking
        /\ \A x \in Writers \ {w} : written'[x] = written[x]
        /\ checking[w] = NoRow
    BY <1>7 DEF Commits, RowsInv, VisibleTo
  <2>2. Referring(committed')
    BY <1>2, <1>3, <2>1 DEF ReferencesInv, Referring, VisibleTo
  <2>3. \A x \in Writers \ {w} : IdentifiersOf(VisibleTo(x)) \subseteq IdentifiersOf(committed' \cup written'[x])
    BY <1>2, <2>1 DEF VisibleTo
  <2> QED
    BY <2>1, <2>2, <2>3 DEF ReferencesInv, VisibleTo
<1>8. ASSUME NEW w \in Writers, Rollback(w) PROVE ReferencesInv'
  <2>1. /\ committed' = committed /\ written'[w] = {} /\ checking'[w] = NoRow
        /\ \A x \in Writers \ {w} : written'[x] = written[x] /\ checking'[x] = checking[x]
    BY <1>8 DEF Rollback, RowsInv
  <2> QED
    BY <2>1 DEF ReferencesInv, VisibleTo
<1> QED
  BY <1>1, <1>4, <1>5, <1>6, <1>7, <1>8

-----------------------------------------------------------------------------
(* The tables and the domain on what an event is                           *)

LEMMA ModeLimits ==
  /\ MaxInstrumentKeys \in Nat
  /\ \A mode \in DOMAIN ModeLimit : ModeLimit[mode] \in Nat /\ ModeLimit[mode] <= MaxInstrumentKeys
BY DEF ModeLimit, MaxInstrumentKeys

\* A raw row that passes its checks holds a valid event.
LEMMA SoundRawIsValid ==
  ASSUME NEW r, Sound(r), r.table = "raw"
  PROVE  ValidEvent(r.values)
<1> DEFINE e == r.values
<1>1. r.kind \in Kinds /\ e.kind = r.kind /\ e.mode \in {Absent} \cup DOMAIN ModeLimit
  BY DEF Sound, IsRow
<1>2. RawRowOK(r)
  BY DEF Sound, RowOK, Kinds
<1>3. ClocksOrdered(e) /\ ReasonFits(e)
  BY <1>1, <1>2 DEF RawRowOK, StatesOK, ClocksOrdered, ReasonFits
<1>4. CASE r.kind = "connection"
  BY <1>1, <1>2, <1>3, <1>4 DEF RawRowOK, StatesOK, Transitions, ValidEvent, ValidConnection
<1>5. CASE r.kind = "subscription"
  <2>1. /\ <<e.previous, e.state>> \in SubscriptionTransitions /\ e.scope # Absent
        /\ e.state \in NeedsMode => e.mode # Absent
        /\ e.keys.count \in 1..(IF e.mode = Absent THEN MaxInstrumentKeys ELSE ModeLimit[e.mode])
    BY <1>2, <1>5 DEF RawRowOK, StatesOK, Transitions
  <2>2. e.keys.count \in 1..MaxInstrumentKeys /\ (e.mode # Absent => e.keys.count <= ModeLimit[e.mode])
    BY <1>1, <2>1, ModeLimits
  <2> QED
    BY <1>1, <1>3, <1>5, <2>1, <2>2 DEF ValidEvent, ValidSubscription
<1> QED
  BY <1>1, <1>4, <1>5 DEF Kinds

\* A valid event has a raw row and a typed row that pass their checks.
LEMMA ValidEventHasRows ==
  ASSUME NEW e, ValidEvent(e), e.kind \in Kinds, e.mode \in {Absent} \cup DOMAIN ModeLimit
  PROVE  RawRowOK(RawRow(e)) /\ TypedRowOK(TypedRow(e))
<1>1. /\ RawRow(e).kind = e.kind /\ RawRow(e).values = e
      /\ TypedRow(e).table = e.kind /\ TypedRow(e).kind = e.kind /\ TypedRow(e).values = e
      /\ TypedRow(e).subject = SubjectOf(e) /\ TypedRow(e).session = e.session
  BY DEF RawRow, TypedRow, Observation
<1>2. ClocksOrdered(e) /\ ReasonFits(e)
  BY DEF ValidEvent, ValidConnection, ValidSubscription
<1>3. CASE e.kind = "connection"
  <2>1. StatesOK("connection", e)
    BY <1>2, <1>3 DEF ValidEvent, ValidConnection, ReasonFits, StatesOK, Transitions
  <2>2. e.scope = Absent /\ e.mode = Absent /\ e.keys = NoKeys
    BY <1>3 DEF ValidEvent, ValidConnection
  <2> QED
    BY <1>1, <1>2, <1>3, <2>1, <2>2 DEF RawRowOK, TypedRowOK, ConnectionRowOK, ClocksOrdered, SubjectOf
<1>4. CASE e.kind = "subscription"
  <2>1. /\ <<e.previous, e.state>> \in SubscriptionTransitions /\ e.scope # Absent
        /\ e.state \in NeedsMode => e.mode # Absent
        /\ e.keys.count \in 1..MaxInstrumentKeys
        /\ e.mode # Absent => e.keys.count <= ModeLimit[e.mode]
    BY <1>4 DEF ValidEvent, ValidSubscription
  <2>2. e.keys.count \in 1..(IF e.mode = Absent THEN MaxInstrumentKeys ELSE ModeLimit[e.mode])
    BY <2>1, ModeLimits
  <2>3. e.keys # NoKeys
    <3>1. e.keys.count # 0 /\ NoKeys.count = 0
      BY <2>1, ModeLimits DEF NoKeys
    <3> QED
      BY <3>1
  <2>4. StatesOK("subscription", e)
    BY <1>2, <1>4, <2>1, <2>2 DEF ReasonFits, StatesOK, Transitions
  <2> QED
    BY <1>1, <1>2, <1>4, <2>1, <2>3, <2>4 DEF RawRowOK, TypedRowOK, SubscriptionRowOK, ClocksOrdered
<1> QED
  BY <1>3, <1>4 DEF Kinds

LEMMA RowsHold == LifecycleSpec => [](RowsInv /\ KeysInv /\ ReferencesInv)
BY RowsInit, RowsStep, KeysStep, ReferencesStep, PTL DEF LifecycleSpec

\* No committed event is one the constructors of lifecycle.py refuse, and none they
\* accept is refused by the row checks of migration 20260804_04.
THEOREM SchemaAgreesOnEventsHolds == LifecycleSpec => []SchemaAgreesOnEvents
<1>1. RowsInv /\ TrailInv => SchemaAgreesOnEvents
  <2> SUFFICES ASSUME RowsInv, TrailInv PROVE SchemaAgreesOnEvents
    OBVIOUS
  <2>1. \A r \in Rows(committed, "raw") : ValidEvent(r.values)
    BY SoundRawIsValid DEF RowsInv, Rows
  <2>2. ASSUME NEW i \in DOMAIN trail PROVE RawRowOK(RawRow(trail[i])) /\ TypedRowOK(TypedRow(trail[i]))
    <3>1. trail[i] \in Reports /\ ValidEvent(trail[i])
      BY DEF TrailInv
    <3> QED
      BY <3>1, ValidEventHasRows, LifecycleAssumption
  <2> QED
    BY <2>1, <2>2 DEF SchemaAgreesOnEvents
<1> QED
  BY <1>1, RowsHold, TrailHolds, PTL

-----------------------------------------------------------------------------
(* Observations and their typed rows                                       *)

\* The rows a transaction may commit refer to one another.
LEMMA CommitsRefer ==
  ASSUME RowsInv, ReferencesInv, NEW w \in Writers, checking[w] = NoRow
  PROVE  Referring(VisibleTo(w))
<1>1. \A rows, more : rows \subseteq more => IdentifiersOf(rows) \subseteq IdentifiersOf(more)
  BY DEF IdentifiersOf
<1>2. \A r \in written[w] : r # checking[w]
  BY DEF RowsInv, Sound, IsRow, NoRow, Tables, Kinds
<1> QED
  BY <1>1, <1>2 DEF ReferencesInv, Referring, VisibleTo

\* The typed row of an observation, which no other table has one for.
OnlyTyped(rows, o) ==
  \E t \in Rows(rows, o.kind) :
    t.event = o.event /\ \A x \in rows : x.table \in Kinds /\ x.event = o.event => x = t

TypedInv == \A o \in Rows(committed, "observation") : OnlyTyped(committed, o)

\* The constraint trigger of an observation leaves it its typed row.
LEMMA TypedAtCommit ==
  ASSUME NEW rows, IsFiniteSet(rows), NEW o, o.kind \in Kinds, SubtypeIntegrity(rows, o)
  PROVE  OnlyTyped(rows, o)
<1> DEFINE T(kind) == {t \in Rows(rows, kind) : t.event = o.event}
<1>1. ASSUME NEW kind \in Kinds PROVE IsFiniteSet(T(kind)) /\ Cardinality(T(kind)) = IF kind = o.kind THEN 1 ELSE 0
  <2>1. T(kind) \in SUBSET rows
    BY DEF Rows
  <2>2. Cardinality(T(kind)) = IF kind = o.kind THEN 1 ELSE 0
    BY DEF SubtypeIntegrity
  <2> HIDE DEF T
  <2> QED
    BY <2>1, <2>2, FS_Subset
<1>2. PICK t : T(o.kind) = {t}
  <2> HIDE DEF T
  <2> QED
    BY <1>1, FS_Singleton
<1>3. \A kind \in Kinds : kind # o.kind => T(kind) = {}
  <2> HIDE DEF T
  <2> QED
    BY <1>1, FS_EmptySet
<1>4. t \in Rows(rows, o.kind) /\ t.event = o.event
  BY <1>2
<1>5. ASSUME NEW x \in rows, x.table \in Kinds, x.event = o.event PROVE x = t
  <2>1. x \in T(x.table)
    BY <1>5 DEF Rows
  <2> QED
    BY <1>2, <1>3, <1>5, <2>1
<1> QED
  BY <1>4, <1>5 DEF OnlyTyped

\* Rows that refer to one another add no typed row to an observation that has one:
\* it would have the identifier of that row, or refer to another observation with
\* the identifier of this one.
LEMMA TypedAfterCommit ==
  ASSUME NEW rows, NEW more, rows \subseteq more, Distinct(more), Referring(more),
         \A r \in more : Sound(r), NEW o \in Rows(rows, "observation"), OnlyTyped(rows, o)
  PROVE  OnlyTyped(more, o)
<1>1. PICK t \in Rows(rows, o.kind) : t.event = o.event
  BY DEF OnlyTyped
<1>2. o \in more /\ o.table = "observation" /\ t \in more /\ t.table = o.kind
  BY <1>1 DEF Rows
<1>3. ASSUME NEW x \in more, x.table \in Kinds, x.event = o.event PROVE x = t
  <2>1. <<"observation", x.event, x.subject, x.kind, x.session>> \in IdentifiersOf(more)
    BY <1>3 DEF Referring, References, Kinds
  <2>2. PICK p \in more : <<"observation", x.event, x.subject, x.kind, x.session>> \in Identifiers(p)
    BY <2>1 DEF IdentifiersOf
  <2>3. p.table = "observation" /\ p.event = x.event /\ p.kind = x.kind
    BY <2>2, IdentifiedObservation DEF Sound
  <2>4. p = o
    <3>1. <<"observation", o.event>> \in Identifiers(o) /\ <<"observation", o.event>> \in Identifiers(p)
      BY <1>2, <1>3, <2>3 DEF Identifiers
    <3> QED
      BY <1>2, <3>1 DEF Distinct
  <2>5. x.table = o.kind
    BY <1>3, <2>3, <2>4 DEF Sound, RowOK, TypedRowOK, Kinds
  <2>6. <<o.kind, o.event>> \in Identifiers(x) /\ <<o.kind, o.event>> \in Identifiers(t)
    BY <1>1, <1>2, <1>3, <2>5 DEF Identifiers, Kinds
  <2> QED
    BY <1>2, <2>6 DEF Distinct
<1> QED
  BY <1>1, <1>2, <1>3 DEF OnlyTyped, Rows

LEMMA TypedStep == RowsInv /\ KeysInv /\ ReferencesInv /\ TypedInv /\ [LifecycleNext]_lifecycleVars => TypedInv'
<1> SUFFICES ASSUME RowsInv, KeysInv, ReferencesInv, TypedInv, [LifecycleNext]_lifecycleVars PROVE TypedInv'
  OBVIOUS
<1>1. committed' = committed \/ \E w \in Writers : Commits(w)
  BY RowSteps DEF RowsInv, RowsUnchanged, Inserts, Refers, Rollback
<1>2. CASE committed' = committed
  BY <1>2 DEF TypedInv, OnlyTyped, Rows
<1>3. ASSUME NEW w \in Writers, Commits(w) PROVE TypedInv'
  <2> DEFINE rows == VisibleTo(w)
  <2>1. committed' = rows /\ committed \subseteq rows /\ rows = committed \cup written[w]
    BY <1>3 DEF Commits, VisibleTo
  <2>2. IsFiniteSet(rows) /\ Distinct(rows) /\ Referring(rows) /\ \A r \in rows : Sound(r)
    <3>1. IsFiniteSet(committed \cup written[w]) /\ \A r \in committed \cup written[w] : Sound(r)
      BY FS_Union DEF RowsInv
    <3>2. Distinct(rows) /\ Referring(rows)
      BY <1>3, CommitsRefer DEF KeysInv, Commits
    <3> QED
      BY <2>1, <3>1, <3>2
  <2>3. \A r \in written[w] : DeferredOK(rows, r)
    BY <1>3 DEF Commits
  <2> HIDE DEF rows
  <2>4. ASSUME NEW o \in Rows(rows, "observation") PROVE OnlyTyped(rows, o)
    <3>1. CASE o \in committed
      <4>1. o \in Rows(committed, "observation") /\ OnlyTyped(committed, o)
        BY <3>1 DEF Rows, TypedInv
      <4> QED
        BY <2>1, <2>2, <4>1, TypedAfterCommit
    <3>2. CASE o \in written[w]
      <4>1. o.table = "observation" /\ Sound(o) /\ o.kind \in Kinds
        BY <2>2 DEF Rows, Sound, IsRow
      <4>2. SubtypeIntegrity(rows, o)
        <5>1. DeferredOK(rows, o)
          BY <2>3, <3>2
        <5> QED
          BY <4>1, <5>1 DEF DeferredOK
      <4> QED
        BY <2>2, <4>1, <4>2, TypedAtCommit
    <3> QED
      BY <2>1, <3>1, <3>2 DEF Rows
  <2> QED
    BY <2>1, <2>4 DEF TypedInv
<1> QED
  BY <1>1, <1>2, <1>3

\* A committed observation has exactly one typed row, in the table of the kind of its
\* raw event, and no other observation interprets that event, whatever transactions
\* inserted at the same time (the unique keys and the deferred subtype trigger of
\* migration 20260804_04).
THEOREM OneTypedObservationHolds == LifecycleSpec => []OneTypedObservation
<1>1. LifecycleInit => TypedInv
  BY DEF LifecycleInit, TypedInv, Rows
<1>2. LifecycleSpec => []TypedInv
  BY <1>1, RowsHold, TypedStep, PTL DEF LifecycleSpec
<1>3. RowsInv /\ KeysInv /\ ReferencesInv /\ TypedInv => OneTypedObservation
  <2> SUFFICES ASSUME RowsInv, KeysInv, ReferencesInv, TypedInv, NEW o \in Rows(committed, "observation")
               PROVE  /\ Cardinality({t \in committed : t.table \in Kinds /\ t.event = o.event}) = 1
                      /\ \E r \in Rows(committed, "raw") : \E t \in Rows(committed, r.kind) :
                           r.raw = o.raw /\ t.event = o.event
                      /\ \A p \in Rows(committed, "observation") : p.raw = o.raw => p = o
    BY DEF OneTypedObservation
  <2>1. o \in committed /\ o.table = "observation" /\ o.kind \in Kinds
    BY DEF Rows, RowsInv, Sound, IsRow
  <2>2. PICK t \in Rows(committed, o.kind) :
          t.event = o.event /\ \A x \in committed : x.table \in Kinds /\ x.event = o.event => x = t
    BY DEF TypedInv, OnlyTyped
  <2>3. {x \in committed : x.table \in Kinds /\ x.event = o.event} = {t}
    BY <2>1, <2>2 DEF Rows
  <2>4. PICK r \in committed : <<"raw", o.raw, o.kind>> \in Identifiers(r)
    BY <2>1 DEF ReferencesInv, Referring, References, IdentifiersOf
  <2>5. r.table = "raw" /\ r.raw = o.raw /\ r.kind = o.kind
    BY <2>4, IdentifiedRaw DEF RowsInv, Sound
  <2>6. ASSUME NEW p \in Rows(committed, "observation"), p.raw = o.raw PROVE p = o
    <3>1. \A x : x.table = "observation" => <<"observed", x.raw>> \in Identifiers(x)
      BY DEF Identifiers, Kinds
    <3>2. p \in committed /\ p.table = "observation"
      BY DEF Rows
    <3>3. <<"observed", o.raw>> \in Identifiers(p) /\ <<"observed", o.raw>> \in Identifiers(o)
      BY <2>1, <2>6, <3>1, <3>2
    <3> QED
      BY <2>1, <3>2, <3>3 DEF KeysInv, Distinct
  <2>7. Cardinality({x \in committed : x.table \in Kinds /\ x.event = o.event}) = 1
    BY <2>3, FS_Singleton
  <2>8. r \in Rows(committed, "raw") /\ t \in Rows(committed, r.kind)
    BY <2>2, <2>4, <2>5 DEF Rows
  <2> QED
    BY <2>2, <2>5, <2>6, <2>7, <2>8
<1> QED
  BY <1>2, <1>3, RowsHold, PTL

-----------------------------------------------------------------------------
(* Counting                                                                *)

\* As many ordinals as rows, when no two rows have one in common.
LEMMA OrdinalsCount ==
  ASSUME NEW A, IsFiniteSet(A), \A r \in A : r.ordinal \in Nat,
         \A r, s \in A : r.ordinal = s.ordinal => r = s
  PROVE  LET Places == {r.ordinal + 1 : r \in A}
         IN  IsFiniteSet(Places) /\ Cardinality(Places) = Cardinality(A)
<1> DEFINE Places == {r.ordinal + 1 : r \in A}
           place == [r \in A |-> r.ordinal + 1]
<1>1. place \in Bijection(A, Places)
  <2>1. place \in [A -> Places] /\ \A p \in Places : \E r \in A : place[r] = p
    OBVIOUS
  <2>2. \A r, s \in A : place[r] = place[s] => r = s
    OBVIOUS
  <2> QED
    BY <2>1, <2>2 DEF Bijection, Injection, Surjection, IsInjective
<1> HIDE DEF Places, place
<1>2. ExistsBijection(A, Places)
  BY <1>1 DEF ExistsBijection
<1>3. IsFiniteSet(Places) /\ Cardinality(Places) = Cardinality(A)
  BY <1>2, FS_Bijection
<1> QED
  BY <1>3 DEF Places

\* The n-th number of a finite set is the one with n - 1 below it, and there is one.
LEMMA SortedRank ==
  ASSUME NEW S \in SUBSET Nat, IsFiniteSet(S), NEW n \in 1..Cardinality(S)
  PROVE  Sorted(S)[n] \in S /\ Cardinality({y \in S : y < Sorted(S)[n]}) = n - 1
<1> DEFINE Below(x) == {y \in S : y < x}
           size == Cardinality(S)
           rank == [x \in S |-> Cardinality(Below(x)) + 1]
<1>1. size \in Nat /\ IsFiniteSet(1..size) /\ Cardinality(1..size) = size
  BY FS_CardinalityType, FS_Interval
<1>2. ASSUME NEW x \in S
      PROVE  IsFiniteSet(Below(x)) /\ Cardinality(Below(x)) \in Nat /\ Cardinality(Below(x)) < size
  <2>1. Below(x) \in SUBSET S /\ Below(x) # S
    OBVIOUS
  <2> HIDE DEF Below
  <2> QED
    BY <1>1, <2>1, FS_Subset, FS_CardinalityType
<1>3. ASSUME NEW x \in S, NEW y \in S, x < y PROVE Cardinality(Below(x)) < Cardinality(Below(y))
  <2>1. Below(x) \in SUBSET Below(y) /\ x \in Below(y) /\ x \notin Below(x)
    <3>1. \A z \in S : z < x => z < y
      BY <1>3
    <3>2. ~(x < x)
      OBVIOUS
    <3> QED
      BY <1>3, <3>1, <3>2
  <2> HIDE DEF Below
  <2>2. Cardinality(Below(x)) <= Cardinality(Below(y))
    BY <1>2, <2>1, FS_Subset
  <2>3. Cardinality(Below(x)) # Cardinality(Below(y))
    BY <1>2, <2>1, FS_Subset
  <2> QED
    BY <1>2, <2>2, <2>3
<1>4. rank \in Injection(S, 1..size)
  <2>1. rank \in [S -> 1..size]
    <3> HIDE DEF Below, size
    <3>1. \A x \in S : Cardinality(Below(x)) + 1 \in 1..size
      BY <1>1, <1>2
    <3> QED
      BY <3>1
  <2>2. ASSUME NEW x \in S, NEW y \in S, rank[x] = rank[y] PROVE x = y
    <3> HIDE DEF Below, size
    <3>1. Cardinality(Below(x)) = Cardinality(Below(y))
      <4>1. rank[x] = Cardinality(Below(x)) + 1 /\ rank[y] = Cardinality(Below(y)) + 1
        OBVIOUS
      <4>2. \A a, b \in Nat : a + 1 = b + 1 => a = b
        OBVIOUS
      <4>3. Cardinality(Below(x)) \in Nat /\ Cardinality(Below(y)) \in Nat
        BY <1>2
      <4> HIDE DEF rank
      <4> QED
        BY <2>2, <4>1, <4>2, <4>3
    <3>2. Cardinality(Below(x)) \in Nat
      BY <1>2
    <3>3. ~(Cardinality(Below(x)) < Cardinality(Below(y))) /\ ~(Cardinality(Below(y)) < Cardinality(Below(x)))
      BY <3>1, <3>2
    <3>4. ~(x < y) /\ ~(y < x)
      BY <1>3, <3>3
    <3> QED
      BY <3>4
  <2> HIDE DEF rank
  <2> QED
    BY <2>1, <2>2 DEF Injection, IsInjective
<1>5. rank \in Surjection(S, 1..size)
  <2> HIDE DEF rank, size
  <2> QED
    BY <1>1, <1>4, FS_Injection DEF size
<1>6. PICK x \in S : rank[x] = n
  <2> HIDE DEF rank
  <2> QED
    BY <1>5 DEF Surjection
<1> DEFINE P(y) == y \in S /\ Cardinality(Below(y)) = n - 1
<1>7. P(x)
  BY <1>2, <1>6
<1>8. Sorted(S)[n] = CHOOSE y : P(y)
  BY DEF Sorted
<1>9. P(Sorted(S)[n])
  <2> HIDE DEF P
  <2> QED
    BY <1>7, <1>8
<1> QED
  BY <1>9

\* Every number of the set is there, at its rank.
LEMMA RankSorted ==
  ASSUME NEW S \in SUBSET Nat, IsFiniteSet(S), NEW x \in S
  PROVE  LET n == Cardinality({y \in S : y < x}) + 1
         IN  n \in 1..Cardinality(S) /\ Sorted(S)[n] = x
<1> DEFINE Below(z) == {y \in S : y < z}
           n == Cardinality(Below(x)) + 1
<1>1. ASSUME NEW z \in S
      PROVE  /\ Cardinality(Below(z)) \in Nat /\ Cardinality(S) \in Nat /\ IsFiniteSet(Below(z))
             /\ Cardinality(Below(z)) < Cardinality(S)
  <2>1. Below(z) \in SUBSET S /\ Below(z) # S
    OBVIOUS
  <2> HIDE DEF Below
  <2>2. IsFiniteSet(Below(z)) /\ Cardinality(Below(z)) <= Cardinality(S) /\ Cardinality(Below(z)) # Cardinality(S)
    BY <2>1, FS_Subset
  <2> QED
    BY <2>2, FS_CardinalityType
<1>2. n \in 1..Cardinality(S)
  <2> HIDE DEF Below
  <2> QED
    BY <1>1
<1>3. ASSUME NEW y \in S, NEW z \in S, y < z PROVE Cardinality(Below(y)) # Cardinality(Below(z))
  <2>1. y \in Nat /\ z \in Nat /\ \A u \in S : u \in Nat
    OBVIOUS
  <2>2. Below(y) \in SUBSET Below(z) /\ y \in Below(z) /\ y \notin Below(y)
    <3>1. \A u \in S : u < y => u < z
      BY <1>3, <2>1
    <3>2. ~(y < y)
      BY <2>1
    <3> QED
      BY <1>3, <3>1, <3>2
  <2> HIDE DEF Below
  <2> QED
    BY <1>1, <2>2, FS_Subset
<1>4. Sorted(S)[n] \in S /\ Cardinality(Below(Sorted(S)[n])) = n - 1
  <2> HIDE DEF n
  <2> QED
    BY <1>2, SortedRank
<1> DEFINE other == Sorted(S)[n]
<1>5. other \in S /\ Cardinality(Below(other)) = Cardinality(Below(x))
  <2> HIDE DEF Below
  <2> QED
    BY <1>1, <1>4
<1> HIDE DEF other, Below
<1>6. ~(other < x) /\ ~(x < other)
  BY <1>3, <1>5
<1>7. other = x
  BY <1>5, <1>6
<1> QED
  BY <1>2, <1>7 DEF other, Below

LEMMA SortedLength ==
  ASSUME NEW S, Cardinality(S) \in Nat
  PROVE  Len(Sorted(S)) = Cardinality(S)
<1> DEFINE at(n) == CHOOSE x \in S : Cardinality({y \in S : y < x}) = n - 1
<1>1. Sorted(S) = [n \in 1..Cardinality(S) |-> at(n)]
  BY DEF Sorted
<1> HIDE DEF at
<1> QED
  BY <1>1

\* Among inputs of which as many are first as there are events, all inputs of an
\* event have one first.
LEMMA OneFirst ==
  ASSUME NEW I, IsFiniteSet(I), NEW firsts \in SUBSET I,
         Cardinality(firsts) = Cardinality({r.raw : r \in I}),
         \A r \in I : \E f \in firsts : f.raw = r.raw /\ f.ordinal = r.first,
         NEW r \in I, NEW s \in I, r.raw = s.raw
  PROVE  r.first = s.first
<1> DEFINE raws == {x.raw : x \in I}
           raw == [f \in firsts |-> f.raw]
<1>1. IsFiniteSet(firsts)
  BY FS_Subset
<1>2. raw \in Surjection(firsts, raws)
  <2>1. raw \in [firsts -> raws]
    OBVIOUS
  <2>2. \A x \in raws : \E f \in firsts : raw[f] = x
    OBVIOUS
  <2> QED
    BY <2>1, <2>2 DEF Surjection
<1>3. raw \in Injection(firsts, raws)
  <2>1. Cardinality(firsts) = Cardinality(raws)
    OBVIOUS
  <2> HIDE DEF raw, raws
  <2> QED
    BY <1>1, <1>2, <2>1, FS_SurjSameCardinalityImpliesInj
<1>4. \A f, g \in firsts : f.raw = g.raw => f = g
  <2>1. \A f, g \in firsts : raw[f] = raw[g] => f = g
    <3> HIDE DEF raw, raws
    <3> QED
      BY <1>3 DEF Injection, IsInjective
  <2> QED
    BY <2>1
<1> QED
  BY <1>4

-----------------------------------------------------------------------------
(* Sets and batches                                                        *)

SetWhole(rows, s) == \A i \in 1..s.count : KeyRow(s.digest, i) \in rows

\* The inputs of a batch by their places, each with the place where its event first
\* occurs, and the observation of every event that occurs first, in their order.
FirstPlaces(inputs) == {i \in DOMAIN inputs : inputs[i].first = i - 1}

InputsWhole(inputs) ==
  \A i \in DOMAIN inputs :
    /\ inputs[i].ordinal = i - 1 /\ inputs[i].first \in 0..(i - 1)
    /\ inputs[inputs[i].first + 1].raw = inputs[i].raw
    /\ \A k \in 1..inputs[i].first : inputs[k].raw # inputs[i].raw

Normalizes(rows, b, n, raw) ==
  \E m \in Rows(rows, "normalized"), o \in Rows(rows, "observation") :
    m.batch = b.batch /\ m.ordinal = n - 1 /\ o.event = m.event /\ o.raw = raw

BatchWhole(rows, b) ==
  \E inputs \in [1..b.input -> InputsOf(rows, b.batch)] :
    /\ InputsWhole(inputs)
    /\ b.unique = Cardinality(FirstPlaces(inputs))
    /\ \A n \in 1..b.unique : Normalizes(rows, b, n, inputs[Sorted(FirstPlaces(inputs))[n]].raw)

AggregatesInv ==
  /\ \A s \in Rows(committed, "set") : SetWhole(committed, s)
  /\ \A b \in Rows(committed, "batch") : BatchWhole(committed, b)

\* The constraint trigger of a set leaves it its keys.
LEMMA SetAtCommit ==
  ASSUME NEW rows, \A r \in rows : Sound(r), NEW s \in Rows(rows, "set"), SetIntegrity(rows, s)
  PROVE  SetWhole(rows, s)
<1>1. s.count \in Nat
  <2>1. s.table = "set" /\ Sound(s)
    BY DEF Rows
  <2>2. s.count \in 1..MaxInstrumentKeys
    BY <2>1 DEF Sound, RowOK, SetRowOK, Kinds
  <2> QED
    BY <2>2, ModeLimits
<1>2. ASSUME NEW i \in 1..s.count PROVE KeyRow(s.digest, i) \in rows
  <2> DEFINE keys == {k \in Rows(rows, "key") : k.digest = s.digest}
  <2>1. {k.ordinal : k \in keys} = 0..(s.count - 1) /\ \A k \in keys : s.digest[k.ordinal + 1] = k.key
    BY DEF SetIntegrity
  <2>2. i - 1 \in 0..(s.count - 1) /\ (i - 1) + 1 = i
    BY <1>1
  <2>3. PICK k \in keys : k.ordinal = i - 1
    BY <2>1, <2>2
  <2>4. s.digest[i] = k.key
    BY <2>1, <2>2, <2>3
  <2>5. k \in rows /\ k.digest = s.digest
        /\ k = [table |-> "key", digest |-> k.digest, ordinal |-> k.ordinal, key |-> k.key]
    <3>1. k \in rows /\ k.digest = s.digest /\ k.table = "key"
      BY DEF Rows
    <3>2. IsRow(k)
      BY <3>1 DEF Sound
    <3> QED
      BY <3>1, <3>2 DEF IsRow
  <2> QED
    BY <2>3, <2>4, <2>5 DEF KeyRow
<1> QED
  BY <1>2 DEF SetWhole

\* More rows leave what is whole as it is.
LEMMA WholeStays ==
  ASSUME NEW rows, NEW more, rows \subseteq more
  PROVE  /\ \A s : SetWhole(rows, s) => SetWhole(more, s)
         /\ \A b : BatchWhole(rows, b) => BatchWhole(more, b)
<1>1. \A s : SetWhole(rows, s) => SetWhole(more, s)
  BY DEF SetWhole
<1>2. ASSUME NEW b, BatchWhole(rows, b) PROVE BatchWhole(more, b)
  <2>1. PICK inputs \in [1..b.input -> InputsOf(rows, b.batch)] :
          /\ InputsWhole(inputs)
          /\ b.unique = Cardinality(FirstPlaces(inputs))
          /\ \A n \in 1..b.unique : Normalizes(rows, b, n, inputs[Sorted(FirstPlaces(inputs))[n]].raw)
    BY <1>2 DEF BatchWhole
  <2>2. InputsOf(rows, b.batch) \subseteq InputsOf(more, b.batch)
    BY DEF InputsOf, Rows
  <2>3. inputs \in [1..b.input -> InputsOf(more, b.batch)]
    BY <2>2
  <2>4. \A n, raw : Normalizes(rows, b, n, raw) => Normalizes(more, b, n, raw)
    BY DEF Normalizes, Rows
  <2> QED
    BY <2>1, <2>3, <2>4 DEF BatchWhole
<1> QED
  BY <1>1, <1>2

\* The constraint trigger of the inputs of a batch, with the deferred reference to
\* the first of each, leaves inputs at all places.
LEMMA InputsAtCommit ==
  ASSUME NEW rows, IsFiniteSet(rows), Distinct(rows), \A r \in rows : Sound(r),
         NEW b \in Rows(rows, "batch"), InputsIntegrity(rows, b),
         \A r \in InputsOf(rows, b.batch) : DeferredOK(rows, r)
  PROVE  \E inputs \in [1..b.input -> InputsOf(rows, b.batch)] :
           /\ InputsWhole(inputs)
           /\ \A r \in InputsOf(rows, b.batch) : r.ordinal + 1 \in 1..b.input /\ inputs[r.ordinal + 1] = r
<1> DEFINE I == InputsOf(rows, b.batch)
           N == b.input
           duplicates == {r \in I : r.duplicate}
           firsts == I \ duplicates
<1>1. IsFiniteSet(I) /\ N \in Nat
  <2>1. I \in SUBSET rows /\ b.table = "batch" /\ Sound(b)
    BY DEF InputsOf, Rows
  <2>2. BatchRowOK(b)
    BY <2>1 DEF Sound, RowOK, Kinds
  <2>3. N \in 0..MaxLifecycleEvents
    BY <2>2 DEF BatchRowOK
  <2> HIDE DEF I
  <2> QED
    BY <2>1, <2>3, FS_Subset
<1>2. ASSUME NEW r \in I
      PROVE  /\ r \in rows /\ r.table = "input" /\ r.batch = b.batch
             /\ r.ordinal \in Nat /\ r.first \in 0..r.ordinal /\ r.duplicate = (r.first < r.ordinal)
  <2>1. r \in rows /\ r.table = "input" /\ r.batch = b.batch /\ Sound(r)
    BY DEF InputsOf, Rows
  <2> QED
    BY <2>1 DEF Sound, IsRow, RowOK, InputRowOK, Kinds
<1>3. \A r, s \in I : r.ordinal = s.ordinal => r = s
  <2>1. \A r \in I : <<"input", b.batch, r.ordinal>> \in Identifiers(r)
    BY <1>2 DEF Identifiers, Kinds
  <2> HIDE DEF I
  <2> QED
    BY <1>2, <2>1 DEF Distinct
<1>4. ASSUME NEW r \in I PROVE \E f \in I : f.raw = r.raw /\ f.ordinal = r.first
  <2>1. <<"input", r.batch, r.raw, r.first>> \in IdentifiersOf(rows)
    <3>1. DeferredOK(rows, r)
      OBVIOUS
    <3> HIDE DEF I
    <3> QED
      BY <1>2, <3>1 DEF DeferredOK
  <2>2. PICK f \in rows : <<"input", r.batch, r.raw, r.first>> \in Identifiers(f)
    BY <2>1 DEF IdentifiersOf
  <2>3. f.table = "input" /\ f.batch = r.batch /\ f.raw = r.raw /\ f.ordinal = r.first
    BY <2>2, IdentifiedInput DEF Sound
  <2> QED
    BY <1>2, <2>3 DEF InputsOf, Rows
<1>5. /\ {r.ordinal : r \in I} = 0..(N - 1)
      /\ Cardinality(firsts) = b.unique
      /\ Cardinality({r.raw : r \in I}) = b.unique
      /\ \A r, f \in I : f.raw = r.raw /\ f.ordinal = r.first => ~f.duplicate /\ f.first = f.ordinal
  BY DEF InputsIntegrity
<1> HIDE DEF I
<1>6. \A r \in I : \E f \in firsts : f.raw = r.raw /\ f.ordinal = r.first
  BY <1>4, <1>5
<1>7. \A r, s \in I : r.raw = s.raw => r.first = s.first
  <2>1. firsts \in SUBSET I /\ Cardinality(firsts) = Cardinality({r.raw : r \in I})
    BY <1>5
  <2> HIDE DEF firsts
  <2> QED
    BY <1>1, <1>6, <2>1, OneFirst
<1> DEFINE inputs == [i \in 1..N |-> CHOOSE r \in I : r.ordinal = i - 1]
<1>8. ASSUME NEW i \in 1..N PROVE inputs[i] \in I /\ inputs[i].ordinal = i - 1
  <2>1. i - 1 \in {r.ordinal : r \in I}
    BY <1>1, <1>5
  <2>2. \E r \in I : r.ordinal = i - 1
    BY <2>1
  <2> QED
    BY <2>2
<1>9. ASSUME NEW r \in I PROVE r.ordinal + 1 \in 1..N /\ inputs[r.ordinal + 1] = r
  <2>1. r.ordinal \in 0..(N - 1)
    BY <1>5
  <2>2. r.ordinal + 1 \in 1..N /\ (r.ordinal + 1) - 1 = r.ordinal
    BY <1>1, <1>2, <2>1
  <2> HIDE DEF inputs
  <2> QED
    BY <1>3, <1>8, <2>2
<1>10. inputs \in [1..N -> I]
  BY <1>8
<1> HIDE DEF inputs
<1>11. ASSUME NEW i \in 1..N
       PROVE  /\ inputs[i].ordinal = i - 1 /\ inputs[i].first \in 0..(i - 1)
              /\ inputs[inputs[i].first + 1].raw = inputs[i].raw
              /\ \A k \in 1..inputs[i].first : inputs[k].raw # inputs[i].raw
  <2> DEFINE r == inputs[i]
  <2>1. r \in I /\ r.ordinal = i - 1 /\ r.first \in 0..(i - 1)
    BY <1>2, <1>8
  <2>2. PICK f \in I : f.raw = r.raw /\ f.ordinal = r.first
    BY <1>4, <2>1
  <2>3. inputs[r.first + 1] = f
    BY <1>9, <2>2
  <2> HIDE DEF r
  <2>4. ASSUME NEW k \in 1..r.first, inputs[k].raw = r.raw PROVE FALSE
    <3>1. k \in 1..N /\ k \in Nat
      BY <1>1, <2>1
    <3>2. inputs[k].first = r.first /\ inputs[k].first \in 0..(k - 1)
      <4>1. inputs[k] \in I /\ inputs[k].ordinal = k - 1
        BY <1>8, <3>1
      <4> QED
        BY <1>2, <1>7, <2>1, <2>4, <4>1
    <3> QED
      BY <2>1, <3>1, <3>2
  <2> QED
    BY <2>1, <2>2, <2>3, <2>4 DEF r
<1> QED
  <2>1. DOMAIN inputs = 1..N
    BY <1>10
  <2>2. InputsWhole(inputs)
    BY <1>11, <2>1 DEF InputsWhole
  <2> QED
    BY <1>9, <1>10, <2>2 DEF I

\* The constraint triggers of a batch leave it its observations too.
LEMMA BatchAtCommit ==
  ASSUME NEW rows, IsFiniteSet(rows), Distinct(rows), \A r \in rows : Sound(r),
         NEW b \in Rows(rows, "batch"), InputsIntegrity(rows, b), NormalizedIntegrity(rows, b),
         \A r \in InputsOf(rows, b.batch) : DeferredOK(rows, r)
  PROVE  BatchWhole(rows, b)
<1> DEFINE I == InputsOf(rows, b.batch)
           firsts == {r \in I : ~r.duplicate}
           members == {m \in Rows(rows, "normalized") : m.batch = b.batch}
<1>1. PICK inputs \in [1..b.input -> I] :
        /\ InputsWhole(inputs)
        /\ \A r \in I : r.ordinal + 1 \in 1..b.input /\ inputs[r.ordinal + 1] = r
  BY InputsAtCommit
<1> DEFINE S == FirstPlaces(inputs)
<1>2. IsFiniteSet(I) /\ \A r \in I : r.ordinal \in Nat /\ r.duplicate = (r.first < r.ordinal) /\ r.first \in 0..r.ordinal
  <2>1. I \in SUBSET rows /\ \A r \in I : r.table = "input" /\ Sound(r)
    BY DEF InputsOf, Rows
  <2> HIDE DEF I
  <2>2. \A r \in I : r.ordinal \in Nat /\ r.duplicate = (r.first < r.ordinal) /\ r.first \in 0..r.ordinal
    BY <2>1 DEF Sound, IsRow, RowOK, InputRowOK, Kinds
  <2> QED
    BY <2>1, <2>2, FS_Subset
<1>3. \A r, s \in I : r.ordinal = s.ordinal => r = s
  <2> HIDE DEF I
  <2> QED
    BY <1>1
<1>4. DOMAIN inputs = 1..b.input /\ \A i \in 1..b.input : inputs[i] \in I /\ inputs[i].ordinal = i - 1
  BY <1>1 DEF InputsWhole
<1>5. /\ Cardinality(firsts) = b.unique
      /\ \A f \in firsts : \E m \in members, o \in Rows(rows, "observation") :
           /\ m.ordinal = Cardinality({g \in firsts : g.ordinal < f.ordinal})
           /\ o.event = m.event /\ o.raw = f.raw
  <2>1. I \ {r \in I : r.duplicate} = firsts
    OBVIOUS
  <2>2. Cardinality(firsts) = b.unique
    <3>1. Cardinality(I \ {r \in I : r.duplicate}) = b.unique
      BY DEF InputsIntegrity
    <3> QED
      BY <2>1, <3>1
  <2> QED
    BY <2>2 DEF NormalizedIntegrity
<1> HIDE DEF I, members
<1>6. S \in SUBSET Nat /\ S \subseteq 1..b.input
  BY <1>4 DEF FirstPlaces
\* The places of the firsts below a place are those of the first inputs below it.
<1>7. ASSUME NEW A \in SUBSET firsts
      PROVE  IsFiniteSet({r.ordinal + 1 : r \in A}) /\ Cardinality({r.ordinal + 1 : r \in A}) = Cardinality(A)
  <2>1. A \in SUBSET I
    OBVIOUS
  <2>2. IsFiniteSet(A)
    BY <1>2, <2>1, FS_Subset
  <2>3. (\A r \in A : r.ordinal \in Nat) /\ \A r, s \in A : r.ordinal = s.ordinal => r = s
    BY <1>2, <1>3, <2>1
  <2> QED
    BY <2>2, <2>3, OrdinalsCount
<1>8. \A i \in S : inputs[i] \in firsts /\ inputs[i].ordinal + 1 = i
  <2>1. ASSUME NEW i \in S PROVE inputs[i] \in firsts /\ inputs[i].ordinal + 1 = i
    <3>1. i \in 1..b.input /\ inputs[i].first = i - 1 /\ inputs[i] \in I /\ inputs[i].ordinal = i - 1
      BY <1>4 DEF FirstPlaces
    <3>2. ~inputs[i].duplicate
      <4>1. inputs[i].duplicate = (inputs[i].first < inputs[i].ordinal)
        BY <1>2, <3>1
      <4>2. ~(inputs[i].first < inputs[i].ordinal)
        BY <3>1
      <4> QED
        BY <4>1, <4>2
    <3>3. inputs[i].ordinal + 1 = i
      BY <3>1
    <3> QED
      BY <3>1, <3>2, <3>3
  <2> QED
    BY <2>1
<1>9. \A f \in firsts : f.ordinal + 1 \in S /\ inputs[f.ordinal + 1] = f
  <2>1. ASSUME NEW f \in firsts PROVE f.ordinal + 1 \in S /\ inputs[f.ordinal + 1] = f
    <3>1. f.ordinal + 1 \in 1..b.input /\ inputs[f.ordinal + 1] = f /\ f \in I
      BY <1>1
    <3>2. f.first = (f.ordinal + 1) - 1
      <4>1. ~(f.first < f.ordinal) /\ f.first \in 0..f.ordinal /\ f.ordinal \in Nat
        BY <1>2
      <4> QED
        BY <4>1
    <3> QED
      BY <1>4, <3>1, <3>2 DEF FirstPlaces
  <2> QED
    BY <2>1
<1> HIDE DEF S
<1>10. S = {r.ordinal + 1 : r \in firsts}
  BY <1>8, <1>9
<1>11. IsFiniteSet(S) /\ Cardinality(S) = b.unique
  BY <1>5, <1>7, <1>10
<1>12. ASSUME NEW n \in 1..b.unique PROVE Normalizes(rows, b, n, inputs[Sorted(S)[n]].raw)
  <2> DEFINE i == Sorted(S)[n]
  <2>1. i \in S /\ Cardinality({y \in S : y < i}) = n - 1
    BY <1>6, <1>11, SortedRank
  <2> HIDE DEF i
  <2> DEFINE f == inputs[i]
             A == {g \in firsts : g.ordinal < f.ordinal}
  <2>2. f \in firsts /\ f.ordinal + 1 = i
    BY <1>8, <2>1
  <2>3. {y \in S : y < i} = {r.ordinal + 1 : r \in A}
    <3>1. \A g \in firsts : g.ordinal < f.ordinal <=> g.ordinal + 1 < i
      <4>1. \A g \in firsts : g.ordinal \in Nat
        BY <1>2
      <4> HIDE DEF f, firsts
      <4> QED
        BY <2>2, <4>1
    <3> HIDE DEF f, firsts
    <3> QED
      BY <1>10, <3>1
  <2>4. Cardinality(A) = n - 1
    <3>1. A \in SUBSET firsts
      OBVIOUS
    <3> HIDE DEF A, firsts
    <3> QED
      BY <1>7, <2>1, <2>3, <3>1
  <2>5. PICK m \in members, o \in Rows(rows, "observation") : m.ordinal = Cardinality(A) /\ o.event = m.event /\ o.raw = f.raw
    BY <1>5, <2>2
  <2> HIDE DEF A, f
  <2>6. m \in Rows(rows, "normalized") /\ m.batch = b.batch
    BY DEF members
  <2> QED
    BY <2>4, <2>5, <2>6 DEF Normalizes, f, i
<1> QED
  BY <1>1, <1>11, <1>12 DEF BatchWhole, S, I

\* The inputs of a batch that is not committed are of the transaction that writes it.
LEMMA InputsAreWritten ==
  ASSUME RowsInv, KeysInv, ReferencesInv, NEW w \in Writers,
         NEW b \in Rows(VisibleTo(w), "batch"), b \notin committed
  PROVE  InputsOf(VisibleTo(w), b.batch) \subseteq written[w]
<1> SUFFICES ASSUME NEW r \in committed, r.table = "input", r.batch = b.batch PROVE FALSE
  BY DEF InputsOf, Rows, VisibleTo
<1>1. <<"batch", r.batch, r.kind>> \in IdentifiersOf(committed)
  BY DEF ReferencesInv, Referring, References, Kinds
<1>2. PICK c \in committed : <<"batch", r.batch, r.kind>> \in Identifiers(c)
  BY <1>1 DEF IdentifiersOf
<1>3. c.table = "batch" /\ c.batch = b.batch
  BY <1>2, IdentifiedBatch DEF RowsInv, Sound
<1>4. \A x : x.table = "batch" => <<"batch", x.batch>> \in Identifiers(x)
  BY DEF Identifiers, Kinds
<1>5. <<"batch", b.batch>> \in Identifiers(b) /\ <<"batch", b.batch>> \in Identifiers(c)
  BY <1>3, <1>4 DEF Rows
<1>6. b \in VisibleTo(w) /\ c \in VisibleTo(w)
  BY DEF Rows, VisibleTo
<1> QED
  BY <1>5, <1>6 DEF KeysInv, Distinct

LEMMA AggregatesStep ==
  RowsInv /\ KeysInv /\ ReferencesInv /\ AggregatesInv /\ [LifecycleNext]_lifecycleVars => AggregatesInv'
<1> SUFFICES ASSUME RowsInv, KeysInv, ReferencesInv, AggregatesInv, [LifecycleNext]_lifecycleVars
             PROVE  AggregatesInv'
  OBVIOUS
<1>1. committed' = committed \/ \E w \in Writers : Commits(w)
  BY RowSteps DEF RowsInv, RowsUnchanged, Inserts, Refers, Rollback
<1>2. CASE committed' = committed
  BY <1>2 DEF AggregatesInv, SetWhole, BatchWhole, Normalizes, InputsOf, Rows
<1>3. ASSUME NEW w \in Writers, Commits(w) PROVE AggregatesInv'
  <2> DEFINE rows == VisibleTo(w)
  <2>1. committed' = rows /\ committed \subseteq rows /\ rows = committed \cup written[w]
    BY <1>3 DEF Commits, VisibleTo
  <2>2. IsFiniteSet(rows) /\ Distinct(rows) /\ \A r \in rows : Sound(r)
    <3>1. IsFiniteSet(committed \cup written[w]) /\ \A r \in committed \cup written[w] : Sound(r)
      BY FS_Union DEF RowsInv
    <3>2. Distinct(rows)
      BY DEF KeysInv
    <3> QED
      BY <2>1, <3>1, <3>2
  <2>3. \A r \in written[w] : DeferredOK(rows, r)
    BY <1>3 DEF Commits
  <2>4. \A b \in Rows(rows, "batch") : b \notin committed => InputsOf(rows, b.batch) \subseteq written[w]
    BY InputsAreWritten
  <2> HIDE DEF rows
  <2>5. ASSUME NEW s \in Rows(rows, "set") PROVE SetWhole(rows, s)
    <3>1. CASE s \in committed
      <4>1. SetWhole(committed, s)
        BY <3>1 DEF AggregatesInv, Rows
      <4> QED
        BY <2>1, <4>1, WholeStays
    <3>2. CASE s \in written[w]
      <4>1. s.table = "set" /\ DeferredOK(rows, s)
        BY <2>3, <3>2 DEF Rows
      <4>2. SetIntegrity(rows, s)
        BY <4>1 DEF DeferredOK
      <4> QED
        BY <2>2, <4>2, SetAtCommit
    <3> QED
      BY <2>1, <3>1, <3>2 DEF Rows
  <2>6. ASSUME NEW b \in Rows(rows, "batch") PROVE BatchWhole(rows, b)
    <3>1. CASE b \in committed
      <4>1. BatchWhole(committed, b)
        BY <3>1 DEF AggregatesInv, Rows
      <4> QED
        BY <2>1, <4>1, WholeStays
    <3>2. CASE b \in written[w] /\ b \notin committed
      <4>1. b.table = "batch" /\ DeferredOK(rows, b)
        BY <2>3, <3>2 DEF Rows
      <4>2. InputsIntegrity(rows, b) /\ NormalizedIntegrity(rows, b)
        BY <4>1 DEF DeferredOK
      <4>3. \A r \in InputsOf(rows, b.batch) : DeferredOK(rows, r)
        BY <2>3, <2>4, <3>2
      <4> QED
        BY <2>2, <4>2, <4>3, BatchAtCommit
    <3> QED
      BY <2>1, <3>1, <3>2 DEF Rows
  <2> QED
    BY <2>1, <2>5, <2>6 DEF AggregatesInv
<1> QED
  BY <1>1, <1>2, <1>3

\* What is whole is what AggregatesComplete asks of a batch.
LEMMA WholeIsComplete ==
  ASSUME RowsInv, KeysInv, NEW b \in Rows(committed, "batch"), BatchWhole(committed, b)
  PROVE  LET inputs == [i \in 1..b.input |-> InputAt(b, i - 1).raw]
             FirstAt(i) == CHOOSE j \in 1..i : inputs[j] = inputs[i] /\ \A k \in 1..(j - 1) : inputs[k] # inputs[i]
             uniques == Sorted({i \in 1..b.input : FirstAt(i) = i})
         IN  /\ 0..(b.input - 1) \subseteq {r.ordinal : r \in InputsOf(committed, b.batch)}
             /\ \A i \in 1..b.input : InputAt(b, i - 1).first = FirstAt(i) - 1
             /\ b.unique = Len(uniques)
             /\ \A n \in 1..b.unique : \E m \in Rows(committed, "normalized"), o \in Rows(committed, "observation") :
                  /\ m.batch = b.batch /\ m.ordinal = n - 1
                  /\ o.event = m.event /\ o.raw = inputs[uniques[n]]
<1> DEFINE N == b.input
           I == InputsOf(committed, b.batch)
           raws == [i \in 1..N |-> InputAt(b, i - 1).raw]
           First(i, j) == j \in 1..i /\ raws[j] = raws[i] /\ \A k \in 1..(j - 1) : raws[k] # raws[i]
           FirstAt(i) == CHOOSE j \in 1..i : raws[j] = raws[i] /\ \A k \in 1..(j - 1) : raws[k] # raws[i]
           uniques == Sorted({i \in 1..N : FirstAt(i) = i})
<1>1. PICK inputs \in [1..N -> I] :
        /\ InputsWhole(inputs)
        /\ b.unique = Cardinality(FirstPlaces(inputs))
        /\ \A n \in 1..b.unique : Normalizes(committed, b, n, inputs[Sorted(FirstPlaces(inputs))[n]].raw)
  BY DEF BatchWhole
<1>2. N \in Nat /\ b.unique \in Nat
  <2>1. b.table = "batch" /\ Sound(b)
    BY DEF Rows, RowsInv
  <2>2. BatchRowOK(b)
    BY <2>1 DEF Sound, RowOK, Kinds
  <2>3. N \in 0..MaxLifecycleEvents /\ b.unique \in 0..MaxLifecycleEvents
    BY <2>2 DEF BatchRowOK
  <2> QED
    BY <2>3
<1>3. \A r, s \in I : r.ordinal = s.ordinal => r = s
  <2>1. \A x : x.table = "input" => <<"input", x.batch, x.ordinal>> \in Identifiers(x)
    BY DEF Identifiers, Kinds
  <2>2. \A r \in I : r \in committed /\ <<"input", b.batch, r.ordinal>> \in Identifiers(r)
    BY <2>1 DEF InputsOf, Rows
  <2> HIDE DEF I
  <2>3. ASSUME NEW r \in I, NEW s \in I, r.ordinal = s.ordinal PROVE r = s
    <3>1. <<"input", b.batch, r.ordinal>> \in (Identifiers(r) \cap Identifiers(s)) /\ r \in committed /\ s \in committed
      BY <2>2, <2>3
    <3> QED
      BY <3>1 DEF KeysInv, Distinct
  <2> QED
    BY <2>3
<1>4. \A i \in 1..N : InputAt(b, i - 1) = inputs[i] /\ inputs[i] \in I /\ inputs[i].ordinal = i - 1
  <2>1. ASSUME NEW i \in 1..N PROVE InputAt(b, i - 1) = inputs[i] /\ inputs[i] \in I /\ inputs[i].ordinal = i - 1
    <3>1. inputs[i] \in I /\ inputs[i].ordinal = i - 1
      BY <1>1 DEF InputsWhole
    <3>2. InputAt(b, i - 1) = CHOOSE r \in I : r.ordinal = i - 1
      BY DEF InputAt
    <3> HIDE DEF I
    <3> QED
      BY <1>3, <3>1, <3>2
  <2> QED
    BY <2>1
<1> HIDE DEF I
<1>5. \A i \in 1..N : raws[i] = inputs[i].raw
  BY <1>4
<1> HIDE DEF raws
<1>6. ASSUME NEW i \in 1..N PROVE FirstAt(i) = inputs[i].first + 1 /\ inputs[i].first \in 0..(i - 1)
  <2> DEFINE at == inputs[i].first + 1
  <2>1. /\ inputs[i].first \in 0..(i - 1) /\ inputs[at].raw = inputs[i].raw
        /\ \A k \in 1..inputs[i].first : inputs[k].raw # inputs[i].raw
    BY <1>1 DEF InputsWhole
  <2>2. at \in 1..i /\ 1..i \subseteq 1..N /\ at - 1 = inputs[i].first
    BY <1>2, <2>1
  <2> HIDE DEF at
  <2>3. First(i, at)
    <3>1. raws[at] = raws[i]
      BY <1>5, <2>1, <2>2
    <3>2. ASSUME NEW k \in 1..(at - 1) PROVE raws[k] # raws[i]
      <4>1. k \in 1..inputs[i].first /\ k \in 1..N
        BY <1>2, <2>2
      <4> QED
        BY <1>5, <2>1, <4>1
    <3> QED
      BY <2>2, <3>1, <3>2
  <2>4. ASSUME NEW j, First(i, j) PROVE j = at
    <3>1. j \in Nat /\ at \in Nat /\ 1 <= j /\ 1 <= at
      BY <2>2, <2>4
    <3>2. ~(at < j) /\ ~(j < at)
      BY <2>3, <2>4, <3>1
    <3> QED
      BY <3>1, <3>2
  <2>5. FirstAt(i) = CHOOSE j : First(i, j)
    OBVIOUS
  <2> HIDE DEF First, FirstAt
  <2>6. FirstAt(i) = at
    BY <2>3, <2>4, <2>5
  <2> QED
    BY <2>1, <2>6 DEF at
<1> HIDE DEF FirstAt
<1>7. {i \in 1..N : FirstAt(i) = i} = FirstPlaces(inputs)
  <2>1. DOMAIN inputs = 1..N
    BY <1>1
  <2>2. \A i \in 1..N : FirstAt(i) = i <=> inputs[i].first = i - 1
    BY <1>6
  <2> QED
    BY <2>1, <2>2 DEF FirstPlaces
<1>8. FirstPlaces(inputs) \in SUBSET Nat /\ IsFiniteSet(FirstPlaces(inputs)) /\ FirstPlaces(inputs) \subseteq 1..N
  <2>1. FirstPlaces(inputs) \in SUBSET (1..N) /\ IsFiniteSet(1..N)
    BY <1>1, <1>2, FS_Interval DEF FirstPlaces
  <2>2. IsFiniteSet(FirstPlaces(inputs))
    BY <2>1, FS_Subset
  <2>3. 1..N \subseteq Nat
    OBVIOUS
  <2> QED
    BY <2>1, <2>2, <2>3
<1>9. 0..(N - 1) \subseteq {r.ordinal : r \in I}
  <2>1. ASSUME NEW n \in 0..(N - 1) PROVE \E r \in I : r.ordinal = n
    <3>1. n + 1 \in 1..N /\ (n + 1) - 1 = n
      BY <1>2
    <3> QED
      BY <1>4, <3>1
  <2> QED
    BY <2>1
<1>10. \A i \in 1..N : InputAt(b, i - 1).first = FirstAt(i) - 1
  BY <1>4, <1>6
<1>11. b.unique = Len(uniques)
  BY <1>1, <1>2, <1>7, SortedLength
<1>12. ASSUME NEW n \in 1..b.unique
       PROVE  \E m \in Rows(committed, "normalized"), o \in Rows(committed, "observation") :
                m.batch = b.batch /\ m.ordinal = n - 1 /\ o.event = m.event /\ o.raw = raws[uniques[n]]
  <2>1. uniques[n] \in 1..N
    BY <1>1, <1>7, <1>8, SortedRank
  <2>2. Normalizes(committed, b, n, inputs[uniques[n]].raw)
    BY <1>1, <1>7
  <2> QED
    BY <1>5, <2>1, <2>2 DEF Normalizes
<1> QED
  BY <1>9, <1>10, <1>11, <1>12 DEF FirstAt, raws, I

\* A committed instrument set has its keys, and a committed batch the inputs and the
\* observations that normalization makes of them, whatever rows the same and other
\* transactions tried to add, then or since (the constraint triggers and the deferred
\* reference of migration 20260804_04).
THEOREM AggregatesCompleteHolds == LifecycleSpec => []AggregatesComplete
<1>1. LifecycleInit => AggregatesInv
  BY DEF LifecycleInit, AggregatesInv, Rows
<1>2. LifecycleSpec => []AggregatesInv
  BY <1>1, RowsHold, AggregatesStep, PTL DEF LifecycleSpec
<1>3. RowsInv /\ KeysInv /\ AggregatesInv => AggregatesComplete
  BY WholeIsComplete DEF AggregatesComplete, AggregatesInv, SetWhole
<1> QED
  BY <1>2, <1>3, RowsHold, PTL

-----------------------------------------------------------------------------
(* Batches that are stored whole                                           *)

\* Where an identity occurs first.
LEMMA FirstOccurs ==
  ASSUME NEW S, NEW events \in Seq(S), NEW i \in DOMAIN events
  PROVE  /\ FirstOccurrence(events, i) \in 0..(i - 1)
         /\ RawId(events[FirstOccurrence(events, i) + 1]) = RawId(events[i])
         /\ \A j \in DOMAIN events : RawId(events[j]) = RawId(events[i]) =>
              FirstOccurrence(events, j) = FirstOccurrence(events, i)
<1> DEFINE P(j) == /\ j \in DOMAIN events /\ RawId(events[j]) = RawId(events[i])
                   /\ \A k \in Before(events, j) : RawId(events[k]) # RawId(events[i])
           Same == {j \in DOMAIN events : RawId(events[j]) = RawId(events[i])}
           at == CHOOSE j : P(j)
<1>1. DOMAIN events \in SUBSET Nat /\ \A j \in DOMAIN events : 1 <= j
  OBVIOUS
<1>2. PICK j \in Same : \A k \in Same : j <= k
  <2>1. Same \in SUBSET Nat /\ Same # {}
    BY <1>1
  <2> HIDE DEF Same
  <2> QED
    BY <2>1, LeastNatural
<1>3. P(j)
  <2>1. ASSUME NEW k \in Before(events, j) PROVE RawId(events[k]) # RawId(events[i])
    <3>1. k \in DOMAIN events /\ k < j
      BY DEF Before
    <3>2. k \notin Same
      BY <1>1, <1>2, <3>1
    <3> QED
      BY <3>1, <3>2
  <2> QED
    BY <1>2, <2>1
<1>4. P(at)
  <2> HIDE DEF P
  <2> QED
    BY <1>3
<1>5. FirstOccurrence(events, i) = at - 1
  BY DEF FirstOccurrence
<1> HIDE DEF at
<1>6. at \in 1..i
  <2>1. i \notin Before(events, at)
    BY <1>4
  <2> QED
    BY <1>1, <1>4, <2>1 DEF Before
<1>7. ASSUME NEW l \in DOMAIN events, RawId(events[l]) = RawId(events[i])
      PROVE  FirstOccurrence(events, l) = FirstOccurrence(events, i)
  BY <1>7 DEF FirstOccurrence
<1>8. at - 1 \in 0..(i - 1) /\ (at - 1) + 1 = at
  BY <1>1, <1>6
<1> QED
  BY <1>4, <1>5, <1>7, <1>8

\* The places of the unique events, in the order of which they are taken.
FirstsOf(events) == {i \in DOMAIN events : ~IsDuplicate(events, i)}

LEMMA UniquesAreFirsts ==
  ASSUME NEW S, NEW events \in Seq(S)
  PROVE  /\ FirstsOf(events) \in SUBSET Nat /\ IsFiniteSet(FirstsOf(events))
         /\ Cardinality(FirstsOf(events)) \in 0..Len(events)
         /\ Len(UniqueEvents(events)) = Cardinality(FirstsOf(events))
         /\ DOMAIN UniqueEvents(events) = 1..Cardinality(FirstsOf(events))
         /\ \A i \in FirstsOf(events) :
              LET n == Cardinality({j \in FirstsOf(events) : j < i}) + 1
              IN  n \in 1..Cardinality(FirstsOf(events)) /\ UniqueEvents(events)[n] = events[i]
<1> DEFINE F == FirstsOf(events)
           size == Cardinality(F)
           places == Sorted(F)
<1>1. Len(events) \in Nat /\ DOMAIN events = 1..Len(events) /\ IsFiniteSet(1..Len(events)) /\ Cardinality(1..Len(events)) = Len(events)
  <2>1. Len(events) \in Nat /\ DOMAIN events = 1..Len(events)
    OBVIOUS
  <2>2. \A n \in Nat : IsFiniteSet(1..n) /\ Cardinality(1..n) = n
    BY FS_Interval
  <2> QED
    BY <2>1, <2>2
<1>2. F \in SUBSET (1..Len(events)) /\ 1..Len(events) \subseteq Nat
  BY <1>1 DEF FirstsOf
<1> HIDE DEF F
<1>3. F \in SUBSET Nat /\ IsFiniteSet(F) /\ size \in 0..Len(events)
  <2>1. IsFiniteSet(F) /\ Cardinality(F) <= Cardinality(1..Len(events))
    BY <1>1, <1>2, FS_Subset
  <2>2. Cardinality(F) \in Nat
    BY <2>1, FS_CardinalityType
  <2>3. F \in SUBSET Nat
    BY <1>2
  <2>4. size \in 0..Len(events)
    BY <1>1, <2>1, <2>2
  <2> QED
    BY <2>1, <2>3, <2>4
<1>4. UniqueEvents(events) = [n \in DOMAIN places |-> events[places[n]]]
  BY DEF UniqueEvents, F, FirstsOf
<1>5. DOMAIN places = 1..size
  BY DEF Sorted
<1> HIDE DEF places, size
<1>6. UniqueEvents(events) = [n \in 1..size |-> events[places[n]]]
  BY <1>4, <1>5
<1>7. DOMAIN UniqueEvents(events) = 1..size /\ Len(UniqueEvents(events)) = size
  BY <1>3, <1>6
<1>8. ASSUME NEW i \in F, NEW n, n = Cardinality({j \in F : j < i}) + 1
      PROVE  n \in 1..size /\ UniqueEvents(events)[n] = events[i]
  <2>1. n \in 1..size /\ places[n] = i
    BY <1>3, <1>8, RankSorted DEF places, size
  <2> QED
    BY <1>6, <2>1
<1> QED
  BY <1>3, <1>7, <1>8 DEF F, size

LEMMA BatchEvents ==
  ASSUME NEW b \in Batches
  PROVE  LET events == BatchOf[b]
         IN  /\ events \in Seq(ToSet(events)) /\ Len(events) \in Nat /\ DOMAIN events = 1..Len(events)
             /\ \A i \in DOMAIN events : events[i] \in ToSet(events)
             /\ \A e \in ToSet(events) : e.kind = BatchKind[b] /\ e.kind \in Kinds
<1> DEFINE events == BatchOf[b]
<1>1. events \in Seq(ToSet(events)) /\ \A e \in ToSet(events) : e.kind = BatchKind[b]
  BY LifecycleAssumption
<1>2. BatchKind[b] \in Kinds
  BY LifecycleAssumption
<1>3. Len(events) \in Nat /\ DOMAIN events = 1..Len(events) /\ \A i \in DOMAIN events : events[i] \in ToSet(events)
  BY <1>1 DEF ToSet
<1> QED
  BY <1>1, <1>2, <1>3

\* The inputs of a batch pass the trigger that counts them.
LEMMA InputsPass ==
  ASSUME NEW b \in Batches, NEW rows,
         InputsOf(rows, b) = {InputRow(b, i) : i \in DOMAIN BatchOf[b]}
  PROVE  /\ InputsIntegrity(rows, BatchRow(b))
         /\ \A r \in InputsOf(rows, b) : <<"input", b, r.raw, r.first>> \in IdentifiersOf(rows)
<1> DEFINE events == BatchOf[b]
           L == Len(events)
           U == Len(UniqueEvents(events))
           I == InputsOf(rows, b)
           F == FirstsOf(events)
           duplicates == {r \in I : r.duplicate}
           firsts == I \ duplicates
           raws == {r.raw : r \in I}
           First(i) == FirstOccurrence(events, i)
<1>1. /\ events \in Seq(ToSet(events)) /\ L \in Nat /\ DOMAIN events = 1..L
      /\ BatchRow(b).batch = b /\ BatchRow(b).input = L /\ BatchRow(b).unique = U
      /\ BatchRow(b).duplicate = L - U
  <2>1. events \in Seq(ToSet(events)) /\ L \in Nat /\ DOMAIN events = 1..L
    BY BatchEvents
  <2>2. /\ BatchRow(b).batch = b /\ BatchRow(b).input = L /\ BatchRow(b).unique = U
        /\ BatchRow(b).duplicate = L - U
    BY DEF BatchRow
  <2> QED
    BY <2>1, <2>2
<1>2. \A i \in 1..L : /\ InputRow(b, i).ordinal = i - 1 /\ InputRow(b, i).raw = RawId(events[i])
                      /\ InputRow(b, i).first = First(i) /\ InputRow(b, i).duplicate = (First(i) < i - 1)
                      /\ InputRow(b, i) \in I
  <2>1. \A i : /\ InputRow(b, i).ordinal = i - 1 /\ InputRow(b, i).raw = RawId(events[i])
               /\ InputRow(b, i).first = FirstOccurrence(events, i)
               /\ InputRow(b, i).duplicate = IsDuplicate(events, i)
    BY DEF InputRow
  <2>2. \A i : IsDuplicate(events, i) = (First(i) < i - 1)
    BY DEF IsDuplicate
  <2>3. \A i \in 1..L : InputRow(b, i) \in I
    BY <1>1
  <2> QED
    BY <2>1, <2>2, <2>3
<1>3. \A r \in I : \E i \in 1..L : r = InputRow(b, i)
  BY <1>1
<1>4. \A i \in 1..L : /\ First(i) \in 0..(i - 1) /\ RawId(events[First(i) + 1]) = RawId(events[i])
                      /\ \A j \in 1..L : RawId(events[j]) = RawId(events[i]) => First(j) = First(i)
  BY <1>1, FirstOccurs
<1>5. /\ F \in SUBSET (1..L) /\ IsFiniteSet(F) /\ Cardinality(F) = U /\ U \in 0..L
      /\ \A i \in 1..L : i \in F <=> ~(First(i) < i - 1)
  <2>1. F = {i \in 1..L : ~(First(i) < i - 1)}
    BY <1>1 DEF FirstsOf, IsDuplicate
  <2>2. IsFiniteSet(F) /\ Cardinality(F) = U /\ U \in 0..L
    BY <1>1, UniquesAreFirsts
  <2> QED
    BY <2>1, <2>2
<1>6. IsFiniteSet(1..L) /\ Cardinality(1..L) = L
  <2>1. \A n \in Nat : IsFiniteSet(1..n) /\ Cardinality(1..n) = n
    BY FS_Interval
  <2> QED
    BY <1>1, <2>1
<1> HIDE DEF I, F, First, events, L, U
<1>7. \A r \in I : r.ordinal \in Nat /\ r.ordinal + 1 \in 1..L /\ InputRow(b, r.ordinal + 1) = r
  <2>1. ASSUME NEW r \in I PROVE r.ordinal \in Nat /\ r.ordinal + 1 \in 1..L /\ InputRow(b, r.ordinal + 1) = r
    <3>1. PICK i \in 1..L : r = InputRow(b, i)
      BY <1>3
    <3>2. r.ordinal = i - 1 /\ (i - 1) + 1 = i /\ i - 1 \in Nat
      BY <1>1, <1>2, <3>1
    <3> QED
      BY <3>1, <3>2
  <2> QED
    BY <2>1
<1>8. \A r, s \in I : r.ordinal = s.ordinal => r = s
  BY <1>7
<1>9. IsFiniteSet(I) /\ Cardinality(I) = L
  <2> DEFINE f == [i \in 1..L |-> InputRow(b, i)]
  <2>1. f \in Surjection(1..L, I)
    <3>1. f \in [1..L -> I] /\ \A r \in I : \E i \in 1..L : f[i] = r
      BY <1>2, <1>3
    <3> QED
      BY <3>1 DEF Surjection
  <2>2. IsFiniteSet(I)
    <3> HIDE DEF f
    <3> QED
      BY <1>6, <2>1, FS_Surjection
  <2>3. {r.ordinal + 1 : r \in I} = 1..L
    <3>1. \A i \in 1..L : \E r \in I : r.ordinal + 1 = i
      <4>1. \A i \in 1..L : (i - 1) + 1 = i
        BY <1>1
      <4> QED
        BY <1>2, <4>1
    <3> QED
      BY <1>7, <3>1
  <2>4. Cardinality({r.ordinal + 1 : r \in I}) = Cardinality(I)
    BY <1>7, <1>8, <2>2, OrdinalsCount
  <2> QED
    BY <1>6, <2>2, <2>3, <2>4
<1>10. {r.ordinal : r \in I} = 0..(L - 1)
  <2>1. \A r \in I : r.ordinal \in 0..(L - 1)
    BY <1>1, <1>7
  <2>2. \A n \in 0..(L - 1) : \E r \in I : r.ordinal = n
    <3>1. \A n \in 0..(L - 1) : n + 1 \in 1..L /\ (n + 1) - 1 = n
      BY <1>1
    <3> QED
      BY <1>2, <3>1
  <2> QED
    BY <2>1, <2>2
<1>11. \A i \in 1..L : i \in F <=> InputRow(b, i) \in firsts
  BY <1>2, <1>5
<1>12. IsFiniteSet(firsts) /\ IsFiniteSet(duplicates)
  <2>1. firsts \in SUBSET I /\ duplicates \in SUBSET I
    OBVIOUS
  <2> HIDE DEF firsts, duplicates
  <2> QED
    BY <1>9, <2>1, FS_Subset
<1>13. Cardinality(firsts) = U
  <2>1. {r.ordinal + 1 : r \in firsts} = F
    <3>1. \A r \in firsts : r.ordinal + 1 \in F
      BY <1>7, <1>11
    <3>2. \A i \in F : \E r \in firsts : r.ordinal + 1 = i
      <4>1. \A i \in F : (i - 1) + 1 = i
        BY <1>1, <1>5
      <4> HIDE DEF firsts
      <4> QED
        BY <1>2, <1>5, <1>11, <4>1
    <3> HIDE DEF firsts
    <3> QED
      BY <3>1, <3>2
  <2>2. \A r \in firsts : r.ordinal \in Nat
    BY <1>7
  <2>3. \A r, s \in firsts : r.ordinal = s.ordinal => r = s
    BY <1>8
  <2> HIDE DEF firsts
  <2>4. Cardinality({r.ordinal + 1 : r \in firsts}) = Cardinality(firsts)
    BY <1>12, <2>2, <2>3, OrdinalsCount
  <2> QED
    BY <1>5, <2>1, <2>4
<1>14. Cardinality(duplicates) = L - U
  <2>1. firsts \cup duplicates = I /\ firsts \cap duplicates = {}
    OBVIOUS
  <2> HIDE DEF firsts, duplicates
  <2>2. Cardinality(I) = Cardinality(firsts) + Cardinality(duplicates) - Cardinality({})
    BY <1>12, <2>1, FS_Union
  <2>3. Cardinality({}) = 0 /\ Cardinality(duplicates) \in Nat
    BY <1>12, FS_EmptySet, FS_CardinalityType
  <2>4. U \in Nat
    BY <1>1, <1>5
  <2>5. \A d \in Nat : L = U + d - 0 => d = L - U
    BY <1>1, <2>4
  <2> QED
    BY <1>9, <1>13, <2>2, <2>3, <2>5
\* An event has one first input.
<1>15. Cardinality(raws) = U
  <2> DEFINE raw == [r \in firsts |-> r.raw]
  <2>1. ASSUME NEW r \in firsts, NEW s \in firsts, r.raw = s.raw PROVE r = s
    <3>1. PICK i \in 1..L : r = InputRow(b, i)
      BY <1>3
    <3>2. PICK j \in 1..L : s = InputRow(b, j)
      BY <1>3
    <3>3. First(i) = First(j)
      BY <1>2, <1>4, <2>1, <3>1, <3>2
    <3>4. ~(First(i) < i - 1) /\ ~(First(j) < j - 1)
      BY <1>5, <1>11, <3>1, <3>2
    <3>5. i = j
      BY <1>1, <1>4, <3>3, <3>4
    <3> QED
      BY <3>1, <3>2, <3>5
  <2>2. \A x \in raws : \E f \in firsts : f.raw = x
    <3>1. ASSUME NEW i \in 1..L PROVE \E f \in firsts : f.raw = InputRow(b, i).raw
      <4> DEFINE j == First(i) + 1
      <4>1. j \in 1..L /\ RawId(events[j]) = RawId(events[i]) /\ j - 1 = First(i) /\ First(i) \in Nat
        BY <1>1, <1>4
      <4>2. First(j) = First(i)
        BY <1>4, <4>1
      <4>3. ~(First(j) < j - 1)
        BY <4>1, <4>2
      <4> HIDE DEF j
      <4>4. InputRow(b, j) \in firsts /\ InputRow(b, j).raw = InputRow(b, i).raw
        BY <1>2, <1>5, <1>11, <4>1, <4>3
      <4> QED
        BY <4>4
    <3> QED
      BY <1>3, <3>1
  <2>3. raw \in Bijection(firsts, raws)
    <3>1. raw \in [firsts -> raws] /\ \A x \in raws : \E f \in firsts : raw[f] = x
      BY <2>2
    <3>2. \A r, s \in firsts : raw[r] = raw[s] => r = s
      BY <2>1
    <3> QED
      BY <3>1, <3>2 DEF Bijection, Injection, Surjection, IsInjective
  <2>4. ExistsBijection(firsts, raws)
    BY <2>3 DEF ExistsBijection
  <2> HIDE DEF firsts, raws
  <2> QED
    BY <1>12, <1>13, <2>4, FS_Bijection
<1>16. ASSUME NEW r \in I, NEW f \in I, f.raw = r.raw, f.ordinal = r.first
       PROVE  ~f.duplicate /\ f.first = f.ordinal
  <2>1. PICK i \in 1..L : r = InputRow(b, i)
    BY <1>3
  <2>2. PICK j \in 1..L : f = InputRow(b, j)
    BY <1>3
  <2>3. First(j) = First(i) /\ j - 1 = First(i)
    BY <1>2, <1>4, <1>16, <2>1, <2>2
  <2>4. ~(First(j) < j - 1)
    BY <1>4, <2>3
  <2> QED
    BY <1>2, <2>2, <2>3, <2>4
<1>17. ASSUME NEW r \in I PROVE <<"input", b, r.raw, r.first>> \in IdentifiersOf(rows)
  <2>1. PICK i \in 1..L : r = InputRow(b, i)
    BY <1>3
  <2> DEFINE j == First(i) + 1
  <2>2. j \in 1..L /\ RawId(events[j]) = RawId(events[i]) /\ j - 1 = First(i)
    BY <1>1, <1>4
  <2> HIDE DEF j
  <2> DEFINE f == InputRow(b, j)
  <2>3. f \in I /\ f.raw = r.raw /\ f.ordinal = r.first
    BY <1>2, <2>1, <2>2
  <2> HIDE DEF f
  <2>4. f \in rows /\ f.table = "input" /\ f.batch = b
    BY <2>3 DEF I, InputsOf, Rows
  <2>5. <<"input", f.batch, f.raw, f.ordinal>> \in Identifiers(f)
    BY <2>4 DEF Identifiers, Kinds
  <2> QED
    BY <2>3, <2>4, <2>5 DEF IdentifiersOf
<1>18. InputsIntegrity(rows, BatchRow(b))
  <2>1. InputsOf(rows, BatchRow(b).batch) = I
    BY <1>1 DEF I
  <2> QED
    BY <1>1, <1>9, <1>10, <1>13, <1>14, <1>15, <1>16, <2>1 DEF InputsIntegrity, L, U
<1> QED
  BY <1>17, <1>18 DEF I

\* The observations of a batch pass the trigger that orders them.
LEMMA NormalizedPass ==
  ASSUME NEW b \in Batches, NEW rows,
         InputsOf(rows, b) = {InputRow(b, i) : i \in DOMAIN BatchOf[b]},
         {m \in Rows(rows, "normalized") : m.batch = b} =
           {NormalizedRow(b, n) : n \in DOMAIN UniqueEvents(BatchOf[b])},
         \A e \in ToSet(BatchOf[b]) : ObservationRowOf(e) \in rows
  PROVE  NormalizedIntegrity(rows, BatchRow(b))
<1> DEFINE events == BatchOf[b]
           L == Len(events)
           U == Len(UniqueEvents(events))
           F == FirstsOf(events)
           firsts == {r \in InputsOf(rows, b) : ~r.duplicate}
           members == {m \in Rows(rows, "normalized") : m.batch = b}
           place(i) == Cardinality({j \in F : j < i}) + 1
<1>1. /\ events \in Seq(ToSet(events)) /\ L \in Nat /\ DOMAIN events = 1..L
      /\ \A i \in 1..L : events[i] \in ToSet(events) /\ events[i].kind = BatchKind[b]
  BY BatchEvents
<1>2. BatchRow(b).batch = b /\ BatchRow(b).normalized = U
  BY DEF BatchRow
<1>3. /\ F \in SUBSET Nat /\ IsFiniteSet(F) /\ Cardinality(F) = U /\ U \in Nat /\ U \in 0..L
      /\ DOMAIN UniqueEvents(events) = 1..U
  BY <1>1, UniquesAreFirsts
<1>4. \A i \in F : place(i) \in 1..U /\ UniqueEvents(events)[place(i)] = events[i]
  BY <1>1, <1>3, UniquesAreFirsts
<1>5. \A n : /\ NormalizedRow(b, n).ordinal = n - 1 /\ NormalizedRow(b, n).kind = BatchKind[b]
             /\ NormalizedRow(b, n).event = Observation(UniqueEvents(events)[n]).event
  BY DEF NormalizedRow
<1>6. members = {NormalizedRow(b, n) : n \in 1..U}
  BY <1>3
<1>7. \A i : /\ InputRow(b, i).ordinal = i - 1 /\ InputRow(b, i).raw = RawId(events[i])
             /\ InputRow(b, i).duplicate = IsDuplicate(events, i)
  BY DEF InputRow
<1>8. firsts = {InputRow(b, i) : i \in F}
  <2>1. F = {i \in DOMAIN events : ~IsDuplicate(events, i)}
    BY DEF FirstsOf
  <2> HIDE DEF F
  <2> QED
    BY <1>7, <2>1
<1>9. F \subseteq 1..L
  BY <1>1 DEF FirstsOf
<1> HIDE DEF members, firsts, F, L, U, events
<1>10. Cardinality(members) = U
  <2> DEFINE f == [n \in 1..U |-> NormalizedRow(b, n)]
  <2>1. ASSUME NEW n \in 1..U, NEW k \in 1..U, f[n] = f[k] PROVE n = k
    <3>1. NormalizedRow(b, n).ordinal = NormalizedRow(b, k).ordinal
      BY <2>1
    <3>2. n - 1 = k - 1
      BY <1>5, <3>1
    <3> QED
      BY <1>3, <3>2
  <2>2. f \in [1..U -> members] /\ \A m \in members : \E n \in 1..U : f[n] = m
    BY <1>6
  <2> HIDE DEF f
  <2>3. f \in Bijection(1..U, members)
    BY <2>1, <2>2 DEF Bijection, Injection, Surjection, IsInjective
  <2>4. ExistsBijection(1..U, members)
    BY <2>3 DEF ExistsBijection
  <2>5. IsFiniteSet(1..U) /\ Cardinality(1..U) = U
    <3>1. \A n \in Nat : IsFiniteSet(1..n) /\ Cardinality(1..n) = n
      BY FS_Interval
    <3> QED
      BY <1>3, <3>1
  <2> QED
    BY <2>4, <2>5, FS_Bijection
<1>11. {m.ordinal : m \in members} = 0..(U - 1)
  <2>1. ASSUME NEW m \in members PROVE m.ordinal \in 0..(U - 1)
    <3>1. PICK n \in 1..U : m = NormalizedRow(b, n)
      BY <1>6
    <3>2. m.ordinal = n - 1
      BY <1>5, <3>1
    <3> QED
      BY <1>3, <3>2
  <2>2. ASSUME NEW k \in 0..(U - 1) PROVE \E m \in members : m.ordinal = k
    <3>1. k + 1 \in 1..U /\ (k + 1) - 1 = k
      BY <1>3
    <3>2. NormalizedRow(b, k + 1) \in members
      BY <1>6, <3>1
    <3> QED
      BY <1>5, <3>1, <3>2
  <2> QED
    BY <2>1, <2>2
<1>12. ASSUME NEW f \in firsts
       PROVE  \E m \in members, o \in Rows(rows, "observation") :
                /\ m.ordinal = Cardinality({g \in firsts : g.ordinal < f.ordinal})
                /\ o.event = m.event /\ o.kind = m.kind /\ o.raw = f.raw
  <2>1. PICK i \in F : f = InputRow(b, i)
    BY <1>8
  <2>2. i \in 1..L /\ f.ordinal = i - 1 /\ f.raw = RawId(events[i])
    BY <1>7, <1>9, <2>1
  <2> DEFINE A == {g \in firsts : g.ordinal < f.ordinal}
             m == NormalizedRow(b, place(i))
             o == ObservationRowOf(events[i])
  <2>3. Cardinality(A) = Cardinality({j \in F : j < i})
    <3>1. \A j \in F : j \in Nat /\ InputRow(b, j).ordinal + 1 = j /\ (InputRow(b, j).ordinal < f.ordinal <=> j < i)
      <4>1. \A j \in Nat : (j - 1) + 1 = j /\ (j - 1 < i - 1 <=> j < i)
        BY <1>1, <2>2
      <4> QED
        BY <1>3, <1>7, <2>2, <4>1
    <3>2. {r.ordinal + 1 : r \in A} = {j \in F : j < i}
      BY <1>8, <3>1
    <3>3. \A r \in firsts : \E j \in F : r = InputRow(b, j) /\ r.ordinal = j - 1 /\ r.ordinal \in Nat
      <4>1. \A j \in F : j - 1 \in Nat
        BY <1>1, <1>9
      <4> QED
        BY <1>7, <1>8, <4>1
    <3>4. (\A r \in A : r.ordinal \in Nat) /\ \A r, s \in A : r.ordinal = s.ordinal => r = s
      <4>1. \A r \in A : r \in firsts
        OBVIOUS
      <4>2. \A j, k \in Nat : j - 1 = k - 1 => j = k
        OBVIOUS
      <4> HIDE DEF A
      <4> QED
        BY <3>1, <3>3, <4>1, <4>2
    <3>5. IsFiniteSet(A)
      <4> DEFINE at == [j \in F |-> InputRow(b, j)]
      <4>1. at \in Surjection(F, firsts)
        BY <1>8 DEF Surjection
      <4>2. IsFiniteSet(firsts)
        <5> HIDE DEF at
        <5> QED
          BY <1>3, <4>1, FS_Surjection
      <4>3. A \in SUBSET firsts
        OBVIOUS
      <4> HIDE DEF A
      <4> QED
        BY <4>2, <4>3, FS_Subset
    <3> HIDE DEF A
    <3> QED
      BY <3>2, <3>4, <3>5, OrdinalsCount
  <2>4. place(i) \in 1..U /\ UniqueEvents(events)[place(i)] = events[i] /\ place(i) - 1 = Cardinality({j \in F : j < i})
    <3>1. place(i) \in 1..U /\ UniqueEvents(events)[place(i)] = events[i]
      BY <1>4
    <3>2. {j \in F : j < i} \in SUBSET F
      OBVIOUS
    <3>3. Cardinality({j \in F : j < i}) \in Nat
      BY <1>3, <3>2, FS_Subset, FS_CardinalityType
    <3> QED
      BY <3>1, <3>3
  <2>5. m \in members /\ m.ordinal = Cardinality(A) /\ m.kind = BatchKind[b] /\ m.event = Observation(events[i]).event
    <3>1. m \in members
      BY <1>6, <2>4
    <3>2. m.ordinal = place(i) - 1 /\ m.kind = BatchKind[b] /\ m.event = Observation(UniqueEvents(events)[place(i)]).event
      BY <1>5
    <3> HIDE DEF m, A, place
    <3> QED
      BY <2>3, <2>4, <3>1, <3>2
  <2>6. /\ o \in Rows(rows, "observation") /\ o.event = Observation(events[i]).event
        /\ o.kind = BatchKind[b] /\ o.raw = RawId(events[i])
    <3>1. o \in rows /\ events[i].kind = BatchKind[b]
      <4>1. events[i] \in ToSet(events) /\ events[i].kind = BatchKind[b]
        BY <1>1, <2>2
      <4> QED
        BY <4>1 DEF events
    <3>2. /\ o.table = "observation" /\ o.event = Observation(events[i]).event
          /\ o.kind = events[i].kind /\ o.raw = RawId(events[i])
      BY DEF ObservationRowOf, Observation
    <3> HIDE DEF o
    <3> QED
      BY <3>1, <3>2 DEF Rows
  <2> HIDE DEF m, o
  <2> QED
    BY <2>2, <2>5, <2>6
<1> QED
  <2>1. \A f \in firsts : \E m \in members, o \in Rows(rows, "observation") :
          /\ m.ordinal = Cardinality({g \in firsts : g.ordinal < f.ordinal})
          /\ o.event = m.event /\ o.kind = m.kind /\ o.raw = f.raw
    BY <1>12
  <2>2. /\ {r \in Rows(rows, "normalized") : r.batch = BatchRow(b).batch} = members
        /\ {r \in InputsOf(rows, BatchRow(b).batch) : ~r.duplicate} = firsts
    BY <1>2 DEF members, firsts
  <2> QED
    BY <1>2, <1>10, <1>11, <2>1, <2>2 DEF NormalizedIntegrity

\* The keys of a digest pass the trigger of its set.
LEMMA KeysPass ==
  ASSUME NEW rows, NEW d, IsDigest(d),
         {k \in Rows(rows, "key") : k.digest = d} = {KeyRow(d, i) : i \in DOMAIN d}
  PROVE  SetIntegrity(rows, SetRow(d))
<1> DEFINE n == Len(d)
           keys == {k \in Rows(rows, "key") : k.digest = d}
           at == [i \in 1..n |-> KeyRow(d, i)]
<1>1. n \in Nat /\ DOMAIN d = 1..n /\ (\A i \in 1..n : d[i] \in Nat) /\ \A i, j \in 1..n : i < j => d[i] < d[j]
  BY DEF IsDigest
<1>2. SetRow(d).digest = d /\ SetRow(d).count = n /\ SetRow(d).payload = d
  BY DEF SetRow
<1>3. \A i : KeyRow(d, i).ordinal = i - 1 /\ KeyRow(d, i).key = d[i]
  BY DEF KeyRow
<1>4. keys = {KeyRow(d, i) : i \in 1..n}
  BY <1>1
<1> HIDE DEF keys, n
<1>5. \A k \in keys : \E i \in 1..n : k = KeyRow(d, i) /\ k.ordinal = i - 1 /\ k.ordinal + 1 = i /\ k.key = d[i]
  <2>1. \A i \in 1..n : (i - 1) + 1 = i
    BY <1>1
  <2> QED
    BY <1>3, <1>4, <2>1
<1>6. Cardinality(keys) = n
  <2>1. ASSUME NEW i \in 1..n, NEW j \in 1..n, at[i] = at[j] PROVE i = j
    <3>1. KeyRow(d, i).ordinal = KeyRow(d, j).ordinal
      BY <2>1
    <3>2. i - 1 = j - 1
      BY <1>3, <3>1
    <3> QED
      BY <1>1, <3>2
  <2>2. at \in [1..n -> keys] /\ \A k \in keys : \E i \in 1..n : at[i] = k
    BY <1>4
  <2> HIDE DEF at
  <2>3. at \in Bijection(1..n, keys)
    BY <2>1, <2>2 DEF Bijection, Injection, Surjection, IsInjective
  <2>4. ExistsBijection(1..n, keys)
    BY <2>3 DEF ExistsBijection
  <2>5. \A m \in Nat : IsFiniteSet(1..m) /\ Cardinality(1..m) = m
    BY FS_Interval
  <2> QED
    BY <1>1, <2>4, <2>5, FS_Bijection
<1>7. {k.ordinal : k \in keys} = 0..(n - 1)
  <2>1. ASSUME NEW k \in keys PROVE k.ordinal \in 0..(n - 1)
    <3>1. PICK i \in 1..n : k.ordinal = i - 1
      BY <1>5
    <3> QED
      BY <1>1, <3>1
  <2>2. ASSUME NEW m \in 0..(n - 1) PROVE \E k \in keys : k.ordinal = m
    <3>1. m + 1 \in 1..n /\ (m + 1) - 1 = m
      BY <1>1
    <3>2. KeyRow(d, m + 1) \in keys
      BY <1>4, <3>1
    <3> QED
      BY <1>3, <3>1, <3>2
  <2> QED
    BY <2>1, <2>2
<1>8. ASSUME NEW k \in keys, NEW l \in keys, k.ordinal < l.ordinal PROVE k.key < l.key
  <2>1. PICK i \in 1..n : k.ordinal = i - 1 /\ k.key = d[i]
    BY <1>5
  <2>2. PICK j \in 1..n : l.ordinal = j - 1 /\ l.key = d[j]
    BY <1>5
  <2>3. i < j
    BY <1>1, <1>8, <2>1, <2>2
  <2> QED
    BY <1>1, <2>1, <2>2, <2>3
<1>9. \A k \in keys : d[k.ordinal + 1] = k.key
  BY <1>5
<1>10. {k \in Rows(rows, "key") : k.digest = SetRow(d).digest} = keys
  BY <1>2 DEF keys
<1> QED
  BY <1>2, <1>6, <1>7, <1>8, <1>9, <1>10 DEF SetIntegrity

\* An observation that is stored with its typed row passes the subtype trigger.
LEMMA SubtypePass ==
  ASSUME NEW rows, Distinct(rows), Referring(rows), \A r \in rows : Sound(r),
         NEW e, e.kind \in Kinds, ObservationRowOf(e) \in rows, TypedRow(e) \in rows
  PROVE  SubtypeIntegrity(rows, ObservationRowOf(e))
<1> DEFINE o == ObservationRowOf(e)
           typed == TypedRow(e)
<1>1. /\ o.table = "observation" /\ o.kind = e.kind /\ o.event = Observation(e).event
      /\ typed.table = e.kind /\ typed.event = Observation(e).event
  BY DEF ObservationRowOf, TypedRow, Observation
<1> HIDE DEF o, typed
<1>2. OnlyTyped({o, typed}, o)
  <2>1. typed \in Rows({o, typed}, o.kind) /\ typed.event = o.event
    BY <1>1 DEF Rows
  <2>2. \A x \in {o, typed} : x.table \in Kinds /\ x.event = o.event => x = typed
    BY <1>1 DEF Kinds
  <2> QED
    BY <2>1, <2>2 DEF OnlyTyped
<1>3. OnlyTyped(rows, o)
  <2>1. {o, typed} \subseteq rows /\ o \in Rows({o, typed}, "observation")
    BY <1>1 DEF o, typed, Rows
  <2> QED
    BY <1>2, <2>1, TypedAfterCommit
<1>4. PICK t \in Rows(rows, o.kind) : t.event = o.event /\ \A x \in rows : x.table \in Kinds /\ x.event = o.event => x = t
  BY <1>3 DEF OnlyTyped
<1>5. ASSUME NEW kind \in Kinds
      PROVE  Cardinality({x \in Rows(rows, kind) : x.event = o.event}) = IF kind = o.kind THEN 1 ELSE 0
  <2>1. t.table = o.kind
    BY DEF Rows
  <2>2. CASE kind = o.kind
    <3>1. {x \in Rows(rows, kind) : x.event = o.event} = {t}
      BY <1>4, <2>2 DEF Rows
    <3> QED
      BY <2>2, <3>1, FS_Singleton
  <2>3. CASE kind # o.kind
    <3>1. {x \in Rows(rows, kind) : x.event = o.event} = {}
      BY <1>4, <2>1, <2>3 DEF Rows
    <3> QED
      BY <2>3, <3>1, FS_EmptySet
  <2> QED
    BY <2>2, <2>3
<1> QED
  BY <1>5 DEF SubtypeIntegrity, o

\* The rows of a batch by their tables.
DigestsOf(b) == {e.keys.digest : e \in {x \in ToSet(BatchOf[b]) : x.kind = "subscription"}}

LEMMA BatchRows ==
  ASSUME NEW b, NEW r
  PROVE  r \in RowsOfBatch(b) <=>
           \/ \E d \in DigestsOf(b) : r = SetRow(d)
           \/ \E d \in DigestsOf(b) : \E i \in DOMAIN d : r = KeyRow(d, i)
           \/ r = BatchRow(b)
           \/ \E e \in ToSet(BatchOf[b]) : r \in {RawRow(e), ObservationRowOf(e), TypedRow(e)}
           \/ \E i \in DOMAIN BatchOf[b] : r = InputRow(b, i)
           \/ \E n \in DOMAIN UniqueEvents(BatchOf[b]) : r = NormalizedRow(b, n)
<1> DEFINE D == DigestsOf(b)
           E == ToSet(BatchOf[b])
           Keys == UNION {{KeyRow(d, i) : i \in DOMAIN d} : d \in D}
           Events == UNION {{RawRow(e), ObservationRowOf(e), TypedRow(e)} : e \in E}
           Inputs == {InputRow(b, i) : i \in DOMAIN BatchOf[b]}
           Members == {NormalizedRow(b, n) : n \in DOMAIN UniqueEvents(BatchOf[b])}
<1>1. RowsOfBatch(b) = {SetRow(d) : d \in D} \cup Keys \cup {BatchRow(b)} \cup Events \cup Inputs \cup Members
  BY DEF RowsOfBatch, DigestsOf
<1> HIDE DEF D, E
<1>2. r \in Keys <=> \E d \in D : \E i \in DOMAIN d : r = KeyRow(d, i)
  OBVIOUS
<1>3. r \in Events <=> \E e \in E : r \in {RawRow(e), ObservationRowOf(e), TypedRow(e)}
  OBVIOUS
<1>4. /\ r \in Inputs <=> \E i \in DOMAIN BatchOf[b] : r = InputRow(b, i)
      /\ r \in Members <=> \E n \in DOMAIN UniqueEvents(BatchOf[b]) : r = NormalizedRow(b, n)
  OBVIOUS
<1>5. r \in {SetRow(d) : d \in D} <=> \E d \in D : r = SetRow(d)
  OBVIOUS
<1> HIDE DEF Keys, Events, Inputs, Members
<1> QED
  BY <1>1, <1>2, <1>3, <1>4, <1>5 DEF D, E

LEMMA RowsByTable ==
  ASSUME NEW b \in Batches, NEW r \in RowsOfBatch(b)
  PROVE  /\ r.table = "set" => \E d \in DigestsOf(b) : r = SetRow(d)
         /\ r.table = "key" => \E d \in DigestsOf(b) : \E i \in DOMAIN d : r = KeyRow(d, i)
         /\ r.table = "batch" => r = BatchRow(b)
         /\ r.table = "input" => \E i \in DOMAIN BatchOf[b] : r = InputRow(b, i)
         /\ r.table = "observation" => \E e \in ToSet(BatchOf[b]) : r = ObservationRowOf(e)
         /\ r.table = "normalized" => \E n \in DOMAIN UniqueEvents(BatchOf[b]) : r = NormalizedRow(b, n)
<1>1. /\ \A d : SetRow(d).table = "set" /\ \A i : KeyRow(d, i).table = "key"
      /\ BatchRow(b).table = "batch"
      /\ \A i : InputRow(b, i).table = "input" /\ NormalizedRow(b, i).table = "normalized"
  BY DEF SetRow, KeyRow, BatchRow, InputRow, NormalizedRow
<1>2. \A e \in ToSet(BatchOf[b]) : /\ RawRow(e).table = "raw" /\ ObservationRowOf(e).table = "observation"
                                   /\ TypedRow(e).table \in Kinds
  BY BatchEvents DEF RawRow, ObservationRowOf, TypedRow
<1>3. \/ \E d \in DigestsOf(b) : r = SetRow(d)
      \/ \E d \in DigestsOf(b) : \E i \in DOMAIN d : r = KeyRow(d, i)
      \/ r = BatchRow(b)
      \/ \E e \in ToSet(BatchOf[b]) : r \in {RawRow(e), ObservationRowOf(e), TypedRow(e)}
      \/ \E i \in DOMAIN BatchOf[b] : r = InputRow(b, i)
      \/ \E n \in DOMAIN UniqueEvents(BatchOf[b]) : r = NormalizedRow(b, n)
  BY BatchRows
<1>4. CASE \E e \in ToSet(BatchOf[b]) : r \in {RawRow(e), ObservationRowOf(e), TypedRow(e)}
  BY <1>2, <1>4 DEF Kinds
<1> QED
  BY <1>1, <1>3, <1>4

\* Rows that refer to what the transaction wrote are its own.
LEMMA ReferringAreWritten ==
  ASSUME RowsInv, KeysInv, ReferencesInv, NEW w \in Writers, NEW p \in written[w], NEW id \in Identifiers(p),
         NEW r \in VisibleTo(w), NEW reference \in References(r),
         \A c \in committed : reference \in Identifiers(c) => id \in Identifiers(c)
  PROVE  r \in written[w]
<1> SUFFICES ASSUME r \in committed PROVE FALSE
  BY DEF VisibleTo
<1>1. PICK c \in committed : reference \in Identifiers(c)
  BY DEF ReferencesInv, Referring, IdentifiersOf
<1>2. id \in (Identifiers(p) \cap Identifiers(c))
  BY <1>1
<1> QED
  BY <1>2 DEF KeysInv

\* The members of a batch that its transaction writes whole are those of the batch.
LEMMA MembersAreOfBatch ==
  ASSUME RowsInv, KeysInv, ReferencesInv, NEW w \in Writers, NEW b \in Batches,
         BatchRow(b) \in written[w], written[w] \subseteq RowsOfBatch(b), RowsOfBatch(b) \subseteq VisibleTo(w)
  PROVE  /\ InputsOf(VisibleTo(w), b) = {InputRow(b, i) : i \in DOMAIN BatchOf[b]}
         /\ {m \in Rows(VisibleTo(w), "normalized") : m.batch = b} =
              {NormalizedRow(b, n) : n \in DOMAIN UniqueEvents(BatchOf[b])}
<1> DEFINE V == VisibleTo(w)
<1>1. <<"batch", b>> \in Identifiers(BatchRow(b))
  <2>1. BatchRow(b).table = "batch" /\ BatchRow(b).batch = b
    BY DEF BatchRow
  <2> QED
    BY <2>1 DEF Identifiers, Kinds
<1>2. ASSUME NEW c \in committed, NEW k, <<"batch", b, k>> \in Identifiers(c) PROVE <<"batch", b>> \in Identifiers(c)
  <2>1. c.table = "batch" /\ c.batch = b
    BY <1>2, IdentifiedBatch DEF RowsInv, Sound
  <2> QED
    BY <2>1 DEF Identifiers, Kinds
<1>3. ASSUME NEW r \in V, r.table \in {"input", "normalized"}, r.batch = b PROVE r \in written[w]
  <2>1. <<"batch", b, r.kind>> \in References(r)
    BY <1>3 DEF References, Kinds
  <2> QED
    BY <1>1, <1>2, <2>1, ReferringAreWritten
<1>4. \A i \in DOMAIN BatchOf[b] : InputRow(b, i) \in V /\ InputRow(b, i).table = "input" /\ InputRow(b, i).batch = b
  <2>1. \A i \in DOMAIN BatchOf[b] : InputRow(b, i) \in RowsOfBatch(b)
    BY BatchRows
  <2>2. \A i : InputRow(b, i).table = "input" /\ InputRow(b, i).batch = b
    BY DEF InputRow
  <2> QED
    BY <2>1, <2>2
<1>5. \A n \in DOMAIN UniqueEvents(BatchOf[b]) :
        NormalizedRow(b, n) \in V /\ NormalizedRow(b, n).table = "normalized" /\ NormalizedRow(b, n).batch = b
  <2>1. \A n \in DOMAIN UniqueEvents(BatchOf[b]) : NormalizedRow(b, n) \in RowsOfBatch(b)
    BY BatchRows
  <2>2. \A n : NormalizedRow(b, n).table = "normalized" /\ NormalizedRow(b, n).batch = b
    BY DEF NormalizedRow
  <2> QED
    BY <2>1, <2>2
<1> HIDE DEF V
<1>6. \A r \in InputsOf(V, b) : \E i \in DOMAIN BatchOf[b] : r = InputRow(b, i)
  <2>1. ASSUME NEW r \in InputsOf(V, b) PROVE \E i \in DOMAIN BatchOf[b] : r = InputRow(b, i)
    <3>1. r \in V /\ r.table = "input" /\ r.batch = b
      BY DEF InputsOf, Rows
    <3>2. r \in RowsOfBatch(b)
      BY <1>3, <3>1
    <3> QED
      BY <3>1, <3>2, RowsByTable
  <2> QED
    BY <2>1
<1>7. \A m \in {m \in Rows(V, "normalized") : m.batch = b} :
        \E n \in DOMAIN UniqueEvents(BatchOf[b]) : m = NormalizedRow(b, n)
  <2>1. ASSUME NEW m \in Rows(V, "normalized"), m.batch = b
        PROVE  \E n \in DOMAIN UniqueEvents(BatchOf[b]) : m = NormalizedRow(b, n)
    <3>1. m \in V /\ m.table = "normalized"
      BY DEF Rows
    <3>2. m \in RowsOfBatch(b)
      BY <1>3, <2>1, <3>1
    <3> QED
      BY <3>1, <3>2, RowsByTable
  <2> QED
    BY <2>1
<1>8. InputsOf(V, b) = {InputRow(b, i) : i \in DOMAIN BatchOf[b]}
  BY <1>4, <1>6 DEF InputsOf, Rows
<1>9. {m \in Rows(V, "normalized") : m.batch = b} = {NormalizedRow(b, n) : n \in DOMAIN UniqueEvents(BatchOf[b])}
  BY <1>5, <1>7 DEF Rows
<1> QED
  BY <1>8, <1>9 DEF V

\* The keys of a set that the transaction writes are those of its digest.
LEMMA KeysAreOfDigest ==
  ASSUME RowsInv, KeysInv, ReferencesInv, NEW w \in Writers, NEW b \in Batches, NEW d \in DigestsOf(b),
         SetRow(d) \in written[w], written[w] \subseteq RowsOfBatch(b), RowsOfBatch(b) \subseteq VisibleTo(w)
  PROVE  {k \in Rows(VisibleTo(w), "key") : k.digest = d} = {KeyRow(d, i) : i \in DOMAIN d}
<1> DEFINE V == VisibleTo(w)
<1>1. <<"set", d>> \in Identifiers(SetRow(d))
  <2>1. SetRow(d).table = "set" /\ SetRow(d).digest = d
    BY DEF SetRow
  <2> QED
    BY <2>1 DEF Identifiers, Kinds
<1>2. \A c : KeyRow(d, c).table = "key" /\ KeyRow(d, c).digest = d
  BY DEF KeyRow
<1>3. \A i \in DOMAIN d : KeyRow(d, i) \in V
  <2>1. \A i \in DOMAIN d : KeyRow(d, i) \in RowsOfBatch(b)
    BY BatchRows
  <2> QED
    BY <2>1
<1>4. ASSUME NEW k \in V, k.table = "key", k.digest = d PROVE \E i \in DOMAIN d : k = KeyRow(d, i)
  <2>1. <<"set", d>> \in References(k)
    BY <1>4 DEF References, Kinds
  <2>2. k \in written[w]
    BY <1>1, <2>1, ReferringAreWritten
  <2>3. PICK c \in DigestsOf(b) : \E i \in DOMAIN c : k = KeyRow(c, i)
    BY <1>4, <2>2, RowsByTable
  <2>4. c = d
    BY <1>4, <2>3 DEF KeyRow
  <2> QED
    BY <2>3, <2>4
<1> HIDE DEF V
<1>5. {k \in Rows(V, "key") : k.digest = d} = {KeyRow(d, i) : i \in DOMAIN d}
  BY <1>2, <1>3, <1>4 DEF Rows
<1> QED
  BY <1>5 DEF V

\* A transaction that stores what normalization makes of a batch is not refused at
\* its commit, whichever of the sets and events it found stored, and whatever other
\* transactions wrote: no constraint trigger of migration 20260804_04 is too strict.
THEOREM CompleteBatchesCommitHolds == LifecycleSpec => []CompleteBatchesCommit
<1>1. RowsInv /\ KeysInv /\ ReferencesInv => CompleteBatchesCommit
  <2> SUFFICES ASSUME RowsInv, KeysInv, ReferencesInv, NEW w \in Writers, NEW b \in Batches,
                      checking[w] = NoRow, BatchRow(b) \in written[w], written[w] \subseteq RowsOfBatch(b),
                      RowsOfBatch(b) \subseteq VisibleTo(w), NEW r \in written[w]
               PROVE  DeferredOK(VisibleTo(w), r)
    BY DEF CompleteBatchesCommit
  <2> DEFINE V == VisibleTo(w)
  <2>1. Distinct(V) /\ Referring(V) /\ \A x \in V : Sound(x)
    <3>1. Distinct(V) /\ Referring(V)
      BY CommitsRefer DEF KeysInv
    <3>2. \A x \in V : Sound(x)
      BY DEF RowsInv, VisibleTo
    <3> QED
      BY <3>1, <3>2
  <2>2. /\ InputsOf(V, b) = {InputRow(b, i) : i \in DOMAIN BatchOf[b]}
        /\ {m \in Rows(V, "normalized") : m.batch = b} = {NormalizedRow(b, n) : n \in DOMAIN UniqueEvents(BatchOf[b])}
    BY MembersAreOfBatch
  <2>3. \A e \in ToSet(BatchOf[b]) : ObservationRowOf(e) \in V /\ TypedRow(e) \in V /\ e.kind \in Kinds
    <3>1. \A e \in ToSet(BatchOf[b]) : ObservationRowOf(e) \in RowsOfBatch(b) /\ TypedRow(e) \in RowsOfBatch(b)
      BY BatchRows
    <3>2. \A e \in ToSet(BatchOf[b]) : e.kind \in Kinds
      BY BatchEvents
    <3> QED
      BY <3>1, <3>2
  <2>4. r \in V /\ r.table \in Tables /\ r \in RowsOfBatch(b)
    BY <2>1 DEF VisibleTo, Sound, IsRow
  <2>5. ASSUME NEW d \in DigestsOf(b), r = SetRow(d) PROVE SetIntegrity(V, r)
    <3>1. IsDigest(d)
      BY LifecycleAssumption DEF DigestsOf
    <3>2. {k \in Rows(V, "key") : k.digest = d} = {KeyRow(d, i) : i \in DOMAIN d}
      BY <2>5, KeysAreOfDigest
    <3> HIDE DEF V
    <3> QED
      BY <2>5, <3>1, <3>2, KeysPass
  <2> HIDE DEF V
  <2>6. CASE r.table = "set"
    <3>1. SetIntegrity(V, r)
      BY <2>4, <2>5, <2>6, RowsByTable
    <3> QED
      BY <2>6, <3>1 DEF DeferredOK, V
  <2>7. CASE r.table = "batch"
    <3>1. r = BatchRow(b)
      BY <2>4, <2>7, RowsByTable
    <3>2. InputsIntegrity(V, r) /\ NormalizedIntegrity(V, r)
      BY <2>2, <2>3, <3>1, InputsPass, NormalizedPass
    <3> QED
      BY <2>7, <3>2 DEF DeferredOK, V
  <2>8. CASE r.table = "input"
    <3>1. r \in InputsOf(V, b) /\ r.batch = b
      <4>1. PICK i \in DOMAIN BatchOf[b] : r = InputRow(b, i)
        BY <2>4, <2>8, RowsByTable
      <4> QED
        BY <2>2, <4>1 DEF InputRow
    <3>2. <<"input", r.batch, r.raw, r.first>> \in IdentifiersOf(V)
      BY <2>2, <3>1, InputsPass
    <3> QED
      BY <2>8, <3>2 DEF DeferredOK, V
  <2>9. CASE r.table = "observation"
    <3>1. PICK e \in ToSet(BatchOf[b]) : r = ObservationRowOf(e)
      BY <2>4, <2>9, RowsByTable
    <3>2. SubtypeIntegrity(V, r)
      BY <2>1, <2>3, <3>1, SubtypePass
    <3> QED
      BY <2>9, <3>2 DEF DeferredOK, V
  <2>10. CASE r.table \notin {"set", "batch", "input", "observation"}
    BY <2>10 DEF DeferredOK
  <2> QED
    BY <2>6, <2>7, <2>8, <2>9, <2>10
<1> QED
  BY <1>1, RowsHold, PTL

=============================================================================
