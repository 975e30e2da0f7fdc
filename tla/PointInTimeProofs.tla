-------------------------- MODULE PointInTimeProofs --------------------------
(***************************************************************************)
(* The chain of a knowledge cutoff depends on nothing that came later, for *)
(* any quotes, assessments, listings and queries; and corrections take no  *)
(* contract out of it.                                                     *)
(***************************************************************************)
EXTENDS PointInTime, TemporalRecordsProofs

\* The records a catalogue gives, and what its successor makes of them, are listings.
LEMMA EndedTypes ==
  /\ \A r, s \in VersionRecords : SupersededBy(r, s) \in VersionRecords
  /\ \A r, s \in MappingRecords : SupersededBy(r, s) \in MappingRecords
BY DEF SupersededBy, VersionRecords, MappingRecords

\* What is recorded is of its kind, whatever is recorded and in any order.
THEOREM EvidenceTyped == EvidenceSpec => []EvidenceTypeOK
<1>1. EvidenceInit => EvidenceTypeOK
  BY PointInTimeAssumption DEF EvidenceInit, EvidenceTypeOK, ListingRecords
<1>2. EvidenceTypeOK /\ [EvidenceNext]_evidence => EvidenceTypeOK'
  <2> SUFFICES ASSUME EvidenceTypeOK, [EvidenceNext]_evidence PROVE EvidenceTypeOK'
    OBVIOUS
  <2>1. ASSUME NEW q \in Quotes, Observe(q) PROVE EvidenceTypeOK'
    BY <2>1 DEF EvidenceTypeOK, Observe
  <2>2. ASSUME NEW a \in Assessments, Assess(a) PROVE EvidenceTypeOK'
    BY <2>2 DEF EvidenceTypeOK, Assess
  <2>3. ASSUME NEW c \in DOMAIN Relisted, Relist(c) PROVE EvidenceTypeOK'
    <3>1. /\ Listed[c].version \in VersionRecords /\ Relisted[c].version \in VersionRecords
          /\ Listed[c].mapping \in MappingRecords /\ Relisted[c].mapping \in MappingRecords
      BY PointInTimeAssumption DEF ListingRecords
    <3>2. /\ SupersededBy(Listed[c].version, Relisted[c].version) \in VersionRecords
          /\ SupersededBy(Listed[c].mapping, Relisted[c].mapping) \in MappingRecords
      BY <3>1, EndedTypes
    <3> QED
      BY <2>3, <3>1, <3>2 DEF EvidenceTypeOK, Relist
  <2>4. CASE UNCHANGED evidence
    BY <2>4 DEF EvidenceTypeOK
  <2> QED
    BY <2>1, <2>2, <2>3, <2>4 DEF EvidenceNext
<1> QED
  BY <1>1, <1>2, PTL DEF EvidenceSpec

-----------------------------------------------------------------------------
\* A listing is in effect at a cutoff that is not later than k exactly when it was
\* known at k and, as it was then, is in effect.
LEMMA EffectKnown ==
  ASSUME NEW r \in VersionRecords \cup MappingRecords, NEW market \in Nat,
         NEW k \in Nat, NEW n \in Nat \ {Unset}, n <= k
  PROVE  EffectiveAt(r, market, n) <=> (r.recorded <= k /\ EffectiveAt(AsOf(r, k), market, n))
<1>1. CASE r \in VersionRecords
  BY <1>1 DEF EffectiveAt, AsOf, VersionRecords, Unset
<1>2. CASE r \in MappingRecords
  BY <1>2 DEF EffectiveAt, AsOf, MappingRecords, Unset
<1> QED
  BY <1>1, <1>2

\* What a listing is of does not depend on when it was superseded.
LEMMA AsOfKeeps ==
  /\ \A r \in VersionRecords, k \in Nat : AsOf(r, k).id = r.id /\ AsOf(r, k).contract = r.contract
  /\ \A r \in MappingRecords, k \in Nat : AsOf(r, k).id = r.id /\ AsOf(r, k).version = r.version
BY DEF AsOf, VersionRecords, MappingRecords

-----------------------------------------------------------------------------
(* A query with a knowledge cutoff, over recorded evidence.                *)

Asked(query) == query \in Queries /\ query.known # Unset
Known(query) == KnownAt(evidence, query.known)

\* The listing of a quote is the same at any cutoff that is not later.
LEMMA SameListing ==
  ASSUME EvidenceTypeOK, NEW query, Asked(query),
         NEW q \in Quotes, NEW market \in Nat, NEW n \in Nat \ {Unset}, n <= query.known
  PROVE  BoundAt(evidence, q, market, n) <=> BoundAt(Known(query), q, market, n)
<1> DEFINE k == query.known
<1>k. k \in Nat
  BY PointInTimeAssumption DEF Asked
<1>t. evidence.versions \subseteq VersionRecords /\ evidence.mappings \subseteq MappingRecords
  BY DEF EvidenceTypeOK
<1>e. /\ Known(query).versions = {AsOf(r, k) : r \in {r \in evidence.versions : r.recorded <= k}}
      /\ Known(query).mappings = {AsOf(r, k) : r \in {r \in evidence.mappings : r.recorded <= k}}
  BY DEF Known, KnownAt, ListingAt
<1> HIDE DEF k
<1>1. ASSUME BoundAt(evidence, q, market, n) PROVE BoundAt(Known(query), q, market, n)
  <2>1. PICK v \in evidence.versions, m \in evidence.mappings :
          /\ v.id = q.version /\ m.id = q.mapping
          /\ v.contract = q.contract /\ m.version = v.id
          /\ EffectiveAt(v, market, n) /\ EffectiveAt(m, market, n)
    BY <1>1 DEF BoundAt
  <2>2. /\ v.recorded <= k /\ EffectiveAt(AsOf(v, k), market, n)
        /\ m.recorded <= k /\ EffectiveAt(AsOf(m, k), market, n)
    BY <1>k, <1>t, <2>1, EffectKnown DEF k
  <2>3. AsOf(v, k) \in Known(query).versions /\ AsOf(m, k) \in Known(query).mappings
    BY <1>e, <2>2
  <2>4. /\ AsOf(v, k).id = v.id /\ AsOf(v, k).contract = v.contract
        /\ AsOf(m, k).id = m.id /\ AsOf(m, k).version = m.version
    BY <1>k, <1>t, AsOfKeeps
  <2> QED
    BY <2>1, <2>2, <2>3, <2>4 DEF BoundAt
<1>2. ASSUME BoundAt(Known(query), q, market, n) PROVE BoundAt(evidence, q, market, n)
  <2>1. PICK v \in Known(query).versions, m \in Known(query).mappings :
          /\ v.id = q.version /\ m.id = q.mapping
          /\ v.contract = q.contract /\ m.version = v.id
          /\ EffectiveAt(v, market, n) /\ EffectiveAt(m, market, n)
    BY <1>2 DEF BoundAt
  <2>2. PICK w \in evidence.versions : w.recorded <= k /\ v = AsOf(w, k)
    BY <1>e
  <2>3. PICK p \in evidence.mappings : p.recorded <= k /\ m = AsOf(p, k)
    BY <1>e
  <2>4. EffectiveAt(w, market, n) /\ EffectiveAt(p, market, n)
    BY <1>k, <1>t, <2>1, <2>2, <2>3, EffectKnown DEF k
  <2>5. w.id = v.id /\ w.contract = v.contract /\ p.id = m.id /\ p.version = m.version
    BY <1>k, <1>t, <2>2, <2>3, AsOfKeeps
  <2> QED
    BY <2>1, <2>4, <2>5 DEF BoundAt
<1> QED
  BY <1>1, <1>2

\* A quote that could be known is among what was known.
LEMMA WithinIsKnown ==
  ASSUME EvidenceTypeOK, NEW query, Asked(query), NEW q, WithinCutoffs(q, query)
  PROVE  q \in evidence.quotes <=> q \in Known(query).quotes
BY DEF WithinCutoffs, Asked, Known, KnownAt

\* Its assessment is the same.
LEMMA SameAssessment ==
  ASSUME NEW query, Asked(query), NEW q
  PROVE  Accepted(evidence, q, query) <=> Accepted(Known(query), q, query)
<1>1. Candidates(evidence, q, query) = Candidates(Known(query), q, query)
  BY DEF Candidates, Known, KnownAt, Asked
<1> QED
  BY <1>1 DEF Accepted

LEMMA SameVisible ==
  ASSUME EvidenceTypeOK, NEW query, Asked(query)
  PROVE  VisibleQuotes(evidence, query) = VisibleQuotes(Known(query), query)
<1>1. evidence.quotes \subseteq Quotes /\ Known(query).quotes \subseteq evidence.quotes
  BY DEF EvidenceTypeOK, Known, KnownAt
<1>2. query.market \in Nat /\ query.known \in Nat \ {Unset} /\ query.known <= query.known
  BY PointInTimeAssumption DEF Asked
<1>3. \A q \in Quotes :
        BoundAt(evidence, q, query.market, query.known) <=> BoundAt(Known(query), q, query.market, query.known)
  BY <1>2, SameListing
<1>4. ASSUME NEW q \in Quotes
      PROVE  q \in VisibleQuotes(evidence, query) <=> q \in VisibleQuotes(Known(query), query)
  BY <1>3, WithinIsKnown, SameAssessment DEF VisibleQuotes
<1> QED
  BY <1>1, <1>4 DEF VisibleQuotes

\* So are the targets of corrections: one that came later is as good as missing.
LEMMA SameTargets ==
  ASSUME EvidenceTypeOK, NEW query, Asked(query), NEW s
  PROVE  Target(evidence, s, query) <=> Target(Known(query), s, query)
<1>1. evidence.quotes \subseteq Quotes /\ Known(query).quotes \subseteq evidence.quotes
  BY DEF EvidenceTypeOK, Known, KnownAt
<1>2. ASSUME NEW t \in Quotes
      PROVE  (t \in evidence.quotes /\ HistoricallyEligible(evidence, t, query))
             <=> (t \in Known(query).quotes /\ HistoricallyEligible(Known(query), t, query))
  <2>1. CASE WithinCutoffs(t, query)
    <3>1. t.exchange \in Nat /\ t.available \in Nat \ {Unset} /\ t.available <= query.known
      BY <2>1, PointInTimeAssumption DEF WithinCutoffs, Asked
    <3>2. BoundAt(evidence, t, t.exchange, t.available) <=> BoundAt(Known(query), t, t.exchange, t.available)
      BY <3>1, SameListing
    <3> QED
      BY <2>1, <3>2, WithinIsKnown DEF HistoricallyEligible
  <2>2. CASE ~WithinCutoffs(t, query)
    BY <2>2 DEF HistoricallyEligible
  <2> QED
    BY <2>1, <2>2
<1> QED
  BY <1>1, <1>2 DEF Target

\* The chain of a query is the one of what was known at its cutoff, whatever was
\* recorded after it and in whatever order (reconstruct_option_chain).
THEOREM NoLookaheadHolds == EvidenceSpec => []NoLookahead
<1>1. EvidenceTypeOK => NoLookahead
  <2> SUFFICES ASSUME EvidenceTypeOK, NEW query \in Queries, query.known # Unset
               PROVE  Chain(evidence, query) = Chain(Known(query), query)
    BY DEF NoLookahead, Known
  <2>1. Asked(query)
    BY DEF Asked
  <2>2. VisibleQuotes(evidence, query) = VisibleQuotes(Known(query), query)
    BY <2>1, SameVisible
  <2>3. Corrections(evidence, query) = Corrections(Known(query), query)
    BY <2>2 DEF Corrections
  <2>4. InvalidGraph(evidence, query) <=> InvalidGraph(Known(query), query)
    BY <2>1, <2>3, SameTargets DEF InvalidGraph
  <2>5. Latest(evidence, query) = Latest(Known(query), query)
    BY <2>2, <2>3 DEF Latest, Corrected
  <2> QED
    BY <2>4, <2>5 DEF Chain
<1> QED
  BY <1>1, EvidenceTyped, PTL

-----------------------------------------------------------------------------
(* The newest quote                                                        *)

\* The order of quotes is total on those with identities of their own.
LEMMA OrderIsTotal ==
  /\ \A p, q \in Quotes : p.id # q.id => Before(p, q) \/ Before(q, p)
  /\ \A p, q \in Quotes : ~(Before(p, q) /\ Before(q, p))
  /\ \A p, q, r \in Quotes : Before(p, q) /\ Before(q, r) => Before(p, r)
<1>1. \A q \in Quotes : q.exchange \in Int /\ q.order \in Int /\ q.available \in Int /\ q.id \in Int
  BY PointInTimeAssumption
<1> QED
  BY <1>1 DEF Before

Apart(S) == IsFiniteSet(S) /\ \A p, q \in S : p.id = q.id => p = q

\* Of finitely many quotes one is the newest: the one with most of them before it.
LEMMA NewestOf ==
  ASSUME NEW S \in SUBSET Quotes, Apart(S), S # {}
  PROVE  \E q \in S : \A p \in S : p # q => Before(p, q)
<1> DEFINE Earlier(q) == {p \in S : Before(p, q)}
           Ranks == {Cardinality(Earlier(q)) : q \in S}
<1>1. \A q \in S : /\ IsFiniteSet(Earlier(q)) /\ Cardinality(Earlier(q)) \in Nat
                   /\ Cardinality(Earlier(q)) < Cardinality(S) + 1
  <2>1. IsFiniteSet(S) /\ Cardinality(S) \in Nat
    BY FS_CardinalityType DEF Apart
  <2>2. ASSUME NEW q \in S
        PROVE  /\ IsFiniteSet(Earlier(q)) /\ Cardinality(Earlier(q)) \in Nat
               /\ Cardinality(Earlier(q)) < Cardinality(S) + 1
    <3>1. Earlier(q) \in SUBSET S
      OBVIOUS
    <3> HIDE DEF Earlier
    <3>2. IsFiniteSet(Earlier(q)) /\ Cardinality(Earlier(q)) <= Cardinality(S)
      BY <2>1, <3>1, FS_Subset
    <3>3. Cardinality(Earlier(q)) \in Nat
      BY <3>2, FS_CardinalityType
    <3> QED
      BY <2>1, <3>2, <3>3
  <2> QED
    BY <2>2
<1>2. Cardinality(S) + 1 \in Nat
  BY FS_CardinalityType DEF Apart
<1>3. PICK q \in S : \A p \in S : Cardinality(Earlier(p)) <= Cardinality(Earlier(q))
  <2> HIDE DEF Earlier
  <2>1. Ranks \in SUBSET Nat /\ Ranks # {} /\ \A x \in Ranks : x < Cardinality(S) + 1
    BY <1>1
  <2>2. PICK m \in Ranks : \A x \in Ranks : x <= m
    <3> HIDE DEF Ranks
    <3> QED
      BY <1>2, <2>1, GreatestBelow
  <2> QED
    BY <2>2
<1>4. ASSUME NEW p \in S, p # q, ~Before(p, q) PROVE FALSE
  <2>1. p \in Quotes /\ q \in Quotes /\ p.id # q.id
    BY <1>4 DEF Apart
  <2>2. Before(q, p)
    BY <1>4, <2>1, OrderIsTotal
  <2>3. Earlier(q) \cup {q} \in SUBSET Earlier(p)
    BY <2>1, <2>2, OrderIsTotal
  <2>4. q \notin Earlier(q)
    BY <2>1, OrderIsTotal
  <2> HIDE DEF Earlier
  <2>5. Cardinality(Earlier(q) \cup {q}) = Cardinality(Earlier(q)) + 1
    BY <1>1, <2>4, FS_AddElement
  <2>6. Cardinality(Earlier(q) \cup {q}) <= Cardinality(Earlier(p))
    BY <1>1, <2>3, FS_Subset
  <2> QED
    BY <1>1, <1>3, <2>5, <2>6
<1> QED
  BY <1>4

-----------------------------------------------------------------------------
(* The quotes that corrections leave                                       *)

\* What maps a finite set into itself, and no two of it alike, maps it onto itself.
LEMMA OntoItself ==
  ASSUME NEW T, IsFiniteSet(T), NEW f \in [T -> T], \A v, w \in T : f[v] = f[w] => v = w
  PROVE  \A s \in T : \E v \in T : s = f[v]
<1>1. f \in Injection(T, T)
  BY DEF Injection, IsInjective
<1>2. f \in Surjection(T, T)
  BY <1>1, FS_Injection
<1> QED
  BY <1>2 DEF Surjection

\* Where corrections have targets, no two the same and none in a circle, not every
\* quote of a contract is corrected: otherwise each would have a correction of its own
\* among them, as many as there are, and all of them would make a circle.
LEMMA OneIsNotCorrected ==
  ASSUME Apart(evidence.quotes), NEW query, ~InvalidGraph(evidence, query),
         NEW q \in VisibleQuotes(evidence, query)
  PROVE  \E v \in VisibleQuotes(evidence, query) :
           v.contract = q.contract /\ v.id \notin Corrected(evidence, query)
<1> DEFINE C == Corrections(evidence, query)
           T == {v \in VisibleQuotes(evidence, query) : v.contract = q.contract}
<1> SUFFICES ASSUME \A v \in T : v.id \in Corrected(evidence, query) PROVE FALSE
  OBVIOUS
<1>1. /\ \A s \in C : Target(evidence, s, query)
      /\ \A s, t \in C : s.corrects = t.corrects => s = t
      /\ \A S \in SUBSET C : S # {} => ~Circular(S)
  BY DEF InvalidGraph
<1>2. T \subseteq evidence.quotes /\ q \in T /\ C \subseteq VisibleQuotes(evidence, query)
  BY DEF VisibleQuotes, Corrections
<1>3. IsFiniteSet(T)
  BY <1>2, FS_Subset DEF Apart
<1>4. \A v \in T : \E s \in C : s.corrects = v.id
  BY DEF Corrected
<1>5. \A v \in T, s \in C : s.corrects = v.id => s \in T
  <2> SUFFICES ASSUME NEW v \in T, NEW s \in C, s.corrects = v.id PROVE s.contract = q.contract
    BY <1>2
  <2>1. PICK t \in evidence.quotes : t.id = s.corrects /\ t.contract = s.contract
    BY <1>1 DEF Target
  <2>2. t = v
    BY <1>2, <2>1 DEF Apart
  <2> QED
    BY <2>1, <2>2
<1> DEFINE correction == [v \in T |-> CHOOSE s \in C : s.corrects = v.id]
<1>6. \A v \in T : correction[v] \in C /\ correction[v].corrects = v.id
  BY <1>4
<1>7. correction \in [T -> T]
  BY <1>5, <1>6
<1>8. \A v, w \in T : correction[v] = correction[w] => v = w
  <2>1. \A v, w \in T : v.id = w.id => v = w
    BY <1>2 DEF Apart
  <2> HIDE DEF correction, C, T
  <2> QED
    BY <1>6, <2>1
<1> HIDE DEF correction, C, T
<1>9. \A s \in T : \E v \in T : s = correction[v]
  BY <1>3, <1>7, <1>8, OntoItself
<1>10. T \in SUBSET C /\ T # {}
  BY <1>2, <1>6, <1>9
<1>11. Circular(T)
  BY <1>6, <1>9 DEF Circular
<1> QED
  BY <1>1, <1>10, <1>11

\* So a chain has one quote of each contract that has a visible one.
LEMMA ContractKept ==
  ASSUME EvidenceTypeOK, Apart(evidence.quotes), NEW query, ~InvalidGraph(evidence, query),
         NEW q \in VisibleQuotes(evidence, query)
  PROVE  Cardinality({r \in Latest(evidence, query) : r.contract = q.contract}) = 1
<1> DEFINE shown == {v \in VisibleQuotes(evidence, query) : v.id \notin Corrected(evidence, query)}
           S == {v \in shown : v.contract = q.contract}
<1>1. S \subseteq evidence.quotes /\ S \in SUBSET Quotes
  BY DEF VisibleQuotes, EvidenceTypeOK
<1>2. S # {}
  BY OneIsNotCorrected
<1>3. Apart(S)
  <2> HIDE DEF S
  <2> QED
    BY <1>1, FS_Subset DEF Apart
<1>4. PICK newest \in S : \A p \in S : p # newest => Before(p, newest)
  <2> HIDE DEF S
  <2> QED
    BY <1>1, <1>2, <1>3, NewestOf
<1>5. {r \in Latest(evidence, query) : r.contract = q.contract} =
        {r \in S : \A p \in S : p # r => Before(p, r)}
  BY DEF Latest
<1>6. \A r \in S : (\A p \in S : p # r => Before(p, r)) => r = newest
  <2> HIDE DEF S
  <2> QED
    BY <1>1, <1>4, OrderIsTotal
<1>7. {r \in S : \A p \in S : p # r => Before(p, r)} = {newest}
  <2> HIDE DEF S
  <2> QED
    BY <1>4, <1>6
<1> QED
  BY <1>5, <1>7, FS_Singleton

\* The quotes recorded are finitely many, each with an identity of its own.
LEMMA EvidenceApart == EvidenceSpec => []Apart(evidence.quotes)
<1>1. EvidenceInit => Apart(evidence.quotes)
  BY FS_EmptySet DEF EvidenceInit, Apart
<1>2. EvidenceTypeOK /\ Apart(evidence.quotes) /\ [EvidenceNext]_evidence => Apart(evidence.quotes)'
  <2> SUFFICES ASSUME EvidenceTypeOK, Apart(evidence.quotes), [EvidenceNext]_evidence
               PROVE  Apart(evidence'.quotes)
    OBVIOUS
  <2>1. ASSUME NEW q \in Quotes, Observe(q) PROVE Apart(evidence'.quotes)
    <3>1. evidence'.quotes = evidence.quotes \cup {q} /\ \A p \in evidence.quotes : p.id # q.id
      BY <2>1 DEF Observe, EvidenceTypeOK
    <3>2. IsFiniteSet(evidence.quotes \cup {q})
      BY FS_AddElement DEF Apart
    <3> QED
      BY <3>1, <3>2 DEF Apart
  <2>2. ASSUME NEW a \in Assessments, Assess(a) PROVE Apart(evidence'.quotes)
    BY <2>2 DEF Assess, EvidenceTypeOK
  <2>3. ASSUME NEW c \in DOMAIN Relisted, Relist(c) PROVE Apart(evidence'.quotes)
    BY <2>3 DEF Relist, EvidenceTypeOK
  <2>4. CASE UNCHANGED evidence
    BY <2>4
  <2> QED
    BY <2>1, <2>2, <2>3, <2>4 DEF EvidenceNext
<1> QED
  BY <1>1, <1>2, EvidenceTyped, PTL DEF EvidenceSpec

\* Corrections never take a contract out of a chain, however they refer to each other
\* and in whatever order they were recorded (_resolve_correction_graph).
THEOREM CorrectionsKeepContractsHolds == EvidenceSpec => []CorrectionsKeepContracts
<1>1. EvidenceTypeOK /\ Apart(evidence.quotes) => CorrectionsKeepContracts
  <2> SUFFICES ASSUME EvidenceTypeOK, Apart(evidence.quotes), NEW query \in Queries,
                      ~Chain(evidence, query).raised,
                      NEW q \in VisibleQuotes(evidence, query)
               PROVE  Cardinality({r \in Chain(evidence, query).quotes : r.contract = q.contract}) = 1
    BY DEF CorrectionsKeepContracts
  <2>1. ~InvalidGraph(evidence, query)
    BY DEF Chain
  <2>2. Chain(evidence, query).quotes = Latest(evidence, query)
    BY <2>1 DEF Chain
  <2> QED
    BY <2>1, <2>2, ContractKept
<1> QED
  BY <1>1, EvidenceTyped, EvidenceApart, PTL
=============================================================================
