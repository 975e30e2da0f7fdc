----------------------------- MODULE PointInTime -----------------------------
(***************************************************************************)
(* reconstruct_option_chain (backend/app/market_data/point_in_time.py):    *)
(* the option chain of a market instant as it could be known at a          *)
(* knowledge cutoff, from quotes, corrections of quotes, quality           *)
(* assessments, contract versions and provider mappings that were recorded *)
(* in any order.                                                           *)
(*                                                                         *)
(* Every record has its own identity (_unique_index): a caller that gives  *)
(* two records of one identity gets an error and no chain.                 *)
(***************************************************************************)
EXTENDS Integers, FiniteSets

CONSTANTS
  Contracts,    \* economic contracts
  Ids,          \* identities of contract versions and of provider mappings
  Quotes,       \* [id, contract, type, version, mapping, exchange, available, basis, order, corrects]
  Assessments,  \* [id, event, policy, accepted, recorded]
  Listed,       \* [Contracts -> the version and the mapping there are at the beginning]
  Relisted,     \* those that supersede them, of some contracts
  Queries,      \* [market, known, policy, defensible]
  MaxEvents     \* bound: quotes observed

\* No time, no quote corrected.
Unset == 0

VersionRecords ==
  [id : Ids, contract : Contracts, from : Nat, until : Nat, recorded : Nat, superseded : Nat]

MappingRecords ==
  [id : Ids, version : Ids, from : Nat, until : Nat, recorded : Nat, superseded : Nat]

ListingRecords == [version : VersionRecords, mapping : MappingRecords]

ASSUME PointInTimeAssumption ==
  /\ \A q \in Quotes : /\ q.id \in Nat \ {Unset} /\ q.corrects \in Nat
                       /\ q.exchange \in Nat /\ q.available \in Nat \ {Unset}
                       /\ q.order \in Int
  /\ \A q, p \in Quotes : q.id = p.id => q.contract = p.contract /\ q.type = p.type
  /\ \A a \in Assessments : a.id \in Nat /\ a.recorded \in Nat
  /\ \A query \in Queries : query.market \in Nat /\ query.known \in Nat
  /\ Listed \in [Contracts -> ListingRecords]
  /\ DOMAIN Relisted \subseteq Contracts /\ Relisted \in [DOMAIN Relisted -> ListingRecords]

VARIABLE evidence   \* [quotes, versions, mappings, assessments]: what a caller can pass

-----------------------------------------------------------------------------
\* effective_at, of a version or of a mapping; a cutoff may be Unset.
EffectiveAt(r, market, known) ==
  /\ r.from <= market
  /\ r.until = Unset \/ market < r.until
  /\ known # Unset => r.recorded <= known /\ (r.superseded = Unset \/ known < r.superseded)

\* The version and the mapping of a quote are there, belong to each other and to its
\* contract, and are in effect.
BoundAt(E, q, market, known) ==
  \E v \in E.versions, m \in E.mappings :
    /\ v.id = q.version /\ m.id = q.mapping
    /\ v.contract = q.contract /\ m.version = v.id
    /\ EffectiveAt(v, market, known) /\ EffectiveAt(m, market, known)

\* The quote had happened, and could be known.
WithinCutoffs(q, query) ==
  /\ q.exchange <= query.market
  /\ query.known # Unset =>
       q.available <= query.known /\ (query.defensible => q.basis # "historical_import")

\* _quote_is_historically_eligible: by the listing at the time of the quote.
HistoricallyEligible(E, q, query) ==
  BoundAt(E, q, q.exchange, q.available) /\ WithinCutoffs(q, query)

\* Mutant: the latest assessment of all counts.
CandidatesOfPolicy(E, q, query) ==
  {a \in E.assessments : a.event = q.id /\ a.policy = query.policy}

Candidates(E, q, query) ==
  {a \in E.assessments :
     a.event = q.id /\ a.policy = query.policy /\ (query.known # Unset => a.recorded <= query.known)}

\* _selected_assessment: the latest recorded one; quotes without one are not seen.
Accepted(E, q, query) ==
  \E a \in Candidates(E, q, query) :
    /\ a.accepted
    /\ \A b \in Candidates(E, q, query) :
         b.recorded < a.recorded \/ (b.recorded = a.recorded /\ b.id <= a.id)

\* _quote_is_visible: by the listing at the cutoffs.
VisibleQuotes(E, query) ==
  {q \in E.quotes : /\ BoundAt(E, q, query.market, query.known)
                    /\ WithinCutoffs(q, query)
                    /\ Accepted(E, q, query)}

-----------------------------------------------------------------------------
\* The targets a correction may have.
Target(E, s, query) ==
  \E t \in E.quotes :
    /\ t.id = s.corrects /\ t.id # s.id
    /\ HistoricallyEligible(E, t, query)
    /\ t.contract = s.contract /\ t.type = s.type

Corrections(E, query) == {s \in VisibleQuotes(E, query) : s.corrects # Unset}

\* A path of corrections that does not end.
Circular(S) == \A s \in S : \E t \in S : t.id = s.corrects

\* Mutant: corrections in a circle are accepted.
InvalidGraphButCircles(E, query) ==
  LET C == Corrections(E, query)
  IN  \/ \E s \in C : ~Target(E, s, query)
      \/ \E s, t \in C : s # t /\ s.corrects = t.corrects

\* _resolve_correction_graph raises: a target is missing, not eligible or of another
\* contract or type, two corrections have one target, or there is a cycle.
InvalidGraph(E, query) ==
  LET C == Corrections(E, query)
  IN  \/ \E s \in C : ~Target(E, s, query)
      \/ \E s, t \in C : s # t /\ s.corrects = t.corrects
      \/ \E S \in SUBSET C : S # {} /\ Circular(S)

Corrected(E, query) == {s.corrects : s \in Corrections(E, query)}

\* _quote_order; order stands for the provider's sequence and the event's order.
Before(p, q) ==
  \/ p.exchange < q.exchange
  \/ p.exchange = q.exchange /\ p.order < q.order
  \/ p.exchange = q.exchange /\ p.order = q.order /\ p.available < q.available
  \/ p.exchange = q.exchange /\ p.order = q.order /\ p.available = q.available /\ p.id < q.id

\* The chain: the newest quote of each contract that no correction replaced.
Latest(E, query) ==
  LET shown == {q \in VisibleQuotes(E, query) : q.id \notin Corrected(E, query)}
  IN  {q \in shown : \A p \in shown : p.contract = q.contract /\ p # q => Before(p, q)}

\* reconstruct_option_chain.
Chain(E, query) ==
  IF InvalidGraph(E, query) THEN [raised |-> TRUE, quotes |-> {}]
  ELSE [raised |-> FALSE, quotes |-> Latest(E, query)]

-----------------------------------------------------------------------------
(* What is recorded, in any order.                                         *)

Observe(q) ==
  /\ Cardinality(evidence.quotes) < MaxEvents
  /\ \A p \in evidence.quotes : p.id # q.id
  /\ evidence' = [evidence EXCEPT !.quotes = @ \cup {q}]

Assess(a) ==
  /\ a \notin evidence.assessments
  /\ \E q \in evidence.quotes : q.id = a.event
  /\ evidence' = [evidence EXCEPT !.assessments = @ \cup {a}]

SupersededBy(r, s) == [r EXCEPT !.superseded = s.recorded]

\* A catalogue supersedes the version and the mapping of a contract.
Relist(c) ==
  LET old == Listed[c]
      new == Relisted[c]
  IN  /\ old.version \in evidence.versions
      /\ evidence' = [evidence EXCEPT
           !.versions = (@ \ {old.version}) \cup {SupersededBy(old.version, new.version), new.version},
           !.mappings = (@ \ {old.mapping}) \cup {SupersededBy(old.mapping, new.mapping), new.mapping}]

EvidenceInit ==
  evidence = [quotes |-> {}, assessments |-> {},
              versions |-> {Listed[c].version : c \in Contracts},
              mappings |-> {Listed[c].mapping : c \in Contracts}]

EvidenceNext ==
  \/ \E q \in Quotes : Observe(q)
  \/ \E a \in Assessments : Assess(a)
  \/ \E c \in DOMAIN Relisted : Relist(c)

EvidenceSpec == EvidenceInit /\ [][EvidenceNext]_evidence

-----------------------------------------------------------------------------
EvidenceTypeOK ==
  evidence \in [quotes : SUBSET Quotes, assessments : SUBSET Assessments,
               versions : SUBSET VersionRecords, mappings : SUBSET MappingRecords]

\* What could be known at a cutoff: a listing that was superseded later was not yet.
AsOf(r, k) == [r EXCEPT !.superseded = IF @ > k THEN Unset ELSE @]

ListingAt(R, k) == {AsOf(r, k) : r \in {r \in R : r.recorded <= k}}

KnownAt(E, k) ==
  [quotes |-> {q \in E.quotes : q.available <= k},
   assessments |-> {a \in E.assessments : a.recorded <= k},
   versions |-> ListingAt(E.versions, k), mappings |-> ListingAt(E.mappings, k)]

\* A chain, or the refusal of one, is what it would have been at the knowledge cutoff:
\* quotes, corrections, assessments and listings that came later change nothing
\* (reconstruct_option_chain).
NoLookahead ==
  \A query \in Queries : query.known # Unset =>
    Chain(evidence, query) = Chain(KnownAt(evidence, query.known), query)

\* "They never silently remove a quote": where a contract has a quote that is seen at
\* the cutoffs the chain has one for it, however its quotes were corrected, or the whole
\* reconstruction is refused (_resolve_correction_graph).
CorrectionsKeepContracts ==
  \A query \in Queries :
    LET chain == Chain(evidence, query)
    IN  ~chain.raised =>
          \A q \in VisibleQuotes(evidence, query) :
            Cardinality({r \in chain.quotes : r.contract = q.contract}) = 1
=============================================================================
