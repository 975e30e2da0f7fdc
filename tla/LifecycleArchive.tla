-------------------------- MODULE LifecycleArchive --------------------------
(***************************************************************************)
(* The tables of provider lifecycle events of migration 20260804_04, and   *)
(* the transactions that write them.  The application has no writer of     *)
(* them yet, so a writer here inserts rows in any order, right ones and    *)
(* wrong ones, and the tables must refuse what is not a batch.             *)
(*                                                                         *)
(* Transactions are READ COMMITTED.  An INSERT evaluates its row checks,   *)
(* BEFORE trigger and unique keys on the rows visible then, and its        *)
(* references on the rows visible at its end: another transaction may      *)
(* commit in between.  Constraint triggers and the deferred reference run  *)
(* at the commit, for the rows the transaction inserted.                   *)
(*                                                                         *)
(* Beside the tables, a source reports the events of a sequence one by one.*)
(***************************************************************************)
EXTENDS LifecycleEvents

CONSTANTS
  Writers,     \* sessions of the database
  BatchKind,   \* [batches -> Kinds]
  BatchOf,     \* [batches -> the sequence of raw events they consist of]
  Workloads,   \* [names -> [Writers -> the rows it may insert, right and wrong ones]]
  Reports,     \* the raw events a source may report
  MaxTrail     \* bound: the events of one sequence

VARIABLES
  committed,   \* the committed rows of all tables
  written,     \* [Writers -> the uncommitted rows of its transaction]
  checking,    \* [Writers -> the row whose references are not checked yet]
  workload,    \* the name of the workload
  trail        \* the sequence of reported events

lifecycleVars == <<committed, written, checking, workload, trail>>

Batches == DOMAIN BatchOf
NoRow == [table |-> "none"]

Tables == {"set", "key", "batch", "raw", "input", "observation", "normalized"} \cup Kinds

\* The columns of a row, and what their types and enumerations admit.  The values of a
\* row of an event are its own columns, the kind among them.
IsRow(r) ==
  /\ r.table \in Tables
  /\ r.table = "key" =>
       r = [table |-> "key", digest |-> r.digest, ordinal |-> r.ordinal, key |-> r.key]
  /\ r.table \in {"raw", "observation"} \cup Kinds => r.kind \in Kinds
  /\ r.table \in {"raw"} \cup Kinds => /\ r.values.kind = r.kind
                                      /\ r.values.mode \in {Absent} \cup DOMAIN ModeLimit
  /\ r.table \in {"input", "normalized"} => r.ordinal \in Nat
  /\ r.table = "input" => r.duplicate \in BOOLEAN

\* The keys of a set are kept sorted, without a duplicate.
IsDigest(d) == d \in Seq(Nat) /\ \A i, j \in DOMAIN d : i < j => d[i] < d[j]

ASSUME LifecycleAssumption ==
  /\ BatchKind \in [Batches -> Kinds] /\ MaxTrail \in 0..MaxLifecycleEvents
  /\ \A b \in Batches :
       /\ BatchOf[b] \in Seq(ToSet(BatchOf[b])) /\ ValidBatch(BatchOf[b])
       /\ \A e \in ToSet(BatchOf[b]) :
            e.kind = BatchKind[b] /\ (e.kind = "subscription" => IsDigest(e.keys.digest))
  /\ \A name \in DOMAIN Workloads, w \in Writers : \A r \in Workloads[name][w] : IsRow(r)
  /\ \A e \in Reports : e.order \in Nat /\ e.kind \in Kinds /\ e.mode \in {Absent} \cup DOMAIN ModeLimit

-----------------------------------------------------------------------------
(* The rows of a batch                                                     *)

SetRow(digest) ==
  [table |-> "set", digest |-> digest, count |-> Len(digest), payload |-> digest, hash |-> digest]

KeyRow(digest, i) == [table |-> "key", digest |-> digest, ordinal |-> i - 1, key |-> digest[i]]

BatchRow(b) ==
  LET unique == Len(UniqueEvents(BatchOf[b]))
  IN  [table |-> "batch", batch |-> b, kind |-> BatchKind[b], input |-> Len(BatchOf[b]),
       unique |-> unique, normalized |-> unique, duplicate |-> Len(BatchOf[b]) - unique]

RawRow(e) == [table |-> "raw", raw |-> RawId(e), kind |-> e.kind, values |-> e]

InputRow(b, i) ==
  [table |-> "input", batch |-> b, kind |-> BatchKind[b], ordinal |-> i - 1,
   raw |-> RawId(BatchOf[b][i]), first |-> FirstOccurrence(BatchOf[b], i),
   duplicate |-> IsDuplicate(BatchOf[b], i)]

ObservationRowOf(e) ==
  LET o == Observation(e)
  IN  [table |-> "observation", event |-> o.event, raw |-> o.raw, subject |-> o.subject,
       kind |-> o.kind, session |-> e.session]

TypedRow(e) ==
  LET o == Observation(e)
  IN  [table |-> e.kind, event |-> o.event, subject |-> o.subject, kind |-> e.kind,
       session |-> e.session, values |-> o.values]

NormalizedRow(b, n) ==
  [table |-> "normalized", batch |-> b, kind |-> BatchKind[b], ordinal |-> n - 1,
   event |-> Observation(UniqueEvents(BatchOf[b])[n]).event]

\* The rows a transaction that stores b leaves, those it found included.
RowsOfBatch(b) ==
  LET events == ToSet(BatchOf[b])
      digests == {e.keys.digest : e \in {x \in events : x.kind = "subscription"}}
  IN  {SetRow(d) : d \in digests}
        \cup (UNION {{KeyRow(d, i) : i \in DOMAIN d} : d \in digests})
        \cup {BatchRow(b)}
        \cup (UNION {{RawRow(e), ObservationRowOf(e), TypedRow(e)} : e \in events})
        \cup {InputRow(b, i) : i \in DOMAIN BatchOf[b]}
        \cup {NormalizedRow(b, n) : n \in DOMAIN UniqueEvents(BatchOf[b])}

-----------------------------------------------------------------------------
(* Row checks                                                              *)

SetRowOK(r) ==
  r.count \in 1..MaxInstrumentKeys /\ Len(r.payload) = r.count /\ r.hash = r.digest

\* count_bounds and count_reconciliation.
BatchRowOK(r) ==
  /\ {r.input, r.unique, r.normalized, r.duplicate} \subseteq 0..MaxLifecycleEvents
  /\ r.normalized = r.unique /\ r.duplicate = r.input - r.unique
  /\ \/ r.input = 0 /\ r.unique = 0
     \/ r.unique \in 1..r.input

\* Mutant: a mode is required of every subscription event.
StatesOKModeAlways(kind, v) ==
  /\ <<v.previous, v.state>> \in Transitions(kind)
  /\ (v.reason # Absent) = (v.state = FailedState(kind))
  /\ kind = "subscription" => v.mode # Absent /\ v.keys.count \in 1..ModeLimit[v.mode]

\* The states of a subtype row or a raw row: transition, mode_shape, mode_limit, reason_shape.
StatesOK(kind, v) ==
  /\ <<v.previous, v.state>> \in Transitions(kind)
  /\ (v.reason # Absent) = (v.state = FailedState(kind))
  /\ kind = "subscription" =>
       /\ v.state \in NeedsMode => v.mode # Absent
       /\ v.keys.count \in 1..(IF v.mode = Absent THEN MaxInstrumentKeys ELSE ModeLimit[v.mode])

\* kind_columns and clock_order, and the states.
RawRowOK(r) ==
  /\ StatesOK(r.kind, r.values)
  /\ r.values.occurred <= r.values.available /\ r.values.available <= r.values.recorded
  /\ IF r.kind = "connection"
     THEN r.values.scope = Absent /\ r.values.mode = Absent /\ r.values.keys = NoKeys
     ELSE r.values.scope # Absent /\ r.values.keys # NoKeys

InputRowOK(r) == r.first \in 0..r.ordinal /\ r.duplicate = (r.first < r.ordinal)

\* identity_shape.
ObservationShapeOK(r) == r.kind = "connection" => r.subject = <<r.session>>

\* identity_columns, and the states.
ConnectionRowOK(r) == r.subject = <<r.session>> /\ StatesOK("connection", r.values)

SubscriptionRowOK(r) == StatesOK("subscription", r.values)

TypedRowOK(r) ==
  /\ r.table = r.kind
  /\ IF r.kind = "connection" THEN ConnectionRowOK(r) ELSE SubscriptionRowOK(r)

RowOK(r) ==
  CASE r.table = "set" -> SetRowOK(r)
    [] r.table = "batch" -> BatchRowOK(r)
    [] r.table = "raw" -> RawRowOK(r)
    [] r.table = "input" -> InputRowOK(r)
    [] r.table = "observation" -> ObservationShapeOK(r)
    [] r.table \in Kinds -> TypedRowOK(r)
    [] OTHER -> TRUE

-----------------------------------------------------------------------------
(* Keys and references: what a row is known by, and what it refers to      *)

Identifiers(r) ==
  CASE r.table = "set" -> {<<"set", r.digest>>}
    [] r.table = "key" -> {<<"key_at", r.digest, r.ordinal>>, <<"key", r.digest, r.key>>}
    [] r.table = "batch" -> {<<"batch", r.batch>>, <<"batch", r.batch, r.kind>>}
    [] r.table = "raw" -> {<<"raw", r.raw>>, <<"raw", r.raw, r.kind>>}
    [] r.table = "input" -> {<<"input", r.batch, r.ordinal>>, <<"input", r.batch, r.raw, r.ordinal>>}
    [] r.table = "observation" ->
         {<<"observation", r.event>>, <<"observation", r.event, r.kind>>, <<"observed", r.raw>>,
          <<"observation", r.event, r.subject, r.kind, r.session>>}
    [] r.table \in Kinds -> {<<r.table, r.event>>}
    [] r.table = "normalized" ->
         {<<"normalized", r.batch, r.ordinal>>, <<"normalized", r.batch, r.kind, r.event>>}
    [] OTHER -> {}

References(r) ==
  CASE r.table = "key" -> {<<"set", r.digest>>}
    [] r.table = "raw" /\ r.kind = "subscription" -> {<<"set", r.values.keys.digest>>}
    [] r.table = "input" -> {<<"batch", r.batch, r.kind>>, <<"raw", r.raw, r.kind>>}
    [] r.table = "observation" -> {<<"raw", r.raw, r.kind>>}
    [] r.table = "connection" -> {<<"observation", r.event, r.subject, r.kind, r.session>>}
    [] r.table = "subscription" ->
         {<<"observation", r.event, r.subject, r.kind, r.session>>, <<"set", r.values.keys.digest>>}
    [] r.table = "normalized" -> {<<"batch", r.batch, r.kind>>, <<"observation", r.event, r.kind>>}
    [] OTHER -> {}

IdentifiersOf(rows) == UNION {Identifiers(r) : r \in rows}
Rows(rows, table) == {r \in rows : r.table = table}

-----------------------------------------------------------------------------
(* Triggers                                                                *)

\* The BEFORE triggers: an ordinal is below the declared count of its parent and an
\* instrument count is that of its set.  A parent they do not see is left to the reference.
DeclaredBy(rows, r) ==
  {b \in Rows(rows, "batch") : b.batch = r.batch /\ b.kind = r.kind}

KeyOrdinalOK(rows, r) ==
  \A s \in Rows(rows, "set") : s.digest = r.digest => r.ordinal < s.count

InstrumentCountOK(rows, r) ==
  \A s \in Rows(rows, "set") : s.digest = r.values.keys.digest => r.values.keys.count = s.count

InputOrdinalsOK(rows, r) ==
  \A b \in DeclaredBy(rows, r) : r.ordinal < b.input /\ r.first < b.input

NormalizedOrdinalOK(rows, r) ==
  \A b \in DeclaredBy(rows, r) : r.ordinal < b.normalized

BeforeInsertOK(rows, r) ==
  CASE r.table = "key" -> KeyOrdinalOK(rows, r)
    [] r.table \in {"raw", "subscription"} /\ r.kind = "subscription" -> InstrumentCountOK(rows, r)
    [] r.table = "input" -> InputOrdinalsOK(rows, r)
    [] r.table = "normalized" -> NormalizedOrdinalOK(rows, r)
    [] OTHER -> TRUE

\* The keys of a set are all there, at their ordinals, sorted, and make its digest.
SetIntegrity(rows, s) ==
  LET keys == {k \in Rows(rows, "key") : k.digest = s.digest}
  IN  /\ Cardinality(keys) = s.count
      /\ {k.ordinal : k \in keys} = 0..(s.count - 1)
      /\ \A k, l \in keys : k.ordinal < l.ordinal => k.key < l.key
      /\ \A k \in keys : s.payload[k.ordinal + 1] = k.key /\ s.digest[k.ordinal + 1] = k.key

InputsOf(rows, b) == {r \in Rows(rows, "input") : r.batch = b}

\* Mutant: the duplicates are not counted, nor the inputs with them.
InputsUncounted(rows, b) ==
  LET inputs == InputsOf(rows, b.batch)
  IN  /\ Cardinality({r \in inputs : ~r.duplicate}) = b.unique
      /\ Cardinality({r.raw : r \in inputs}) = b.unique

\* The inputs of a batch are all there, as many unique and duplicate ones as
\* declared, and the first occurrence of each is the first.
InputsIntegrity(rows, b) ==
  LET inputs == InputsOf(rows, b.batch)
      duplicates == {r \in inputs : r.duplicate}
  IN  /\ Cardinality(inputs) = b.input
      /\ {r.ordinal : r \in inputs} = 0..(b.input - 1)
      /\ Cardinality(inputs \ duplicates) = b.unique
      /\ Cardinality(duplicates) = b.duplicate
      /\ Cardinality({r.raw : r \in inputs}) = b.unique
      /\ \A r, f \in inputs : f.raw = r.raw /\ f.ordinal = r.first =>
           ~f.duplicate /\ f.first = f.ordinal

\* Mutant: the observations are expected at the places of the inputs.
NormalizedAtInputs(rows, b) ==
  LET members == {r \in Rows(rows, "normalized") : r.batch = b.batch}
      firsts == {r \in InputsOf(rows, b.batch) : ~r.duplicate}
  IN  /\ Cardinality(members) = b.normalized
      /\ \A m \in members : \E f \in firsts : \E o \in Rows(rows, "observation") :
           m.ordinal = f.ordinal /\ o.event = m.event /\ o.raw = f.raw

\* The observations of a batch are those of its unique inputs, in that order.
NormalizedIntegrity(rows, b) ==
  LET members == {r \in Rows(rows, "normalized") : r.batch = b.batch}
      firsts == {r \in InputsOf(rows, b.batch) : ~r.duplicate}
      Place(f) == Cardinality({g \in firsts : g.ordinal < f.ordinal})
  IN  /\ Cardinality(members) = b.normalized
      /\ {m.ordinal : m \in members} = 0..(b.normalized - 1)
      /\ \A f \in firsts : \E m \in members, o \in Rows(rows, "observation") :
           m.ordinal = Place(f) /\ o.event = m.event /\ o.kind = m.kind /\ o.raw = f.raw

\* Mutant: an observation may be without its subtype row.
SubtypeAtMostOne(rows, o) ==
  \A kind \in Kinds :
    Cardinality({t \in Rows(rows, kind) : t.event = o.event}) <= IF kind = o.kind THEN 1 ELSE 0

\* An observation has one subtype row, of its kind.
SubtypeIntegrity(rows, o) ==
  \A kind \in Kinds :
    Cardinality({t \in Rows(rows, kind) : t.event = o.event}) = IF kind = o.kind THEN 1 ELSE 0

\* What runs at the commit, for a row inserted by the transaction.
DeferredOK(rows, r) ==
  CASE r.table = "set" -> SetIntegrity(rows, r)
    [] r.table = "batch" -> InputsIntegrity(rows, r) /\ NormalizedIntegrity(rows, r)
    [] r.table = "input" -> <<"input", r.batch, r.raw, r.first>> \in IdentifiersOf(rows)
    [] r.table = "observation" -> SubtypeIntegrity(rows, r)
    [] OTHER -> TRUE

-----------------------------------------------------------------------------
(* Transactions                                                            *)

VisibleTo(w) == committed \cup written[w]

Rollback(w) ==
  /\ written' = [written EXCEPT ![w] = {}]
  /\ checking' = [checking EXCEPT ![w] = NoRow]
  /\ UNCHANGED committed

\* An INSERT up to its index entries.  It waits while another transaction holds one
\* of its unique keys; a refusal ends the transaction.
InsertRow(w, r) ==
  /\ checking[w] = NoRow /\ r \notin VisibleTo(w)
  /\ \A x \in Writers \ {w} : Identifiers(r) \cap IdentifiersOf(written[x]) = {}
  /\ IF /\ RowOK(r) /\ BeforeInsertOK(VisibleTo(w), r)
        /\ Identifiers(r) \cap IdentifiersOf(VisibleTo(w)) = {}
     THEN /\ written' = [written EXCEPT ![w] = @ \cup {r}]
          /\ checking' = [checking EXCEPT ![w] = r]
          /\ UNCHANGED committed
     ELSE Rollback(w)
  /\ UNCHANGED <<workload, trail>>

\* The references are checked at the end of the INSERT.
CheckReferences(w) ==
  /\ checking[w] # NoRow
  /\ IF References(checking[w]) \subseteq IdentifiersOf(VisibleTo(w))
     THEN checking' = [checking EXCEPT ![w] = NoRow] /\ UNCHANGED <<committed, written>>
     ELSE Rollback(w)
  /\ UNCHANGED <<workload, trail>>

CommitRows(w) ==
  /\ checking[w] = NoRow /\ written[w] # {}
  /\ IF \A r \in written[w] : DeferredOK(VisibleTo(w), r)
     THEN /\ committed' = VisibleTo(w)
          /\ written' = [written EXCEPT ![w] = {}]
          /\ UNCHANGED checking
     ELSE Rollback(w)
  /\ UNCHANGED <<workload, trail>>

\* A crash, or the end of a deadlock between inserts.
AbortRows(w) ==
  /\ written[w] # {}
  /\ Rollback(w)
  /\ UNCHANGED <<workload, trail>>

\* A source reports an event that continues the sequence.
Report(e) ==
  /\ Len(trail) < MaxTrail
  /\ ValidEvent(e) /\ ValidSequence(e.kind, Append(trail, e))
  /\ \A i \in DOMAIN trail : trail[i].kind = e.kind
  /\ trail' = Append(trail, e)
  /\ UNCHANGED <<committed, written, checking, workload>>

LifecycleInit ==
  /\ committed = {}
  /\ written = [w \in Writers |-> {}]
  /\ checking = [w \in Writers |-> NoRow]
  /\ workload \in DOMAIN Workloads
  /\ trail = <<>>

\* Reports change no row: the model follows them while nothing is written.
LifecycleNext ==
  \/ /\ trail = <<>>
     /\ \E w \in Writers : \/ \E r \in Workloads[workload][w] : InsertRow(w, r)
                           \/ CheckReferences(w)
                           \/ CommitRows(w)
                           \/ AbortRows(w)
  \/ /\ committed = {} /\ \A w \in Writers : written[w] = {}
     /\ \E e \in Reports : Report(e)

LifecycleSpec == LifecycleInit /\ [][LifecycleNext]_lifecycleVars

-----------------------------------------------------------------------------
InputAt(b, n) == CHOOSE r \in InputsOf(committed, b.batch) : r.ordinal = n

\* A committed set has its keys, and a committed batch has the inputs and the
\* observations that normalization makes of some sequence of events, whatever
\* rows its own and other transactions tried to add, then or since.  A row at an
\* ordinal past the declared count is not part of them: an INSERT whose trigger
\* ran before the parent was committed and whose reference was checked after it
\* leaves one (the four constraint triggers of migration 20260804_04).
AggregatesComplete ==
  /\ \A s \in Rows(committed, "set") : \A i \in 1..s.count : KeyRow(s.digest, i) \in committed
  /\ \A b \in Rows(committed, "batch") :
       LET inputs == [i \in 1..b.input |-> InputAt(b, i - 1).raw]
           FirstAt(i) == CHOOSE j \in 1..i : inputs[j] = inputs[i] /\ \A k \in 1..(j - 1) : inputs[k] # inputs[i]
           uniques == Sorted({i \in 1..b.input : FirstAt(i) = i})
       IN  /\ 0..(b.input - 1) \subseteq {r.ordinal : r \in InputsOf(committed, b.batch)}
           /\ \A i \in 1..b.input : InputAt(b, i - 1).first = FirstAt(i) - 1
           /\ b.unique = Len(uniques)
           /\ \A n \in 1..b.unique : \E m \in Rows(committed, "normalized"), o \in Rows(committed, "observation") :
                /\ m.batch = b.batch /\ m.ordinal = n - 1
                /\ o.event = m.event /\ o.raw = inputs[uniques[n]]

\* A committed observation has exactly one typed row, in the table of the kind of
\* its raw event, which no other observation interprets.
OneTypedObservation ==
  \A o \in Rows(committed, "observation") :
    /\ Cardinality({t \in committed : t.table \in Kinds /\ t.event = o.event}) = 1
    /\ \E r \in Rows(committed, "raw") : \E t \in Rows(committed, r.kind) :
         r.raw = o.raw /\ t.event = o.event
    /\ \A p \in Rows(committed, "observation") : p.raw = o.raw => p = o

\* A transaction that wrote exactly what normalization makes of a batch is not
\* refused at its commit, and its events have rows that pass the checks.
CompleteBatchesCommit ==
  \A w \in Writers : \A b \in Batches :
    /\ written[w] # {} /\ checking[w] = NoRow
    /\ BatchRow(b) \in written[w] /\ written[w] \subseteq RowsOfBatch(b)
    /\ RowsOfBatch(b) \subseteq VisibleTo(w)
    => \A r \in written[w] : DeferredOK(VisibleTo(w), r)

\* The tables and the domain agree on what an event is: no committed event is one
\* the constructors of lifecycle.py refuse, and none they accept is refused.
SchemaAgreesOnEvents ==
  /\ \A r \in Rows(committed, "raw") : ValidEvent(r.values)
  /\ \A i \in DOMAIN trail : RawRowOK(RawRow(trail[i])) /\ TypedRowOK(TypedRow(trail[i]))

\* In an accepted sequence no identity occurs twice, so that it is its own batch of
\* unique events; a connection session never reports again after another began; and
\* a subscription keeps its instruments until it has ended.
SequencesHaveOneLife ==
  /\ ValidBatch(trail) /\ UniqueEvents(trail) = trail
  /\ \A i, j, k \in DOMAIN trail : i < j /\ j < k /\ trail[i].kind = "connection" =>
       (trail[i].session = trail[k].session => trail[j].session = trail[i].session)
  /\ \A i, j \in DOMAIN trail : trail[i].kind = "subscription" /\ trail[i].scope = trail[j].scope =>
       trail[i].keys = trail[j].keys /\ trail[i].session = trail[j].session
=============================================================================
