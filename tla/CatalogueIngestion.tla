-------------------------- MODULE CatalogueIngestion --------------------------
(***************************************************************************)
(* Concurrent invocations of ingest_provider_catalogue (backend/app/       *)
(* services/catalogue_ingestion_service.py) against one PostgreSQL         *)
(* database, through PostgresUnitOfWork and the repositories.              *)
(*                                                                         *)
(* Every unit of work is one REPEATABLE READ transaction.  Its first       *)
(* statement that takes a snapshot is the one that waits for the advisory  *)
(* lock, so the snapshot is older than the lock: whatever commits while    *)
(* the invocation waits is invisible to its reads and visible to the       *)
(* constraints its writes meet.                                            *)
(***************************************************************************)
EXTENDS TemporalRecords

CONSTANTS
  Invocations,   \* the calls of the command, each made once
  Keys,          \* idempotency keys
  Artifacts,     \* source files, by hash of their bytes
  Contents,      \* normalised catalogues, by hash
  Content,       \* [Artifacts -> Contents]
  Rows,          \* [Contents -> the set of rows [key, instrument, metadata] accepted]
  Underlying,    \* the instrument of the approved underlying row, in every catalogue
  Intervals,     \* effective intervals [from, until]
  Times,         \* the values of the wall clock
  Modes,         \* the modes run, of "commit" and "dry-run"
  StepBack,      \* TRUE when the wall clock may be set back
  Profile        \* the scope of the catalogue records: provider and profile

RowType == [key : UNION {{row.key : row \in Rows[c]} : c \in Contents},
            instrument : UNION {{row.instrument : row \in Rows[c]} : c \in Contents},
            metadata : UNION {{row.metadata : row \in Rows[c]} : c \in Contents}]

ASSUME CommandAssumption ==
  /\ Content \in [Artifacts -> Contents]
  /\ Times \subseteq Nat
  /\ StepBack \in BOOLEAN
  /\ Modes \subseteq {"commit", "dry-run"}

\* What the normaliser guarantees of an accepted file (_scan_profile, the
\* duplicate tests): it contains the approved underlying, and a provider key
\* occurs in one row.
ASSUME ProfileAssumption ==
  /\ Rows \in [Contents -> SUBSET RowType]
  /\ \A c \in Contents : \E row \in Rows[c] : row.instrument = Underlying
  /\ \A c \in Contents : \A r1, r2 \in Rows[c] : r1.key = r2.key => r1 = r2

VARIABLES
  clock,      \* the wall clock the application reads
  lock,       \* the holder of the provider and profile advisory lock
  db,         \* the committed rows, one field per table or family of tables
  pc,         \* where each invocation is
  command,    \* its command
  startedAt,  \* its started_at, NoTime when no transaction runs
  recordedAt, \* the accepted write timestamp, NoTime before it is read
  snapshot,   \* the rows its transaction sees, none when no transaction runs
  result      \* what the call returned or raised

vars == <<clock, lock, db, pc, command, startedAt, recordedAt, snapshot, result>>

CONSTANT Nobody, NoCommand

ASSUME NobodyAssumption == Nobody \notin Invocations

NoTime == 0

Kinds == {"catalogue_version", "instrument_version", "provider_mapping"}

EmptyDatabase ==
  [artifacts |-> {}, catalogues |-> {}, instruments |-> {}, versions |-> {},
   mappings |-> {}, records |-> [k \in Kinds |-> {}], runs |-> {}, memberships |-> {}]

-----------------------------------------------------------------------------
(* The rows a command stands for.  Identities are hashes of content: the   *)
(* content is the identity.                                                *)

CatalogueVersion(c) == [content |-> Content[c.artifact], interval |-> c.interval]

InstrumentVersion(c, row) ==
  [instrument |-> row.instrument, metadata |-> row.metadata, catalogue |-> CatalogueVersion(c)]

\* The identity of a mapping has the hash of its raw row too.  That differs only
\* when another file normalises to the same catalogue version, whose memberships
\* are refused (MembershipFailures).
Mapping(c, row) == [key |-> row.key, version |-> InstrumentVersion(c, row)]

Items(c) == Rows[Content[c.artifact]]

PlannedInstruments(c) == {row.instrument : row \in Items(c)}
PlannedVersions(c) == {InstrumentVersion(c, row) : row \in Items(c)}
PlannedMappings(c) == {Mapping(c, row) : row \in Items(c)}

OfScope(R, s) == {r \in R : r.scope = s}

\* The unsuperseded record of a scope in the rows D, if any.
Leaf(D, kind, s) == KnowledgeLeaves(OfScope(D.records[kind], s))

\* resolve_temporal_knowledge_leaf raises.
Unresolvable(D, kind, s) ==
  \/ ~ValidGraph(OfScope(D.records[kind], s))
  \/ \E r1, r2 \in Leaf(D, kind, s) : r1 # r2

\* The records an invocation writes, each superseding the leaf of its scope in
\* the rows D the plan was made from.
CatalogueRecord(c, t) == TemporalRecord(CatalogueVersion(c), Profile, t, c.supersedes)

\* Mutant: the predecessor of a version is not looked up.
RootVersionRecords(D, c, t) ==
  {TemporalRecord(v, v.instrument, t, {}) : v \in PlannedVersions(c)}

VersionRecords(D, c, t) ==
  {TemporalRecord(v, v.instrument, t, Leaf(D, "instrument_version", v.instrument)) :
     v \in PlannedVersions(c)}

\* Mutant: the predecessor of a mapping is not looked up.
RootMappingRecords(D, c, t) ==
  {TemporalRecord(m, m.key, t, {}) : m \in PlannedMappings(c)}

MappingRecords(D, c, t) ==
  {TemporalRecord(m, m.key, t, Leaf(D, "provider_mapping", m.key)) : m \in PlannedMappings(c)}

NewRecords(D, c, t) ==
  [k \in Kinds |-> CASE k = "catalogue_version" -> {CatalogueRecord(c, t)}
                     [] k = "instrument_version" -> VersionRecords(D, c, t)
                     [] k = "provider_mapping" -> MappingRecords(D, c, t)]

Run(c, t) == [key |-> c.key, command |-> c, catalogue |-> CatalogueRecord(c, t)]

\* A membership names the row outcome, hence the run, that produced it; its
\* identity leaves the run out.
NewMemberships(c, t) ==
  {[catalogue |-> CatalogueVersion(c), mapping |-> m, run |-> Run(c, t)] : m \in PlannedMappings(c)}

-----------------------------------------------------------------------------
(* _build_transition_plan: its reads, and when it raises                   *)

BoundInstruments(D, key) == {m.version.instrument : m \in {x \in D.mappings : x.key = key}}

\* Mutant: the binding of a provider key is not checked.
PlanRejectedUnbound(D, c) ==
  \/ c.supersedes # Leaf(D, "catalogue_version", Profile)
  \/ \E r1, r2 \in Items(c) : r1.instrument = r2.instrument /\ r1.metadata # r2.metadata

\* CatalogueConflictError, or the error of a leaf that cannot be resolved
PlanRejected(D, c) ==
  \/ Unresolvable(D, "catalogue_version", Profile)
  \/ c.supersedes # Leaf(D, "catalogue_version", Profile)
  \/ \E r1, r2 \in Items(c) : r1.instrument = r2.instrument /\ r1.metadata # r2.metadata
  \/ \E row \in Items(c) :
       \/ Unresolvable(D, "instrument_version", row.instrument)
       \/ Unresolvable(D, "provider_mapping", row.key)
       \/ BoundInstruments(D, row.key) \notin {{}, {row.instrument}}

-----------------------------------------------------------------------------
(* How a write fails.  S is the transaction's snapshot, D the committed    *)
(* rows, which nobody else changes while the advisory lock is held.        *)

\* INSERT ... ON CONFLICT DO NOTHING on a row that a transaction outside the
\* snapshot committed: PostgreSQL reports a serialization failure.
Unserializable(S, D, rows, table) == rows \cap (D[table] \ S[table]) # {}

\* Mutant: no unique constraint on the successor of a record.
SupersessionUnchecked(S, D, kind, r) ==
  \E p \in r.supersedes : p \notin S.records[kind] \/ r.recorded_at <= p.recorded_at

\* Mutant: a successor may be recorded at the time of its target.
SupersessionNotStrict(S, D, kind, r) ==
  \E p \in r.supersedes :
    \/ p \notin S.records[kind]
    \/ r.recorded_at < p.recorded_at
    \/ p \in Superseded(D.records[kind])

\* _insert_temporal_record: TemporalSupersessionConflictError.
SupersessionConflict(S, D, kind, r) ==
  /\ r \notin S.records[kind]
  /\ \E p \in r.supersedes :
       \/ p \notin S.records[kind]
       \/ p.scope # r.scope
       \/ r.recorded_at <= p.recorded_at
       \/ p \in Superseded(D.records[kind] \ {r})

RecordFailures(S, D, kind, records) ==
  {"supersession_conflict" : r \in {x \in records : SupersessionConflict(S, D, kind, x)}}
    \cup {"retry_as_replay" : r \in records \cap (D.records[kind] \ S.records[kind])}

\* Mutant: READ COMMITTED, where ON CONFLICT DO NOTHING meets no failure.
RowsReadCommitted(S, D, rows, table) == {}

RowFailures(S, D, rows, table) ==
  IF Unserializable(S, D, rows, table) THEN {"retry_as_replay"} ELSE {}

\* The run's primary key is the hash of its idempotency key.
RunFailures(S, D, c) ==
  IF \E run \in D.runs : run.key = c.key THEN {"retry_as_replay"} ELSE {}

\* A membership of this catalogue and provider key is stored already, for
\* another run: SemanticCollisionError or PersistenceIntegrityError.
MembershipFailures(S, D, c) ==
  IF \E m \in D.memberships : m.catalogue = CatalogueVersion(c)
  THEN {"retry_as_replay"} ELSE {}

\* The writes in program order.  The transaction ends with an error of the
\* first phase that has any.
WritePhases(S, D, c, t) ==
  <<RowFailures(S, D, {c.artifact}, "artifacts"),
    RowFailures(S, D, {CatalogueVersion(c)}, "catalogues"),
    RecordFailures(S, D, "catalogue_version", {CatalogueRecord(c, t)}),
    RowFailures(S, D, PlannedInstruments(c), "instruments"),
    RowFailures(S, D, PlannedVersions(c), "versions")
      \cup RecordFailures(S, D, "instrument_version", VersionRecords(S, c, t)),
    RowFailures(S, D, PlannedMappings(c), "mappings")
      \cup RecordFailures(S, D, "provider_mapping", MappingRecords(S, c, t)),
    RunFailures(S, D, c),
    MembershipFailures(S, D, c)>>

Writable(S, D, c, t) ==
  LET failures == WritePhases(S, D, c, t) IN \A n \in 1..8 : failures[n] = {}

WriteErrors(S, D, c, t) ==
  LET failures == WritePhases(S, D, c, t)
      Reached(n) == \A m \in 1..(n - 1) : failures[m] = {}
  IN  UNION {failures[n] : n \in {m \in 1..8 : Reached(m)}}

\* The database after the commit.
Committed(S, D, c, t) ==
  [artifacts   |-> D.artifacts \cup {c.artifact},
   catalogues  |-> D.catalogues \cup {CatalogueVersion(c)},
   instruments |-> D.instruments \cup PlannedInstruments(c),
   versions    |-> D.versions \cup PlannedVersions(c),
   mappings    |-> D.mappings \cup PlannedMappings(c),
   records     |-> [k \in Kinds |-> D.records[k] \cup NewRecords(S, c, t)[k]],
   runs        |-> D.runs \cup {Run(c, t)},
   memberships |-> D.memberships \cup NewMemberships(c, t)]

-----------------------------------------------------------------------------
Commands(D) ==
  [mode : Modes, key : Keys, artifact : Artifacts, interval : Intervals,
   supersedes : {{}} \cup {{r} : r \in D.records["catalogue_version"]}]

Init ==
  /\ clock \in {t \in Times : \A u \in Times : t <= u}
  /\ lock = Nobody
  /\ db = EmptyDatabase
  /\ pc = [i \in Invocations |-> "idle"]
  /\ command = [i \in Invocations |-> NoCommand]
  /\ startedAt = [i \in Invocations |-> NoTime]
  /\ recordedAt = [i \in Invocations |-> NoTime]
  /\ snapshot = [i \in Invocations |-> EmptyDatabase]
  /\ result = [i \in Invocations |-> "none"]

\* Mutant: the lock is a session lock, which outlives the transaction.
CloseKeepsLock(i) ==
  /\ UNCHANGED lock
  /\ snapshot' = [snapshot EXCEPT ![i] = EmptyDatabase]
  /\ startedAt' = [startedAt EXCEPT ![i] = NoTime]
  /\ recordedAt' = [recordedAt EXCEPT ![i] = NoTime]

\* The end of the transaction of i: its snapshot, its advisory lock if it holds
\* it, and the values only the transaction used go.
CloseTransaction(i) ==
  /\ lock' = IF lock = i THEN Nobody ELSE lock
  /\ snapshot' = [snapshot EXCEPT ![i] = EmptyDatabase]
  /\ startedAt' = [startedAt EXCEPT ![i] = NoTime]
  /\ recordedAt' = [recordedAt EXCEPT ![i] = NoTime]

Finish(i, outcome) ==
  /\ pc' = [pc EXCEPT ![i] = "done"]
  /\ result' = [result EXCEPT ![i] = outcome]
  /\ CloseTransaction(i)

\* The operator calls the command, knowing the identities of the catalogue
\* records earlier calls returned.  The artifact is parsed and planned, and the
\* transaction starts: SELECT pg_advisory_xact_lock takes the snapshot, then
\* waits.
Invoke(i) ==
  /\ pc[i] = "idle"
  /\ \E c \in Commands(db) : command' = [command EXCEPT ![i] = c]
  /\ startedAt' = [startedAt EXCEPT ![i] = clock]
  /\ snapshot' = [snapshot EXCEPT ![i] = db]
  /\ pc' = [pc EXCEPT ![i] = "waiting"]
  /\ UNCHANGED <<clock, lock, db, recordedAt, result>>

AcquireLock(i) ==
  /\ pc[i] = "waiting"
  /\ lock = Nobody
  /\ lock' = i
  /\ pc' = [pc EXCEPT ![i] = "locked"]
  /\ UNCHANGED <<clock, db, command, startedAt, recordedAt, snapshot, result>>

\* The accepted run of this idempotency key, in the rows D.
ExistingRuns(D, c) == {run \in D.runs : run.key = c.key}

\* Mutant: the digest of the accepted command is not compared.
ReplayAnyCommand(D, c) == "accepted"

\* A replay of an accepted key: the same command returns its run, any other is
\* refused.
ReplayOutcome(D, c) ==
  IF \A run \in ExistingRuns(D, c) : run.command = c THEN "accepted" ELSE "idempotency_conflict"

Replay(i) ==
  /\ pc[i] = "locked"
  /\ command[i].mode = "commit"
  /\ ExistingRuns(snapshot[i], command[i]) # {}
  /\ Finish(i, ReplayOutcome(snapshot[i], command[i]))
  /\ UNCHANGED <<clock, db, command>>

\* Mutant: the accepted write timestamp is not kept.
PlanWithoutTimestamp(i) ==
  /\ pc[i] = "locked"
  /\ ExistingRuns(snapshot[i], command[i]) = {}
  /\ ~PlanRejected(snapshot[i], command[i])
  /\ pc' = [pc EXCEPT ![i] = "writing"]
  /\ UNCHANGED <<clock, lock, db, command, startedAt, recordedAt, snapshot, result>>

\* The accepted write timestamp is read, the plan is made from the snapshot.
Plan(i) ==
  /\ pc[i] = "locked"
  /\ command[i].mode = "commit"
  /\ ExistingRuns(snapshot[i], command[i]) = {}
  /\ IF clock < startedAt[i] \/ PlanRejected(snapshot[i], command[i])
     THEN Finish(i, "rejected")
     ELSE /\ recordedAt' = [recordedAt EXCEPT ![i] = clock]
          /\ pc' = [pc EXCEPT ![i] = "writing"]
          /\ UNCHANGED <<lock, snapshot, startedAt, result>>
  /\ UNCHANGED <<clock, db, command>>

\* _dry_run: the plan alone, in a read-only transaction.
DryRun(i) ==
  /\ pc[i] = "locked"
  /\ command[i].mode = "dry-run"
  /\ Finish(i, IF PlanRejected(snapshot[i], command[i]) THEN "rejected" ELSE "planned")
  /\ UNCHANGED <<clock, db, command>>

\* Every write succeeds and the transaction commits.
Commit(i) ==
  /\ pc[i] = "writing"
  /\ Writable(snapshot[i], db, command[i], recordedAt[i])
  /\ db' = Committed(snapshot[i], db, command[i], recordedAt[i])
  /\ pc' = [pc EXCEPT ![i] = "committed"]
  /\ CloseTransaction(i)
  /\ UNCHANGED <<clock, command, result>>

Return(i) ==
  /\ pc[i] = "committed"
  /\ pc' = [pc EXCEPT ![i] = "done"]
  /\ result' = [result EXCEPT ![i] = "accepted"]
  /\ UNCHANGED <<clock, lock, db, command, startedAt, recordedAt, snapshot>>

\* Mutant: every failed write is raised, none is looked up as a replay.
FailWriteRaises(i) ==
  /\ pc[i] = "writing"
  /\ WriteErrors(snapshot[i], db, command[i], recordedAt[i]) # {}
  /\ Finish(i, "failed")
  /\ UNCHANGED <<clock, db, command>>

\* A write fails and the transaction is rolled back.  A supersession conflict
\* is raised to the caller; any other error is first looked up as a replay.
FailWrite(i) ==
  /\ pc[i] = "writing"
  /\ \E e \in WriteErrors(snapshot[i], db, command[i], recordedAt[i]) :
       IF e = "supersession_conflict"
       THEN Finish(i, e)
       ELSE /\ pc' = [pc EXCEPT ![i] = "fallback"]
            /\ CloseTransaction(i)
            /\ UNCHANGED result
  /\ UNCHANGED <<clock, db, command>>

\* _load_accepted_idempotent: a new transaction, without the lock.
LoadAccepted(i) ==
  /\ pc[i] = "fallback"
  /\ pc' = [pc EXCEPT ![i] = "done"]
  /\ result' = [result EXCEPT ![i] =
       IF ExistingRuns(db, command[i]) = {} THEN "failed" ELSE ReplayOutcome(db, command[i])]
  /\ UNCHANGED <<clock, lock, db, command, startedAt, recordedAt, snapshot>>

\* The connection is lost: PostgreSQL rolls back and releases the lock, or has
\* committed and the answer is lost.  The call looks itself up as a replay, a dry
\* run ends.
LoseConnection(i) ==
  /\ pc[i] \in {"waiting", "locked", "writing", "committed"}
  /\ IF command[i].mode = "dry-run"
     THEN Finish(i, "failed")
     ELSE /\ pc' = [pc EXCEPT ![i] = "fallback"]
          /\ CloseTransaction(i)
          /\ UNCHANGED result
  /\ UNCHANGED <<clock, db, command>>

\* The process dies, or loses the connection of the lookup: the caller learns
\* nothing.
Crash(i) ==
  /\ pc[i] \notin {"idle", "done", "crashed"}
  /\ pc' = [pc EXCEPT ![i] = "crashed"]
  /\ command' = [command EXCEPT ![i] = NoCommand]
  /\ CloseTransaction(i)
  /\ UNCHANGED <<clock, db, result>>

Tick ==
  /\ \E t \in Times : (t > clock \/ (StepBack /\ t < clock)) /\ clock' = t
  /\ UNCHANGED <<lock, db, pc, command, startedAt, recordedAt, snapshot, result>>

Step(i) ==
  \/ Invoke(i) \/ AcquireLock(i) \/ Replay(i) \/ Plan(i) \/ DryRun(i)
  \/ Commit(i) \/ Return(i) \/ FailWrite(i) \/ LoadAccepted(i)

Next == (\E i \in Invocations : Step(i) \/ LoseConnection(i) \/ Crash(i)) \/ Tick

Spec == Init /\ [][Next]_vars

\* A call runs on once it is made; nobody has to call, the wall clock need not
\* move, and a connection or a process may die at any time.
FairSpec == Spec /\ \A i \in Invocations : WF_vars(Step(i) /\ pc[i] # "idle")

-----------------------------------------------------------------------------
Databases == {db} \cup {snapshot[i] : i \in Invocations}

\* The type invariant.
TypeOK ==
  /\ clock \in Times
  /\ lock \in Invocations \cup {Nobody}
  /\ pc \in [Invocations -> {"idle", "waiting", "locked", "writing",
                            "committed", "fallback", "done", "crashed"}]
  /\ result \in [Invocations -> {"none", "accepted", "planned", "rejected", "failed",
                                 "idempotency_conflict", "supersession_conflict"}]
  /\ startedAt \in [Invocations -> Times \cup {NoTime}]
  /\ recordedAt \in [Invocations -> Times \cup {NoTime}]
  /\ \A i \in Invocations : pc[i] \notin {"idle", "crashed"} =>
       command[i].mode \in Modes /\ command[i].artifact \in Artifacts
  /\ \A D \in Databases, k \in Kinds : \A r \in D.records[k] : r.recorded_at \in Times

\* Two first catalogues never both become roots, a catalogue never gets two
\* successors, and knowledge times increase along the history, although each
\* invocation plans from a snapshot older than its lock (_build_transition_plan,
\* uq_catalogue_version_records_one_successor, ON CONFLICT of the shared rows).
CatalogueHistory == IsHistory(db.records["catalogue_version"])

\* The same for the versions of every instrument and the mappings of every
\* provider key, whose predecessors the caller does not name: they are read
\* from the snapshot by _build_transition_plan.
EntityHistories ==
  \A k \in Kinds : \A s \in {r.scope : r \in db.records[k]} :
    IsHistory(OfScope(db.records[k], s))

\* No point-in-time query is ever invalid or ambiguous: at every knowledge
\* cutoff the visible records of a scope form a valid graph with one current
\* leaf, and at every market cutoff one eligible leaf at most
\* (resolve_temporal_state, resolve_temporal_knowledge_leaf).
IntervalOf(k, r) == CASE k = "catalogue_version" -> r.sem.interval
                      [] k = "instrument_version" -> r.sem.catalogue.interval
                      [] k = "provider_mapping" -> r.sem.version.catalogue.interval

Eligible(k, R, market) ==
  {r \in R : IntervalOf(k, r).from <= market /\ market < IntervalOf(k, r).until}

MarketTimes == UNION {{v.from, v.until} : v \in Intervals}

EveryCutoffResolves ==
  \A k \in Kinds, known \in Times : \A s \in {r.scope : r \in db.records[k]} :
    LET R == OfScope(Visible(db.records[k], known), s)
    IN  /\ ValidGraph(R)
        /\ Cardinality(KnowledgeLeaves(R)) <= 1
        /\ \A market \in MarketTimes : Cardinality(EligibleLeaves(R, Eligible(k, R, market))) <= 1

\* A provider key is bound to one economic instrument for good
\* (resolve_provider_key_instrument_id and the reassignment errors).
KeyBoundOnce ==
  \A m1, m2 \in db.mappings : m1.key = m2.key => m1.version.instrument = m2.version.instrument

\* A transaction that planned from rows that are no longer current never
\* commits, although its snapshot is older than its lock.
CommitOnFreshSnapshot ==
  [][db' # db => \E i \in Invocations : lock = i /\ snapshot[i] = db]_vars

\* Transactions commit in the order of the accepted write timestamps of their
\* records, of every kind and scope: _commit reads the clock under the lock, and
\* _insert_temporal_record wants it later than the record it supersedes, whatever
\* the wall clock does.
KnowledgeFollowsCommitOrder ==
  [][\A k, l \in Kinds : \A old \in db.records[k], new \in db'.records[l] \ db.records[l] :
       old.recorded_at < new.recorded_at]_vars

\* An invocation that reports success has its own command's run in the
\* database, and no idempotency key has two runs.
AcceptedIsDurable ==
  /\ \A i \in Invocations : result[i] = "accepted" => \E run \in db.runs : run.command = command[i]
  /\ \A r1, r2 \in db.runs : r1.key = r2.key => r1 = r2

\* An invocation never reports an error for a command that has been accepted:
\* a retry and a concurrent exact replay end as a verified success
\* (_load_accepted_idempotent).
AcceptedNeverRefused ==
  [][\A i \in Invocations :
       result'[i] # result[i] /\ result'[i] \notin {"accepted", "planned"} /\ command[i].mode = "commit"
         => ~\E run \in db.runs : run.command = command[i]]_vars

\* Every call that is made ends: with an answer, or by dying.
EveryCallEnds ==
  \A i \in Invocations : pc[i] = "waiting" ~> pc[i] \in {"done", "crashed"}
=============================================================================
