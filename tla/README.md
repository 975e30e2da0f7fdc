# A TLA+ model of the QuantKynd gamma scalper

The repository is a Python research system around NIFTY options: an immutable,
point-in-time database of instruments and market events in PostgreSQL, a live
market-data service for browsers, and a deterministic simulator of hedged option
positions. This directory models its stateful core, checks it with TLC and proves
its main safety properties with TLAPS. Paths below are relative to
`backend/app/`.

## Inventory

| Component | State | Operations | Hard behaviour | Correct when | Module |
|---|---|---|---|---|---|
| Temporal records (`instruments/temporal_records.py`) | sets of immutable records | resolve at a market and a knowledge cutoff | branches, equal times, missing targets | one answer per cutoff | TemporalRecords |
| Catalogue ingestion (`services/catalogue_ingestion_service.py`) | catalogue, instrument, version, mapping, record, run and membership tables | validate, dry-run, commit | concurrent processes, a snapshot older than the lock, lost answers, crashes, the clock | one history per scope, exact replay, success is durable | CatalogueIngestion |
| Subject resolver (`services/catalogue_market_subject_resolver.py`) | none | `resolve_many` | reads while catalogues are committed | answers are reproducible, reasons are the declared ones | MarketSubjects |
| Frame normalization (`market_data/upstox/v3_normalizer.py`, `market_data/normalization`) | none | a captured frame to events and failures | one bad entry among good ones, limits | every result can be stored | FrameNormalization |
| Market-event persistence (`market_data/persistence`, `persistence/postgres/repositories.py`) | frames, results, events, failures and their members | persist a frame's result, scan, load | shared lock stripes, snapshots, replay, crashes, a catalogue committed meanwhile | one result per frame, for good, and all of it | MarketEvents, ArchiveSchema, EventArchive |
| Lifecycle events (`market_data/normalization/lifecycle.py`, migration 04) | batches, observations, instrument sets | validate a sequence, normalize a batch, insert its rows | duplicates, reconnects, triggers under READ COMMITTED | complete batches only, one rule in two languages | LifecycleEvents, LifecycleArchive |
| Point-in-time views (`market_data/point_in_time.py`) | none | an option chain at two cutoffs | late corrections, assessments and listings | no look-ahead, nothing silently lost | PointInTime |
| Live coordinator (`market_data/coordinator.py`) | entries with phase, listeners and readiness; transport state; queues | subscribe, unsubscribe, message and state callbacks, stop | tasks interleaving at awaits, cancellation, full queues | no orphan, one upstream call, everyone answered | LiveSubscriptions, LiveDelivery |
| Live provider (`market_data/upstox/streamer.py`) | streamer, connected event, active keys | start, stop, subscribe, unsubscribe, open | timeouts, threads that outlive tasks, reconnects | what is subscribed is fed, what is not is not | LiveSubscriptions |
| Browser stream (`api/market_streams.py`) and quote store (`market_data/quote_store.py`) | one loop per connection; the last quote per key | accept, send, close; put, freshness, mark stale | state read across awaits, coalescing | news arrive, stale data is not shown as fresh | LiveDelivery |
| RV registry (`services/rv_registry.py`) | LRU of snapshots, per-key locks | get, refresh | expiry and midnight during a wait | the right exchange date | RvRegistry |
| Simulation (`simulation`, `hedging`, `execution`, `portfolio`, `attribution`) | clock, market, positions, cash, risk | enter, mark, hedge, exit, reconcile | long sequences, rounding, limits | ledger and positions agree, controls hold | GammaSimulation |
| Run stores (`simulation/run_store.py`, `services/rv_run_store.py`) | directories | create, list | two processes in one directory, kills | a completed run stays | RunStores |
| Broker authentication (`auth`, `api/auth.py`, `services/connection_state.py`) | token file, connection flag | login, callback, status, disconnect | worker threads | flag and token agree | none |
| Research, option pricing, configuration, HTTP clients, restore checks, CLI | none worth modelling | | floating point and I/O | | none |

How they meet: ingestion writes the tables that the resolver reads, normalization
binds quotes to what the resolver answers, and persistence checks that binding
again in its own transaction. The coordinator calls the provider for the first and
last subscriber of a key, the provider's threads call back into the event loop, and
a stream combines its queue, the quote store and a snapshot of the registry.

`PROJECT.json` lists each component with its sources and status, and, under
`hazards`, the places where they can go wrong with the properties that would show it.

## What is modelled

### TemporalRecords

`temporal_records.py` as operators over sets of records. A record identity is the
hash of all its fields, so a record is its own identity, and `supersedes` is the
set of the one record superseded, empty for NULL. `ValidGraph` is
`_validated_visible_graph`, `KnowledgeLeaves` is `resolve_temporal_knowledge_leaf`
and `EligibleLeaves` is `resolve_temporal_state`; a result with more than one
element stands for `AmbiguousPointInTimeResultError`. `IsHistory` is the shape the
rest of the project shows the tables to have: each record supersedes the one
recorded immediately before it.

### CatalogueIngestion

One action per step of `ingest_provider_catalogue` whose effect others can see.

| Code | Actions |
|---|---|
| parsing, `PostgresUnitOfWork.__aenter__`, the lock statement | `Invoke` takes the snapshot, `AcquireLock` obtains the lock |
| existing run of the key | `Replay` |
| `recorded_at`, `_build_transition_plan` | `Plan` |
| `_dry_run` | `DryRun` |
| the writes and `commit` | `Commit`, `FailWrite` |
| `_result` | `Return` |
| the `except` clause, `_load_accepted_idempotent` | `LoadAccepted` |
| a lost connection, a dead process, the clock | `LoseConnection`, `Crash`, `Tick` |

The point of the model is the transaction. `pg_advisory_xact_lock` is the first
statement of a REPEATABLE READ transaction, so the snapshot exists before the
lock is held. `snapshot[i]` is what the reads of `_build_transition_plan` see and
`db` is what constraints and `ON CONFLICT` meet. The writes of a commit change
nothing another transaction sees until it commits, so they are one step, in which
`WritePhases` keeps the order of the failures: a row committed outside the
snapshot is a serialization failure (`Unserializable`), a taken successor is a
`TemporalSupersessionConflictError`, and only the former is looked up as a replay.

Identities are hashes of content, so contents stand for them. Parsing is
represented by what it guarantees (`ProfileAssumption`). The retained artifact
file and validate-only, which touches no database, are left out. A caller knows
the record identities of earlier results, so `Commands` offers any committed
catalogue record, or none, as predecessor.

### MarketSubjects

`resolve_many` over one database state, extending `CatalogueIngestion`. Each
answer is a record of the reason and the set of the version found.

### LiveSubscriptions

A task is one browser connection. Tasks interleave at their awaits only, so the
bodies under the coordinator's lock, which await nothing, are inside one step; an
await that cannot suspend (a future already done) is none. `pc` names the await a
task is at, and `call` is the SDK call it has made on a thread, which goes on when
the task is cancelled. The server's side (`link`, `feed`) is external: a request
reaches an open socket or raises, and a reconnected socket carries what
`_handle_open` asks for.

| Code | Actions |
|---|---|
| `MarketDataCoordinator.subscribe` | `SubscribeFirst`, `SubscribeNext`, `SubscribeRefused`, `Subscribed`, `SubscribeFailed`, `CancelFirst`, `WakeReady`, `WakeFailed` |
| `start` | `StartConnect`, `StartJoin`, `StartUnauthenticated`, `Started`, `ConnectRaises`, `JoinTimeout`, `ConnectTimeout`, `Disconnected` |
| `unsubscribe` of both | `Leave`, `Left`, `CancelLeave` |
| `stop`, `_handle_open` | `Stop`, `Open` |
| SDK and socket | `SdkCall`, `Drop`, `GiveUp` |

### LiveDelivery and RvRegistry

What a subscribed browser is shown. `RvRegistry` is `get` and `refresh` of the
snapshot registry, `LiveDelivery` extends it with the callbacks of the coordinator
and the loop of `_stream`, so that the registry's waits are inside an iteration.

| Code | Actions |
|---|---|
| `InstrumentRVServiceRegistry.get`, `refresh` | `GetHit`, `GetMiss`, `Refresh`, `AcquireLock`, `Resolved`, `Fetched`, `FetchFails`, `Answered` |
| the clock | `Expire`, `NewDay`, `QuoteAges` |
| `receive_provider_message`, `receive_provider_state`, `_publish` | `QuoteReceived`, `MarketStatusReceived`, `StateReceived` |
| `_stream` up to its loop | `OpenStream`, `SendSnapshot`, `FirstLook` |
| the wait of an iteration | `TakeQuote`, `TakeStatus`, `TakeError`, `TakeNothing` |
| the rest of an iteration, after each of its awaits | `Resume` (`AfterWait`, `AfterFreshness`, `AfterDate`), `Resync` |
| the end | `CloseStream`, `Disconnect` |

One stream of one key, whose subscription stays. A quote is its sequence, and the
overlay's numbers are left out. Bounds: HTTP callers of the registry call before the
stream does, though they may still wait for the lock it then asks for, and the feed
reports once the stream is open and no such request is outstanding: reports and
requests meet nowhere in the code but in the stream.

### FrameNormalization, ArchiveSchema, MarketEvents and EventArchive

`FrameNormalization` is what becomes of one decoded frame, as operators in the order
of the code's tests, because the first that fails is the reason stored. A feed is
its mode, its union, its depth and the reason of its first number that does not
convert. `ArchiveSchema` is the tables: checks, keys and references as predicates over
sets of rows. `MarketEvents` is the transaction.

| Code | Actions |
|---|---|
| `MarketFrameNormalizationService.normalize` with the resolver | `Normalize` |
| the lock statements of `persist_frame_result` | `RequestLocks` (the snapshot), `AcquireStripe` |
| its reads, comparisons and inserts | `Persist` (`PersistFailure` has the refusals in their order) |
| commit, a lost answer, a dead process | `Commit`, `Crash` |
| a catalogue committed meanwhile | `Ingest` |
| `scan_normalization_results` | `BeginScan`, `ReadPage` |

Hashes are the values hashed, 64 stripes are a function of the roots, and the
inserts of one transaction, which nobody else sees, are one step. `Ingest` adds what
one committed ingestion adds to the temporal records (CatalogueIngestion shows that
it is one step for readers). Chunks of large inserts and the ordinals of members,
which follow from the frame, are abstracted.

`EventArchive` is the promise without transactions: a frame is published once, and
each answer is true of what is published, in four actions. `MarketEvents!Archive` is
the refinement mapping and `ArchivePromise` the property: locks, snapshots, replays,
conflicts, crashes and lost answers implement it.

### LifecycleEvents and LifecycleArchive

`LifecycleEvents` is the Python side: what a valid connection or subscription event
is, which may follow which, and what a batch with duplicates normalizes to.
`LifecycleArchive` is the SQL side: nine tables with row checks, keys, BEFORE
triggers (`InsertRow`), references judged when the statement ends
(`CheckReferences`) and deferred constraint triggers (`CommitRows`). The application
has no writer of these tables yet, so writers insert the rows of a batch in any
order and wrong rows among them. `Report` is a source that extends a sequence.

### PointInTime

`reconstruct_option_chain` as operators named after its helpers, over `evidence`:
quotes, corrections, assessments and listings that arrive in any order (`Observe`,
`Assess`, `Relist`). Nothing under `src/` but tests calls it, so what is recorded is
external. A chain or its refusal is `Chain(evidence, query)`. Records that share an
identity are left out; they make every query raise, at whatever cutoff. The
knowledge time of a quote is `available_at`, as in the code: a quote recorded late
with an earlier availability enters earlier chains.

### GammaSimulation

`run_simulation` with money in paise, so that every rounding of the code is there.
Option prices, deltas and band widths are inputs (`Scenarios`), chosen anew at each
step; whole contracts are the unit of hedging.

| Code | Actions |
|---|---|
| entry, `approve_entry` | `Enter` |
| marks, `RiskManager` | `AtState` |
| the policy, its forced replacement, the futures fill | `Decide` (`Hedge`) |
| clock | `Advance` |
| liquidation and `reconcile` | `Exit` |

### RunStores

`create_run` of both stores, one step per file-system call: `CheckFinal`,
`ClearTemporary`, `MakeTemporary`, `WriteRunning`, `WriteArtifact`, `ArtifactsFail`,
`WriteComplete`, `PublishComplete`, `WriteFailed`, `RemoveFinal`,
`PublishFailed`, and `Kill` and `RunAgain` around them. Two processes with one
configuration share both directories of a simulation; a research run's id has
microseconds in it. The removal of a tree is one step.

## Runs

The runs of the catalogue use `MCCatalogueIngestion`, those of subscriptions
`MCLiveSubscriptions`.

Every file has the approved underlying. `a1` lists o1 under key k1, `a2` changes
the metadata of o1 and adds o2, `a3` lists o2 under k1 and `a4` lists o1 under k2.
Two of them suffice for a shared row, a new root and a changed version to race; three
invocations suffice for two to wait with old snapshots while one commits. Times
are two values, a record's and its target's; longer chains of records are the subject
of the theorem on `EveryCutoffResolves`. Idempotency keys bound the number of commits.

| Run | Instance | Shows |
|---|---|---|
| `cat_history` | 3 calls, 3 keys, `a1` `a3` `a4`, 1 interval, 2 times, clock set back | `TypeOK`; one history per scope (`CatalogueHistory`, `EntityHistories`); `KeyBoundOnce`; commits only from current rows; knowledge times follow commits |
| `cat_answers` | 3 calls, 3 keys, `a1`, 3 intervals, 2 times | `EveryCutoffResolves`: no invalid or ambiguous point-in-time query; `AcceptedIsDurable`; `AcceptedNeverRefused` |
| `cat_effect` | 2 calls, both modes, 2 keys, `a1` `a4`, 2 intervals, 2 times, fairness | `CurrentCatalogueResolves`: a catalogue takes effect as a whole; `EveryCallEnds` |
| `subj_past`, `subj_declared` | 2 calls, `a1` `a2` `a4`, 2 intervals, 2 times | violations, below |
| `live_subscriptions` | 3 connections, 2 instruments, capacity 1, fairness | `TypeOK`, `UsingIsListening`, `NoOrphanListener`, `OneSubscriber`, `WaitersAnswered` |
| `live_overtaken`, `live_leak` | 2 connections, 1 instrument | violations, below |
| `market_events` | 2 calls, 3 frames (two captures of one identity, one status frame), 2 catalogues, pages of 1; apart from it 2 writers and sequences of 4 events | below |
| `events_exact_writers` | the same | violation, below |
| `services` | 1 stream and 1 request, 2 keys, 2 quotes, 1 report, 2 dates, a queue of 2; 5 market states, 5 policies, 3 clocks; 2 processes, 2 artifacts; 3 of 9 quotes, 9 assessments | below |
| `live_stale` | 1 stream, 1 key, 1 date | violation, below |

`MCMarketEvents` and `MCServices` check parts that share no state in one run: a
behaviour has steps of one part while the others stay as they began, which reaches
the sum of their states and not the product.

`market_events`, on frames: whatever the order of stripes, snapshots, crashes and
catalogues, a stored result loads as it was computed (`AggregatesLoad`), its quotes
are bound to what was known at their own cutoff (`ProvenanceHolds`), what
adoption accepts the observation's constructor accepts (`AcceptedQuotesAreValid`),
the tables refuse no result but the one below (`SchemaAdmits`), pages miss
nothing that was there when the scan began (`ScanIsComplete`), nobody waits in a
circle (`NoCircularWait`), and the archive implements its promise (`ArchivePromise`).
Two frames with one identity give replay and conflict, and two whose roots meet in
the same stripes in opposite orders give the circle its chance. The reader of pages
turns one only while no catalogue is committed and a call is about to commit or none
is under way (`ReaderTurn` and `ReaderAside` in `MCMarketEvents`): it meets calls only in
what they commit. `MarketEvents` itself has no such bound, and the theorem on
`ScanIsComplete` is about every moment.
On lifecycle rows: declared ordinals are complete at a commit
(`AggregatesComplete`), observations have the one typed row of their kind
(`OneTypedObservation`), a complete batch is not refused (`CompleteBatchesCommit`),
SQL accepts an event exactly when Python does (`SchemaAgreesOnEvents`), and a valid
sequence has one life per scope (`SequencesHaveOneLife`). A batch with a duplicate, an
instrument set of two keys and one past the limit of its mode, wrong ordinals, counts
and flags are the inputs.

`services`: `QuoteIsShown`, `FailureCloses` and `StaleIsTold` say that news reach the
browser, the first two unless the queue dropped an event, and `ServiceIsOfCallDay`
that no snapshot is older than the call it answers. `AccountsAgree`
compares the ledger with the positions within the roundings made,
`ExposureControlled` says that a hedged step ends within the limits or forces an
exit that leaves nothing open, `SessionsAddUp` that the results of the sessions are
the whole result. `PublishedRunsStand`: a completed run never changes. `NoLookahead`
and `CorrectionsKeepContracts` are about chains at cutoffs. Two quotes and one
report are a pending quote overtaken by another and by a failure; two dates are one
midnight; hedging limits are small enough for policies to exceed them; three quotes
are a contract's correction, its own correction and a circle.

Three connections are an owner, one that waits for it and one that comes after a
failure or tries the other instrument. 2 calls and 3 files are enough for the
catalogue's violations, each of which needs two commits at most.

Invocations, connections, calls and runs are used once, so the systems stop and
deadlock is not checked. Calls are symmetric, and keys are, where a run has no
liveness property.

`PROJECT.json` names for every property a mutant of the code's definition that
breaks it; the mutated operators stand before the ones they replace, marked
`Mutant`.

### Fairness

`CatalogueIngestion!FairSpec`: a call that has been made runs on (weak fairness of
its steps). PostgreSQL grants the advisory lock when its holder's transaction
ends. Nobody has to call, the clock need not move, and deaths are not fair.

`LiveSubscriptions!FairSpec`: the event loop runs what is ready, waits have the
timeout of `asyncio.wait_for`, and a thread ends (weak fairness of `Progress`).
`asyncio.Lock` wakes its waiters in order, hence strong fairness of entering
`start`. Sockets and users are not fair.

`LiveDelivery!DeliveryFairness`: the loop runs what is ready and every wait has a
timeout (weak fairness of `StreamStep`); the due time of a pending quote does not
move, so an iteration that finds it due comes (strong fairness of `Iterate(TRUE)`);
the history request answers or times out (`RegistryProgress`). Feeds, clocks and
browsers are not fair. The other modules have no liveness property.

### Where the code and the documents differ

* `subj_past`: `recorded_at` is read before the commit, so a commit changes what
  an already past knowledge cutoff resolves to.
* `subj_declared`: an instrument listed under a new key leaves the old key's
  mapping effective with the old version, and the batch ends with a
  `PersistenceIntegrityError` instead of a declared reason.
* `live_overtaken`: the last leaver's unsubscribe call follows the next
  subscriber's subscribe call, which leaves a subscribed entry without a feed.
* `live_leak`: cancelling a first subscriber during its upstream call leaves the
  key in the feed without an entry.
* `events_exact_writers`: of two calls that persist the same result at once, the
  loser has a snapshot from before the winner's commit; it does not find the rows and
  its insert raises `IntegrityError`, where the design has it return.
* `live_stale`: a quote that turns stale while the first payload is sent is the
  baseline of the later comparisons, and the browser keeps it as fresh.

Further, seen while modelling and kept out of what the properties claim:

* A feed with more than 30 depth levels fails with `depth_limit_exceeded`, and the
  failure row breaks its own CHECK of 0 to 30: the whole result cannot be stored.
  `SchemaAdmits` says that it is the only one.
* Under READ COMMITTED a lifecycle row past the declared count may pass its BEFORE
  trigger before its parent commits and its reference after; the comment at
  migration 04:1606 excludes it. `AggregatesComplete` is of the declared ordinals.
* No code compares lifecycle events across batches.
* A status that changes and changes back during an iteration can leave the browser at
  the one in between; a full queue may drop a quote's event or the failure that
  closes the stream; midnight during the first payload skips the day's new snapshot.
* A clock set back between the start of a call and its lock makes a call of a command
  that was accepted meanwhile fail, since its start is later than the record's time.
* Two processes with one simulation configuration may publish each other's directory
  with a manifest `running`, after which the run is refused for ever.
  `PublishedRunsStand` claims a whole run only of a process that ran alone.

## Proofs

The theorems hold for every value of the constants that satisfies the named
assumptions of the modules (`CommandAssumption`, `ProfileAssumption`,
`NobodyAssumption`, `CapacityAssumption`, `NoTaskAssumption`, `RegistryAssumption`,
`DeliveryAssumption`, `ArchiveAssumption`, `MessagesAssumption`,
`ListingsAssumption`, `LifecycleAssumption`, `PointInTimeAssumption`,
`SimulationAssumption`, `ArtifactAssumption`). These give constants their types, and say what parsing
guarantees, that messages and batches are finite and what columns a row has. The runs
evaluate all of them.

### Records and catalogues

`TemporalRecordsProofs` is about histories, the shape of a scope's records. Appending
a later record that supersedes the leaf yields a history (`HistoryAppend`), what is
known at any cutoff of a history is a history (`VisibleHistory`), it is a valid graph
(`HistoryIsValid`) with one knowledge leaf and at most one eligible one
(`OneKnowledgeLeaf`, `OneEligibleLeaf`), and the ancestors of a record are the earlier
ones (`EarlierAreAncestors`, `AncestorsAreEarlier`). They replace an induction along
`supersedes` by the order of times: a least time at which a claim fails is led to a
contradiction (`LeastNatural`).

`CatalogueIngestionProofs` proves `TypeOK`, `CatalogueHistory`, `EntityHistories`,
`CommitOnFreshSnapshot`, `KnowledgeFollowsCommitOrder`, `KeyBoundOnce`,
`AcceptedIsDurable`, `EveryCutoffResolves` and `CurrentCatalogueResolves`. None of
them is inductive: what makes a plan from an old snapshot harmless is that it cannot be
written, which none of them says. `IInv` has three parts.

* `DatabaseInv`, of the committed rows and of every snapshot: the records of each
  scope are a history; the underlying's row exists as soon as a catalogue record
  does; every record of any kind has the time of some catalogue record.
* `Behind` relates a snapshot to the database: the catalogue records it lacks are
  all later than those it has.
* `InvocationInv`: a snapshot in use is the committed rows, or lacks a catalogue
  record (the catalogue records tell how old it is); who is past `AcquireLock`
  holds the lock; who writes has a plan that was not rejected.

`WritableIsFresh` is the heart. Let a snapshot lack a catalogue record. If it has
none at all, the planned catalogue is a second root; no unique index excludes that,
but its underlying's row was inserted by a transaction outside the snapshot
(`ProfileAssumption` says every catalogue has it), and PostgreSQL reports a
serialization failure. Otherwise the planned record supersedes the latest record of
the snapshot, which has a successor in the database, and the unique index refuses
it. So a commit is made from current rows (`CommitsAreFresh`), its records append
to histories at their leaves, later than everything committed (`KnowledgeIsOrdered`,
`HistoryAppend`), and the test of a key's binding was made on current rows.
`KeysAreBoundOnce` and `SuccessIsDurable` add to `IInv` the bound keys, and the runs
that accepted results name. `EveryCutoffResolvesHolds` follows from the histories for
chains of any length. `CurrentCatalogueResolvesHolds` needs one more invariant,
`WholeCatalogues`: with every catalogue record a version and a mapping of each of its
rows were recorded at its time.

`AcceptedIsNeverRefused` proves `AcceptedNeverRefused` for a clock that is not set back
(`~StepBack`). Set back between the start of a call and its lock, the clock makes the
start later than the time of a replay's record, and the replay is refused. `RetryInv`
is of a call whose command was accepted while it ran. Its snapshot may miss the accepted
run; then it misses the run's catalogue record too (every run has one of its own), so
that the write meets a serialization failure before any record is written, never a
`supersession_conflict`. And its plan is that of the run (`RetryPlansAlike`): the record
that the command supersedes was the latest one when the run was planned, and a snapshot
that has the run's record finds the run.

### The live service

`LiveSubscriptionsProofs` proves `TypeOK`, `UsingIsListening`, `NoOrphanListener` and
`OneSubscriber`. `SubscriptionsInv` relates tasks and entries: a task inside the
provider owns the entry of its key, which is subscribing (`OwnersSubscribe`), and every
subscribing entry has its owner there (`SubscribingIsOwned`); a waiting task knows of
its entry exactly what the readiness it follows tells (`WaitersFollow`). Most actions
move inside the provider and change no entry (`InsideKeepsEntries`). The failures of
`live_overtaken` and `live_leak` are no contradiction: they are about the feed, these
theorems about the coordinator's tables.

`LiveDeliveryProofs` proves `ServiceIsOfCallDay` for any number of callers, keys,
entries and dates. The invariant orders the three dates a call reads
(`DatesOrdered`): when it began, before it waited for the lock, and after the
instrument was resolved; an entry is used only for the second of them. Every step
of the composed system is shown to be a step of the registry or to leave it alone.
`DeliveryTyped` proves `DeliveryTypeOK`: the cache never holds a key twice nor more than
its limit, the queue never more than its size, the browser is never shown a sequence or
a date that is still to come. `DeliverySound` adds that a lock has at most one holder, who is
awaiting it (`LocksSound`), and that a stream that awaits the registry has a call under way.

### Events

`MarketEventsProofs` proves every property of `MarketEvents` and the refinement.

* `BaseInv`: each call's result is one that normalization made of its frame under a
  catalogue then known (`CommandsOK`), and a call holds stripes in ascending order
  (`LocksOK`). From it follow `CallsNeverCircle` (who holds the highest stripe that a circle
  waits for would wait for a higher one) and `QuotesAreValid`.
* `ArchiveInv`: the tables are exactly the rows of the commands published, one for a
  frame identity (`ArchiveOK`); a transaction sees commands that were published
  (`ReadsOK`); who awaits a commit repeats what it has seen, or is the first
  for its frame and stays it, because it holds the stripes another call for it
  needs (`CommitsOK`). It gives `ResultsLoad`, `QuotesAreProvenanced`, `TablesAdmit`
  and `ArchiveTyped`; `PersistAnswers` goes through the refusals in their order.
* `ScanInv` relates the pages read to the cursor, for any page limit and any commits
  between two pages (`ScansAreComplete`).
* `ArchiveKeepsPromise` shows that `MarketEvents` implements `EventArchive`:
  initial states map to initial states, a commit maps to a publication or a confirmation,
  a refused write to a refusal, and everything else to a stutter.

`LifecycleArchiveProofs` proves the five properties of `LifecycleArchive`.
`RowsInv`, `KeysInv` and `ReferencesInv` hold of the rows inserted by transactions in
any order: checked rows, no identifier twice among rows that can meet, no
reference to nothing. `OneTypedObservationHolds` and `AggregatesCompleteHolds` add what the
deferred triggers leave behind and that later commits do not touch it, since whoever
inserts a row of an aggregate refers to it. `CompleteBatchesCommitHolds` has the
counting: the unique events of a batch are as many as the places of first occurrences
(`UniquesAreFirsts`), ranks are ordinals (`SortedRank`, `RankSorted`), and rows of a
batch pass each trigger. `SchemaAgreesOnEventsHolds` compares the two languages case by case.
`SequencesHaveOneLifeHolds` reads the order of a sequence off its sorting, for any length
up to the limit.

### Chains and runs

`PointInTimeProofs` proves `EvidenceTypeOK` and, from it, `NoLookahead` for any records
and queries. The argument goes along the helpers: with and without what came after
the cutoff, the listing in effect, the assessments, the visible quotes, the targets of
corrections and their validity are the same, hence the chain is. It rests on
`EffectiveAt` being blind to a supersession after the cutoff, and on a
correction's target being judged at its own availability, which is before the cutoff.
`CorrectionsKeepContractsHolds` is a count. Were every visible quote of a contract
corrected, the corrections of a valid graph, no two of one target, would be quotes of
that contract and as many as there are, hence all of them, and all of them a circle,
which the code refuses (`OneIsNotCorrected`). It needs that quotes are finitely many
with an identity each (`EvidenceApart`), and that their order is total
(`OrderIsTotal`), which makes the newest one unique (`ContractKept`).

`SimulationProofs` proves `SessionsAddUp`, `ExposureControlled` and `AccountsAgree` of
`GammaSimulation` for any scenarios, costs, contract sizes and limits, and
`PublishedRunsStand` of `RunStores` for any number of processes and artifacts.

The invariant of the simulation, `SimulationInv`, keeps the books and the risk.
`Accounts` says of each instrument that its position holds what its trades add up to,
and that their cash, its cost at the average price and what it realized cancel but for
the units `RoundingUnits` counts. Neither `AccountsAgree` nor the absence of a residual is inductive
without it: both are about sums over instruments that one fill changes in one of
them. `FillApplied` is the arithmetic of `apply_fill`, one case for a fill that adds,
closes, or turns a position around; `GapMoves` that of the whole trade with the
roundings of its price, gross value and average; `BooksKept` carries a recorded fill,
and entering, hedging and exiting are sequences of them. Sums are a recursive
function, which the prover knows by its equation (`TotalIsSum`): that it has a
solution, and that amounts appended add what they are (`TotalOfMore`), is shown for a
least length where it fails. `RiskInv` has the session of the last mark, without which
a hedge could be counted in the wrong one, and a hedge left whenever one is decided.
`SimulationAssumption` says what the validated configuration says: costs are not
negative, sizes are positive.

`RunsInv` says what the temporary directory is at each place of `create_run` while
nobody else was in it, and that the directories of a research run have one process.

### Only model-checked

* Liveness (`EveryCallEnds`, `WaitersAnswered`, `QuoteIsShown`, `FailureCloses`,
  `StaleIsTold`), which is outside what the prover handles.
* The six violations, which are counterexamples.


## Not modelled

Parsing, hashing and serialization, floating-point mathematics (option pricing,
realized volatility, research statistics, the overlay, attribution by Greeks), HTTP
clients, command-line parsing and the browser front end have no state of their own
that interleaves; they appear only as assumptions or inputs, or not at all. Broker
authentication changes a token and a flag one after the other, and no document says
how they must agree. The guards of the operator tools read a database and compare
counts. Of the older migrations only the constraints of the catalogue tables are
there, and of migration 04 the append-only triggers are not: no modelled transaction
updates or deletes a row. The retained artifact files of an ingestion are left out.
