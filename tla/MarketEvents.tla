---------------------------- MODULE MarketEvents ----------------------------
(***************************************************************************)
(* The append-only archive of captured frames: calls that normalise a      *)
(* frame and persist the result through MarketEventPersistenceService and  *)
(* PostgresUnitOfWork (persist_frame_result, backend/app/persistence/      *)
(* postgres/repositories.py), while catalogues are ingested and a reader   *)
(* scans the results page by page.                                         *)
(*                                                                         *)
(* A call is one REPEATABLE READ transaction.  Its first statement is the  *)
(* request of its first advisory lock, so its snapshot is older than every *)
(* lock it waits for.  All its reads and writes come after its last lock,  *)
(* which every writer of the same rows needs too: they are one step here,  *)
(* followed by the commit.                                                 *)
(***************************************************************************)
EXTENDS ArchiveSchema, TemporalRecords, FiniteSetsExt

CONSTANTS
  Calls,      \* the callers of the service
  Frames,     \* captured frames [id, bytes, basis, received, available, recorded]:
              \* id stands for the hash of session, order scope and order
  Messages,   \* [bytes -> the message they decode to]
  KindOf,     \* [instruments -> SubjectKinds]
  Listings,   \* the contents of catalogues: sets of [key, instrument]
  Cutoffs,    \* the instants of the cutoffs and of the catalogue records
  Stripe,     \* [lock roots of a frame -> stripe]
  PageLimit,  \* the limit of scan_normalization_results
  Nobody

Roots == {"raw_capture", "raw_frame", "normalization_result"}
FrameIds == {f.id : f \in Frames}
Stripes == {Stripe[<<root, f>>] : root \in Roots, f \in FrameIds}
LockStripeCount == 64

\* The clocks of a frame are instants, and there are LockStripeCount stripes.
ASSUME ArchiveAssumption ==
  /\ FrameIds \subseteq Nat \ {0} /\ Cutoffs \subseteq Nat \ {0}
  /\ \A f \in Frames : ValidCapture(f) /\ {f.received, f.available, f.recorded} \subseteq Nat
  /\ Stripe \in [Roots \X FrameIds -> 0..(LockStripeCount - 1)]
  /\ PageLimit \in Nat \ {0}
  /\ Nobody \notin Calls \cup Frames

\* A message has finitely many entries, and none under an absent key.
ASSUME MessagesAssumption ==
  \A f \in Frames : LET m == Messages[f.bytes] IN
    /\ IsFiniteSet(DOMAIN m.feeds) /\ IsFiniteSet(DOMAIN m.segments)
    /\ \A k \in DOMAIN m.feeds : m.feeds[k] \in Feeds /\ k # Null

\* A listing has rows [key, instrument], whose instruments have a kind.
ASSUME ListingsAssumption ==
  \A row \in UNION Listings :
    /\ row = [key |-> row.key, instrument |-> row.instrument]
    /\ KindOf[row.instrument] \in SubjectKinds

VARIABLES
  catalogue,  \* the committed temporal records, one for each ingestion
  archive,    \* the committed rows, one field per table
  stripes,    \* the holder of each advisory lock stripe
  call,       \* the state of each call
  scan        \* the reader: its cursor, what it has read, what was there when it began

vars == <<catalogue, archive, stripes, call, scan>>

EmptyArchive ==
  [frames |-> {}, results |-> {}, observations |-> {}, subtypes |-> {},
   event_members |-> {}, failures |-> {}, failure_members |-> {}]

NoResult == [frame |-> 0, events |-> {}, failures |-> {}, decoded |-> 0]

Idle == [pc |-> "idle", frame |-> Nobody, known |-> 0, result |-> NoResult,
         seen |-> EmptyArchive, records |-> {}, outcome |-> "none"]

-----------------------------------------------------------------------------
(* Catalogues, as a call sees them: the leaf of the records known at the   *)
(* cutoff, and the subject it gives to a provider key.                     *)

\* Mutant: records are read whatever their knowledge time.
LeafWhenever(records, known) == KnowledgeLeaves(records)

LeafAt(records, known) == KnowledgeLeaves(Visible(records, known))

Unresolved(reason) == [reason |-> reason, instrument |-> Nobody, kind |-> Nobody, records |-> {}]

SubjectAt(records, key, known) ==
  LET leaf == LeafAt(records, known)
      rows == {row \in UNION {r.sem : r \in leaf} : row.key = key}
      listed == \E r \in Visible(records, known) : \E row \in r.sem : row.key = key
  IN  IF rows = {} THEN Unresolved(IF listed THEN "stale_provider_mapping" ELSE "unknown_provider_key")
      ELSE LET row == CHOOSE x \in rows : TRUE
           IN  [reason |-> "resolved", instrument |-> row.instrument,
                kind |-> KindOf[row.instrument], records |-> leaf]

Subjects(records, message, known) ==
  [k \in DOMAIN message.feeds |-> SubjectAt(records, k, known)]

\* MarketFrameNormalizationService.normalize.
Normalized(records, frame, known) ==
  NormalizeFrame(frame.id, Messages[frame.bytes],
                 Subjects(records, Messages[frame.bytes], known), known)

-----------------------------------------------------------------------------
(* The rows of one result                                                  *)

IsQuote(e) == e.kind \in SubjectKinds

\* DurableResultIdentity: the frame and the schema version, never the content.
ResultId(result) == result.frame

ResultRow(result) ==
  [result |-> ResultId(result), frame |-> result.frame, status |-> ResultStatus(result),
   decoded |-> result.decoded, accepted |-> Cardinality(result.events),
   failed |-> Cardinality(FailedKeys(result)), frame_failure |-> FrameFailed(result),
   full_hash |-> result]

\* Mutant: every observation was received.
ObservationRowReceived(frame, e) ==
  [event |-> EventId(e), frame |-> e.frame, type |-> e.kind, subject |-> e.subject,
   key |-> IF IsQuote(e) THEN e.key ELSE Null,
   economic |-> IF IsQuote(e) THEN e.subject ELSE Null,
   records |-> e.provenance, known |-> e.known,
   received |-> frame.received, available |-> frame.available, recorded |-> frame.recorded,
   availability |-> "received"]

\* _observation_values: the clocks are those of the frame.
ObservationRow(frame, e) ==
  [event |-> EventId(e), frame |-> e.frame, type |-> e.kind, subject |-> e.subject,
   key |-> IF IsQuote(e) THEN e.key ELSE Null,
   economic |-> IF IsQuote(e) THEN e.subject ELSE Null,
   records |-> e.provenance, known |-> e.known,
   received |-> frame.received, available |-> frame.available, recorded |-> frame.recorded,
   availability |-> IF frame.basis = "historical_import" THEN frame.basis ELSE "received"]

\* _subtype_values: the typed row of an observation, in the table of its kind.
SubtypeRow(e) ==
  [event |-> EventId(e), type |-> e.kind, subject |-> e.subject,
   segment |-> IF IsQuote(e) THEN Null ELSE e.key, values |-> e.quote]

\* FailureIdentity has the payload of the failure.
FailureRow(result, x) ==
  [failure |-> <<ResultId(result), x>>, result |-> ResultId(result), frame |-> result.frame,
   scope |-> x.scope, key |-> x.key, reason |-> x.reason, depth |-> x.depth]

EventMember(result, e) ==
  [result |-> ResultId(result), frame |-> result.frame, event |-> EventId(e)]

FailureMember(result, x) ==
  [result |-> ResultId(result), frame |-> result.frame, failure |-> <<ResultId(result), x>>,
   role |-> IF x.scope = "frame" THEN "frame" ELSE "entry"]

\* The rows of the result of a frame.
RowsOf(frame, result) ==
  [frames |-> {frame},
   results |-> {ResultRow(result)},
   observations |-> {ObservationRow(frame, e) : e \in result.events},
   subtypes |-> {SubtypeRow(e) : e \in result.events},
   event_members |-> {EventMember(result, e) : e \in result.events},
   failures |-> {FailureRow(result, x) : x \in result.failures},
   failure_members |-> {FailureMember(result, x) : x \in result.failures}]

\* Mutant: the typed rows are not inserted.
InsertedUntyped(A, rows) ==
  [t \in DOMAIN A |-> IF t = "subtypes" THEN A[t] ELSE A[t] \cup rows[t]]

\* The inserts; rows that are there are not inserted again.
Inserted(A, rows) == [t \in DOMAIN A |-> A[t] \cup rows[t]]

SameResult(A, rows) == {r \in A.results : \E s \in rows.results : r.result = s.result}
OfResult(members, rows) == {m \in members : \E s \in rows.results : m.result = s.result}
FramesStored(A, frame) == {f \in A.frames : f.id = frame.id}

-----------------------------------------------------------------------------
(* persist_frame_result                                                    *)

\* The quotes are bound to the records their subjects resolve to at the cutoff,
\* read again by the transaction (_resolve_quote_provenance,
\* _bind_resolved_quote_provenance).
Rebound(records, e) ==
  LET subject == SubjectAt(records, e.key, e.known)
  IN  /\ subject.reason = "resolved"
      /\ subject.instrument = e.subject
      /\ subject.records = e.provenance

ProvenanceFailure(records, result, known) ==
  LET quotes == {e \in result.events : IsQuote(e)}
  IN  FirstFailure(
        << <<quotes # {} /\ LeafAt(records, known) = {}, "provenance_missing">>,
           <<\E e \in quotes : ~Rebound(records, e), "provenance_conflict">> >>)

\* What the rows read for the frame and its result refuse.
FrameFailure(A, frame) == FirstFailure(
  << <<\E f \in FramesStored(A, frame) : f.bytes # frame.bytes, "frame_content_mismatch">>,
     <<\E f \in FramesStored(A, frame) : f # frame, "capture_identity_conflict">> >>)

\* Mutant: a stored result is taken for the same one by its identity.
ResultFailureUnread(A, rows) == "none"

ResultFailure(A, rows) == FirstFailure(
  << <<\E r \in SameResult(A, rows) : r \notin rows.results, "result_conflict">> >>)

\* The observations and their typed rows (existing_observations, existing_subtypes).
EventFailure(A, rows) ==
  LET new == SameResult(A, rows) = {}
      stored == {o.event : o \in A.observations}
      events == {o.event : o \in rows.observations}
      typed == {t.event : t \in A.subtypes}
  IN  FirstFailure(
        << <<\E o \in A.observations : o.event \in events /\ o \notin rows.observations, "event_conflict">>,
           <<new /\ events \cap stored # {}, "durable_corruption">>,
           <<~new /\ ~(events \subseteq stored), "durable_corruption">>,
           <<\E e \in events : (e \in typed) # (e \in stored), "durable_corruption">>,
           <<\E t \in A.subtypes : t.event \in events /\ t \notin rows.subtypes, "event_conflict">>,
           <<~new /\ OfResult(A.event_members, rows) # rows.event_members, "result_conflict">> >>)

FailureConflict(A, rows) ==
  LET new == SameResult(A, rows) = {}
  IN  FirstFailure(
        << <<new /\ A.failures \cap rows.failures # {}, "durable_corruption">>,
           <<~new /\ OfResult(A.failure_members, rows) # rows.failure_members, "result_conflict">> >>)

\* A plain INSERT meets a row that a transaction outside the snapshot committed.
UniqueViolation(S, A, rows) ==
  \/ \E f \in rows.frames : FramesStored(S, f) = {} /\ FramesStored(A, f) # {}
  \/ SameResult(S, rows) = {} /\ SameResult(A, rows) # {}

\* S is what the transaction reads, A the committed rows.  An insert that a unique
\* key or a check refuses raises IntegrityError, which no caller handles.
PersistFailure(S, records, A, c) ==
  LET rows == RowsOf(c.frame, c.result)
      tests == <<FrameFailure(S, c.frame),
                 IF UniqueViolation(S, A, rows) THEN "integrity_error" ELSE "none",
                 ResultFailure(S, rows),
                 ProvenanceFailure(records, c.result, c.known),
                 EventFailure(S, rows), FailureConflict(S, rows),
                 IF Admitted(Inserted(A, rows), catalogue) THEN "none" ELSE "check_violation">>
  IN  FirstFailure([i \in DOMAIN tests |-> <<tests[i] # "none", tests[i]>>])

-----------------------------------------------------------------------------
(* Calls                                                                   *)

\* derive_lock_stripes: the stripes of the roots of a frame.  The roots of its
\* events and failures, which no other frame has, are left out.
StripesOf(f) == {Stripe[<<root, f.id>>] : root \in Roots}

Held(c) == {s \in Stripes : stripes[s] = c}

\* Mutant: the stripes are requested in the order of the roots.
NextStripeByRoot(f, held) ==
  IF Stripe[<<"raw_capture", f.id>>] \notin held THEN Stripe[<<"raw_capture", f.id>>]
  ELSE IF Stripe[<<"raw_frame", f.id>>] \notin held THEN Stripe[<<"raw_frame", f.id>>]
  ELSE Stripe[<<"normalization_result", f.id>>]

NextStripe(f, held) == Min(StripesOf(f) \ held)

\* Mutant: a call that fails keeps its locks.
EndKeeping(c, outcome) ==
  /\ stripes' = [s \in Stripes |-> IF stripes[s] = c /\ outcome \in {"inserted", "replayed"} THEN Nobody
                                  ELSE stripes[s]]
  /\ call' = [call EXCEPT ![c] =
       [@ EXCEPT !.pc = IF outcome = "lost" THEN "begin" ELSE "ended", !.outcome = outcome]]

\* The end of a transaction releases its locks.  A caller whose answer is lost
\* makes the same immutable command again.
End(c, outcome) ==
  /\ stripes' = [s \in Stripes |-> IF stripes[s] = c THEN Nobody ELSE stripes[s]]
  /\ call' = [call EXCEPT ![c] =
       [@ EXCEPT !.pc = IF outcome = "lost" THEN "begin" ELSE "ended",
                 !.seen = EmptyArchive, !.records = {}, !.outcome = outcome,
                 !.known = IF outcome = "lost" THEN call[c].known ELSE 0]]

\* The caller normalises a captured frame, with a transaction of its own for the
\* catalogue, and makes the command of the result.
Normalize(c, f, known) ==
  /\ call[c].pc = "idle"
  /\ call' = [call EXCEPT ![c].pc = "begin", ![c].frame = f, ![c].known = known,
                          ![c].result = Normalized(catalogue, f, known)]
  /\ UNCHANGED <<catalogue, archive, stripes, scan>>

\* The request of the first lock takes the snapshot.
RequestLocks(c) ==
  /\ call[c].pc = "begin"
  /\ call' = [call EXCEPT ![c].pc = "lock", ![c].seen = archive, ![c].records = catalogue]
  /\ UNCHANGED <<catalogue, archive, stripes, scan>>

AcquireStripe(c) ==
  /\ call[c].pc = "lock"
  /\ StripesOf(call[c].frame) \ Held(c) # {}
  /\ stripes[NextStripe(call[c].frame, Held(c))] = Nobody
  /\ stripes' = [stripes EXCEPT ![NextStripe(call[c].frame, Held(c))] = c]
  /\ UNCHANGED <<catalogue, archive, call, scan>>

\* The statements after the last lock: they raise, or the rows wait for the commit.
Persist(c) ==
  /\ call[c].pc = "lock"
  /\ StripesOf(call[c].frame) \subseteq Held(c)
  /\ LET failure == PersistFailure(call[c].seen, call[c].records, archive, call[c])
     IN  IF failure # "none"
         THEN End(c, failure)
         ELSE call' = [call EXCEPT ![c].pc = "commit"] /\ UNCHANGED stripes
  /\ UNCHANGED <<catalogue, archive, scan>>

\* A retry that finds its rows commits nothing.
Commit(c) ==
  /\ call[c].pc = "commit"
  /\ archive' = Inserted(archive, RowsOf(call[c].frame, call[c].result))
  /\ \/ End(c, IF SameResult(call[c].seen, RowsOf(call[c].frame, call[c].result)) = {} THEN "inserted" ELSE "replayed")
     \/ call[c].outcome = "none" /\ End(c, "lost")        \* the answer is lost
  /\ UNCHANGED <<catalogue, scan>>

\* The process or its connection ends before the commit.  The model's bound: a
\* caller loses one answer.
Crash(c) ==
  /\ call[c].pc \in {"lock", "commit"}
  /\ call[c].outcome = "none"
  /\ End(c, "lost")
  /\ UNCHANGED <<catalogue, archive, scan>>

\* A catalogue is committed, recorded later than the one it supersedes; a cutoff
\* may be later than both.
Ingest(listing, t) ==
  /\ \A r \in catalogue : r.recorded_at < t
  /\ catalogue' = catalogue \cup
       {TemporalRecord(listing, "catalogue", t, KnowledgeLeaves(catalogue))}
  /\ UNCHANGED <<archive, stripes, call, scan>>

-----------------------------------------------------------------------------
(* scan_normalization_results: pages in the order of the identities        *)

After(A, cursor) == {r \in A.results : r.frame > cursor}

\* Mutant: a page starts at the cursor.
PageFromCursor(A, cursor) ==
  LET rest == {r \in A.results : r.frame >= cursor}
  IN  {r \in rest : Cardinality({x \in rest : x.frame < r.frame}) < PageLimit}

Page(A, cursor) ==
  LET rest == After(A, cursor)
  IN  {r \in rest : Cardinality({x \in rest : x.frame < r.frame}) < PageLimit}

BeginScan ==
  /\ scan.pc = "idle"
  /\ scan' = [pc |-> "scanning", cursor |-> 0, read |-> <<>>, before |-> archive.results]
  /\ UNCHANGED <<catalogue, archive, stripes, call>>

ReadPage ==
  /\ scan.pc = "scanning"
  /\ LET page == Page(archive, scan.cursor)
     IN  scan' = [scan EXCEPT !.pc = IF Cardinality(page) < PageLimit THEN "ended" ELSE "scanning",
                              !.cursor = Max({r.frame : r \in page} \cup {scan.cursor}),
                              !.read = Append(scan.read, page)]
  /\ UNCHANGED <<catalogue, archive, stripes, call>>

-----------------------------------------------------------------------------
Init ==
  /\ catalogue = {}
  /\ archive = EmptyArchive
  /\ stripes = [s \in Stripes |-> Nobody]
  /\ call = [c \in Calls |-> Idle]
  /\ scan = [pc |-> "idle", cursor |-> 0, read |-> <<>>, before |-> {}]

Next ==
  \/ \E c \in Calls : RequestLocks(c) \/ AcquireStripe(c) \/ Persist(c) \/ Commit(c) \/ Crash(c)
  \/ \E c \in Calls, f \in Frames, known \in Cutoffs : Normalize(c, f, known)
  \/ \E listing \in Listings, t \in Cutoffs : Ingest(listing, t)
  \/ BeginScan
  \/ ReadPage

Spec == Init /\ [][Next]_vars

-----------------------------------------------------------------------------
\* The state of the archive: the tables accept what is in them, and a call that is
\* in no transaction holds no lock.
TypeOK ==
  /\ \A r \in catalogue : r.sem \in Listings /\ r.recorded_at \in Cutoffs
  /\ archive.frames \subseteq Frames
  /\ Admitted(archive, catalogue)
  /\ stripes \in [Stripes -> Calls \cup {Nobody}]
  /\ \A c \in Calls : /\ call[c].pc \in {"idle", "begin", "lock", "commit", "ended"}
                      /\ call[c].frame \in Frames \cup {Nobody}
                      /\ call[c].pc \notin {"lock", "commit"} => Held(c) = {}
  /\ scan.pc \in {"idle", "scanning", "ended"}

\* load_result_aggregate, then the results made of its rows again.
LoadedEvent(o, t) ==
  [frame |-> o.frame, kind |-> o.type, subject |-> o.subject,
   key |-> IF o.key = Null THEN t.segment ELSE o.key,
   quote |-> t.values, provenance |-> o.records, known |-> o.known]

LoadedEvents(A, r) ==
  LET members == {o \in A.observations : \E m \in A.event_members :
                                          m.result = r.result /\ m.event = o.event}
  IN  UNION {{LoadedEvent(o, t) : t \in SubtypesOf(A, o)} : o \in members}

LoadedFailures(A, r) ==
  {[scope |-> x.scope, key |-> x.key, reason |-> x.reason, depth |-> x.depth] :
     x \in {x \in A.failures : \E m \in A.failure_members :
                               m.result = r.result /\ m.failure = x.failure}}

\* What was captured, what normalization made of it and what failed is read back
\* from the rows: no committed result makes load_result_aggregate raise, and its
\* events and failures are those its hash was made of.
AggregatesLoad ==
  \A r \in archive.results :
    /\ \E f \in archive.frames : f.id = r.frame
    /\ LoadedEvents(archive, r) = r.full_hash.events
    /\ LoadedFailures(archive, r) = r.full_hash.failures
    /\ Cardinality(LoadedFailures(archive, r)) = r.failed + (IF r.frame_failure THEN 1 ELSE 0)
    /\ Reconciled(r.full_hash)

\* What is published: of every result, the frame and what the result was made of.
Published ==
  [id \in {r.frame : r \in archive.results} |->
     [frame |-> CHOOSE f \in archive.frames : f.id = id,
      result |-> (CHOOSE r \in archive.results : r.frame = id).full_hash]]

CommandOf(c) == [frame |-> call[c].frame, result |-> call[c].result]
NoCommand == [frame |-> Nobody, result |-> NoResult]

Archive == INSTANCE EventArchive WITH
  Nobody <- NoCommand,
  published <- Published,
  command <- [c \in Calls |-> CommandOf(c)],
  answer <- [c \in Calls |-> IF call[c].pc = "ended" THEN call[c].outcome ELSE "none"]

\* With its locks, snapshots, crashes, lost answers and retries the archive is one
\* write-once map from frames to results: a frame is published once, what is
\* published never changes, a caller is answered once and with the truth, and no
\* call finds rows that no call could have left (the errors of
\* persist_frame_result, MarketEventDurableCorruptionError among them).
ArchivePromise == Archive!Spec

\* A stored quote names records that were known at its own cutoff, and they list
\* its provider key for its subject, whatever was ingested since or while it was
\* normalised and persisted (the quote provenance checks).
ProvenanceHolds ==
  \A o \in archive.observations : o.type \in SubjectKinds =>
    /\ o.records # {}
    /\ \A r \in o.records : /\ r \in catalogue
                               /\ r.recorded_at <= o.known
                               /\ [key |-> o.key, instrument |-> o.subject] \in r.sem

\* No accepted feed makes an observation whose validation raises: that error is
\* not one of the reason codes, and the whole frame would be lost (the except
\* clause of _normalize_quotes, QuoteObservationV1.__post_init__).
AcceptedQuotesAreValid ==
  \A c \in Calls : \A e \in call[c].result.events : IsQuote(e) => ValidQuote(e.quote)

\* The tables refuse no result that normalization makes, except one whose failure
\* counts more levels than the feed may have (MarketEventPersistenceService has no
\* answer for a row check).
SchemaAdmits ==
  \A c \in Calls : call[c].outcome = "check_violation" =>
    \E x \in call[c].result.failures : x.depth > MaxDepthLevels

\* A scan returns every result that was committed before it began, and none
\* twice, whatever is committed between its pages.
ScanIsComplete ==
  /\ scan.pc = "ended" => scan.before \subseteq UNION {scan.read[i] : i \in DOMAIN scan.read}
  /\ \A i, j \in DOMAIN scan.read : i # j => scan.read[i] \cap scan.read[j] = {}

\* Calls never wait for each other in a circle: all request their stripes in
\* ascending order, and a wait has no timeout (derive_lock_stripes).
WaitsFor(c, d) ==
  /\ call[c].pc = "lock"
  /\ ~(StripesOf(call[c].frame) \subseteq Held(c))
  /\ stripes[NextStripe(call[c].frame, Held(c))] = d

NoCircularWait ==
  \A W \in (SUBSET Calls) \ {{}} : \E c \in W : \A d \in W : ~WaitsFor(c, d)

\* "Concurrent exact writers serialize on all roots.  The loser batch-fetches and
\* compares the committed rows, then returns idempotently."
ExactWritersReturn ==
  \A c, d \in Calls :
    /\ call[c].outcome = "inserted"
    /\ <<call[c].frame, call[c].result>> = <<call[d].frame, call[d].result>>
    => call[d].outcome # "integrity_error"
=============================================================================
