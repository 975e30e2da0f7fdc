--------------------------- MODULE ArchiveSchema ---------------------------
(***************************************************************************)
(* The constraints of the tables of captured frames: the columns and the   *)
(* row checks that backend/app/persistence/postgres/models.py declares,    *)
(* the keys and references that migration 20260804_04 creates.  A          *)
(* transaction whose rows break one of them fails with IntegrityError.     *)
(*                                                                         *)
(* A is a record with a set of rows for each table.  Identities are the    *)
(* values they are hashes of; the checks that a hash looks like a hash and *)
(* that a text is short and printable are left out.                        *)
(***************************************************************************)
EXTENDS FrameNormalization

CaptureBases == {"live_received", "recorded_with_original_receipt", "historical_import"}

NoTime == 0      \* an absent instant

IsKey(rows, Key(_)) == \A r, s \in rows : Key(r) = Key(s) => r = s

\* RawMarketFrameV1.__post_init__ does not raise for the captured frame f.
ValidCapture(f) ==
  /\ f.basis \in CaptureBases
  /\ f.recorded >= f.available
  /\ IF f.basis = "historical_import" THEN f.received = NoTime
     ELSE f.received # NoTime /\ f.available = f.received

-----------------------------------------------------------------------------
(* Row checks                                                              *)

\* raw_market_frames: the clocks of a frame fit its capture basis.
FrameRowOK(f) ==
  /\ f.basis \in CaptureBases
  /\ f.recorded >= f.available
  /\ f.received # NoTime => f.available >= f.received
  /\ \/ f.basis # "historical_import" /\ f.received # NoTime /\ f.available = f.received
     \/ f.basis = "historical_import" /\ f.received = NoTime

\* market_normalization_results: count_bounds (no count is above it) and status_shape.
MaxCount == 5000

ResultRowOK(r) ==
  /\ r.status \in {"complete", "partial", "failed"}
  /\ {r.decoded, r.accepted, r.failed} \subseteq 0..MaxCount
  /\ IF r.frame_failure
     THEN r.status = "failed" /\ r.accepted = 0 /\ r.failed = 0
     ELSE /\ r.decoded = r.accepted + r.failed
          /\ r.status = IF r.accepted = 0 THEN "failed"
                        ELSE IF r.failed = 0 THEN "complete" ELSE "partial"

\* market_observations: a quote names its mapping, version and catalogue records,
\* a status names none.
ObservationRowOK(o) ==
  \/ /\ o.type \in SubjectKinds
     /\ o.key # Null /\ o.economic = o.subject
     /\ o.records # {} /\ o.known # NoTime
  \/ /\ o.type = "status"
     /\ o.key = Null /\ o.economic = Null
     /\ o.records = {} /\ o.known = NoTime

\* The clocks of an observation fit its availability basis.
AvailabilityOK(o) ==
  /\ o.recorded >= o.available
  /\ \/ o.availability = "received" /\ o.received # NoTime /\ o.available = o.received
     \/ o.availability = "historical_import" /\ o.received = NoTime

\* market_normalization_failures: the scope has its key; depth is a number of levels.
FailureRowOK(x) ==
  /\ x.scope \in {"frame", "subject"}
  /\ (x.scope = "frame") = (x.key = Null)
  /\ x.depth \in 0..30

\* The typed quote tables: feed_shape, one for each kind, and depth_reconciliation.
FeedShape(kind, q) ==
  LET ltpc == q.union = "ltpc" /\ q.mode = "ltpc" /\ q.depth = 0 /\ q.normalized = 0
      index == /\ q.union = "indexFF" /\ q.mode \in {"full_d5", "full_d30"}
               /\ q.depth = 0 /\ q.normalized = 0
      market == /\ q.union = "marketFF"
                /\ \/ q.mode = "full_d5" /\ q.depth <= 5
                   \/ q.mode = "full_d30" /\ q.depth <= 30
                /\ q.normalized = IF q.depth > 0 THEN 1 ELSE 0
      greeks == /\ q.union = "firstLevelWithGreeks" /\ q.mode = "option_greeks"
                /\ q.depth \in {0, 1} /\ q.normalized = q.depth
  IN  CASE kind = "underlying" -> ltpc \/ index
        [] kind = "future" -> ltpc \/ market
        [] kind = "option" -> ltpc \/ market \/ greeks

QuoteRowOK(t) ==
  /\ t.values.depth \in 0..30
  /\ t.values.normalized \in {0, 1}
  /\ t.values.depth - t.values.normalized \in 0..30
  /\ FeedShape(t.type, t.values)

\* market_segment_status_observations: the name belongs to the number.
StatusRowOK(t) == t.values = Status(t.values.number)

-----------------------------------------------------------------------------
(* Keys and references                                                     *)

\* One frame for a capture identity.
FramesOK(A) ==
  /\ IsKey(A.frames, LAMBDA f : f.id)
  /\ \A f \in A.frames : FrameRowOK(f)

\* One result for a frame and a schema version.
ResultsOK(A) ==
  /\ IsKey(A.results, LAMBDA r : r.result)
  /\ IsKey(A.results, LAMBDA r : r.frame)
  /\ \A r \in A.results : (\E f \in A.frames : f.id = r.frame) /\ ResultRowOK(r)

\* The records a quote names are committed.
ObservationsOK(A, records) ==
  /\ IsKey(A.observations, LAMBDA o : o.event)
  /\ \A o \in A.observations :
       /\ \E f \in A.frames : f.id = o.frame
       /\ o.records \subseteq records
       /\ ObservationRowOK(o) /\ AvailabilityOK(o)

\* The event and the result of a membership are of the same frame.
EventMembersOK(A) ==
  \A m \in A.event_members :
    /\ \E r \in A.results : r.result = m.result /\ r.frame = m.frame
    /\ \E o \in A.observations : o.event = m.event /\ o.frame = m.frame

FailuresOK(A) ==
  /\ IsKey(A.failures, LAMBDA x : x.failure)
  /\ \A x \in A.failures :
       (\E r \in A.results : r.result = x.result /\ r.frame = x.frame) /\ FailureRowOK(x)

\* A result has at most one failure in the role of the frame's.
FailureMembersOK(A) ==
  /\ \A m \in A.failure_members :
       \E x \in A.failures : x.failure = m.failure /\ x.result = m.result /\ x.frame = m.frame
  /\ \A m, n \in A.failure_members :
       m.role = "frame" /\ n.role = "frame" /\ m.result = n.result => m = n

\* A typed row is of the type and the subject of its observation.
SubtypesOf(A, o) ==
  {t \in A.subtypes : t.event = o.event /\ t.type = o.type /\ t.subject = o.subject}

QuotesOK(A) ==
  /\ IsKey(A.subtypes, LAMBDA t : <<t.type, t.event>>)
  /\ \A t \in {u \in A.subtypes : u.type # "status"} :
       (\E o \in A.observations : t \in SubtypesOf(A, o)) /\ QuoteRowOK(t)

StatusesOK(A) ==
  \A t \in {u \in A.subtypes : u.type = "status"} :
    (\E o \in A.observations : t \in SubtypesOf(A, o)) /\ StatusRowOK(t)

\* The tables accept these rows beside the temporal records.
Admitted(A, records) ==
  /\ FramesOK(A) /\ ResultsOK(A) /\ ObservationsOK(A, records) /\ EventMembersOK(A)
  /\ FailuresOK(A) /\ FailureMembersOK(A) /\ QuotesOK(A) /\ StatusesOK(A)
=============================================================================
