------------------------- MODULE FrameNormalization -------------------------
(***************************************************************************)
(* What MarketFrameNormalizationService.normalize (backend/app/services/   *)
(* market_frame_normalization_service.py) makes of one captured provider   *)
(* frame: normalize_upstox_v3_frame (backend/app/market_data/upstox/       *)
(* v3_normalizer.py) and the validation of the observations it constructs  *)
(* (backend/app/market_data/normalization/models.py).                      *)
(*                                                                         *)
(* A feed is the message of one provider key: the request mode it echoes,  *)
(* the member of its unions that is set, whether that member has its ltpc  *)
(* part, the number of its depth levels, and whether its numbers convert   *)
(* ("valid", or the reason code of the first that does not).               *)
(***************************************************************************)
EXTENDS Naturals, Sequences, FiniteSets

RequestModes == {"ltpc", "full_d5", "option_greeks", "full_d30"}
FeedUnions == {"ltpc", "firstLevelWithGreeks", "indexFF", "marketFF"}
SubjectKinds == {"underlying", "future", "option"}

ValueReasons ==
  {"invalid_timestamp", "nonfinite_price", "negative_price", "invalid_quantity",
   "fractional_open_interest", "unsafe_open_interest"}

MaxDepthLevels == 30

\* A column or a field that is None.
Null == "null"

\* "emptyFullFeed" is a fullFeed with neither of its members.
Feeds ==
  [mode : RequestModes \cup {"unknown"},
   union : FeedUnions \cup {"emptyFullFeed", "none"},
   ltpc : BOOLEAN,
   levels : Nat,
   value : ValueReasons \cup {"valid"}]

\* The depth levels _structural_metadata counts.
DepthCount(feed) ==
  CASE feed.union = "marketFF" -> feed.levels
    [] feed.union = "firstLevelWithGreeks" -> IF feed.levels > 0 THEN 1 ELSE 0
    [] OTHER -> 0

AdoptedModes(union) ==
  CASE union = "ltpc" -> {"ltpc"}
    [] union = "firstLevelWithGreeks" -> {"option_greeks"}
    [] union = "none" -> RequestModes
    [] OTHER -> {"full_d5", "full_d30"}

\* Mutant: greeks are adopted for every kind of subject.
AdoptedKindsLax(union) ==
  CASE union = "indexFF" -> {"underlying"}
    [] union = "marketFF" -> {"future", "option"}
    [] OTHER -> SubjectKinds

AdoptedKinds(union) ==
  CASE union = "ltpc" -> SubjectKinds
    [] union = "firstLevelWithGreeks" -> {"option"}
    [] union = "indexFF" -> {"underlying"}
    [] OTHER -> {"future", "option"}

\* Tests in the order they are made, each with what it raises.
FirstFailure(tests) ==
  IF \E i \in DOMAIN tests : tests[i][1]
  THEN tests[CHOOSE i \in DOMAIN tests :
               tests[i][1] /\ \A j \in DOMAIN tests : tests[j][1] => i <= j][2]
  ELSE "none"

\* _normalize_quote and _adopt_fields.
AdoptionFailure(feed, kind) == FirstFailure(
  << <<feed.mode \notin AdoptedModes(feed.union), "request_mode_union_mismatch">>,
     <<feed.union \notin FeedUnions, "unsupported_feed_union">>,
     <<kind \notin AdoptedKinds(feed.union), "subject_kind_mismatch">>,
     <<feed.union # "ltpc" /\ ~feed.ltpc, "empty_supported_payload">>,
     <<DepthCount(feed) > MaxDepthLevels, "depth_limit_exceeded">>,
     <<feed.mode = "full_d5" /\ DepthCount(feed) > 5, "request_mode_depth_mismatch">>,
     <<feed.value # "valid", feed.value>> >>)

\* What the quote adopts of its feed.
AdoptedQuote(feed, kind) ==
  [kind |-> kind, mode |-> feed.mode, union |-> feed.union,
   depth |-> DepthCount(feed),
   normalized |-> IF DepthCount(feed) > 0 THEN 1 ELSE 0]

\* QuoteObservationV1.__post_init__ does not raise.
ValidQuote(q) ==
  /\ q.mode \in CASE q.union = "ltpc" -> {"ltpc"}
                  [] q.union = "firstLevelWithGreeks" -> {"option_greeks"}
                  [] OTHER -> {"full_d5", "full_d30"}
  /\ q.kind \in CASE q.union = "ltpc" -> SubjectKinds
                  [] q.union = "indexFF" -> {"underlying"}
                  [] q.union = "marketFF" -> {"future", "option"}
                  [] OTHER -> {"option"}
  /\ q.depth \in 0..MaxDepthLevels
  /\ q.normalized \in {0, 1}
  /\ q.union \in {"ltpc", "indexFF"} => q.depth = 0 /\ q.normalized = 0
  /\ q.union = "firstLevelWithGreeks" => q.depth \in {0, 1} /\ q.normalized = q.depth
  /\ q.union = "marketFF" =>
       /\ q.depth <= IF q.mode = "full_d5" THEN 5 ELSE MaxDepthLevels
       /\ q.normalized = IF q.depth > 0 THEN 1 ELSE 0

-----------------------------------------------------------------------------
(* A message is what the bytes of a frame hold: its response type ("none"  *)
(* when they do not parse), whether its time is valid, its feeds (a        *)
(* function of provider keys) and its segments (a function of names to     *)
(* numbers).  subjects maps the keys of the message to what the resolver   *)
(* answered: a record with reason "resolved", the instrument, its kind and *)
(* the records it was resolved from, or with another reason.               *)

ResponseTypes == {"initial_feed", "live_feed", "market_info"}
MaxFeeds == 5000
MaxStatusSegments == 256

\* The entries of the primary payload of a message.
Entries(message) ==
  IF message.response = "market_info" THEN DOMAIN message.segments ELSE DOMAIN message.feeds

\* decode_upstox_v3_frame.
DecodeFailure(message) == FirstFailure(
  << <<message.response = "none", "protobuf_decode_failed">>,
     <<message.response \notin ResponseTypes, "unsupported_response_type">>,
     <<~message.timed, "missing_provider_timestamp">>,
     <<Cardinality(DOMAIN message.feeds) > MaxFeeds, "too_many_feeds">>,
     <<Cardinality(DOMAIN message.segments) > MaxStatusSegments, "too_many_status_segments">>,
     <<Entries(message) = {}, "empty_primary_payload">> >>)

\* An observation identity is the hash of these fields.
EventId(e) == [frame |-> e.frame, kind |-> e.kind, subject |-> e.subject]

\* An event is bound to the cutoff its subject was resolved at.
QuoteEvent(frame, key, feed, subject, cutoff) ==
  [frame |-> frame, kind |-> subject.kind, subject |-> subject.instrument, key |-> key,
   quote |-> AdoptedQuote(feed, subject.kind), provenance |-> subject.records,
   known |-> cutoff]

StatusEvent(frame, segment, status) ==
  [frame |-> frame, kind |-> "status", subject |-> segment, key |-> segment,
   quote |-> status, provenance |-> {}, known |-> 0]

\* Why a key of the frame yields no event, or "none".
EntryFailure(feed, subject) ==
  IF subject.reason # "resolved" THEN subject.reason ELSE AdoptionFailure(feed, subject.kind)

\* PROVIDER_MARKET_STATUS_NAMES, by the provider's number.
StatusNames == <<"PRE_OPEN_START", "PRE_OPEN_END", "NORMAL_OPEN", "NORMAL_CLOSE",
                 "CLOSING_START", "CLOSING_END">>

Status(number) ==
  [number |-> number, known |-> number \in 0..5,
   name |-> IF number \in 0..5 THEN StatusNames[number + 1] ELSE "UNKNOWN"]

\* _normalize_statuses, _normalize_quotes: the events and the failures of a frame.
StatusEvents(frame, message) ==
  {StatusEvent(frame, s, Status(message.segments[s])) : s \in DOMAIN message.segments}

AcceptedKeys(message, subjects) ==
  {k \in DOMAIN message.feeds : EntryFailure(message.feeds[k], subjects[k]) = "none"}

QuoteEvents(frame, message, subjects, cutoff) ==
  {QuoteEvent(frame, k, message.feeds[k], subjects[k], cutoff) : k \in AcceptedKeys(message, subjects)}

EntryFailures(message, subjects) ==
  {[scope |-> "subject", key |-> k, reason |-> EntryFailure(message.feeds[k], subjects[k]),
    depth |-> DepthCount(message.feeds[k])] :
     k \in DOMAIN message.feeds \ AcceptedKeys(message, subjects)}

\* A frame failure has no key and no depth.
Failed(frame, reason, decoded) ==
  [frame |-> frame, events |-> {},
   failures |-> {[scope |-> "frame", key |-> Null, reason |-> reason, depth |-> 0]},
   decoded |-> decoded]

\* The result of a frame: its events and failures, and the number of entries
\* decoded (normalize, _result).
NormalizeFrame(frame, message, subjects, cutoff) ==
  LET count == Cardinality(Entries(message))
      events == IF message.response = "market_info" THEN StatusEvents(frame, message)
                ELSE QuoteEvents(frame, message, subjects, cutoff)
  IN  IF DecodeFailure(message) # "none" THEN Failed(frame, DecodeFailure(message), 0)
      ELSE IF \E e1, e2 \in events : e1 # e2 /\ EventId(e1) = EventId(e2)
        THEN Failed(frame, "duplicate_normalized_identity", count)
      ELSE [frame |-> frame, events |-> events, decoded |-> count,
            failures |-> IF message.response = "market_info" THEN {}
                         ELSE EntryFailures(message, subjects)]

FrameFailed(result) == \E x \in result.failures : x.scope = "frame"

\* The keys with a failure (failed_entry_scope_count).
FailedKeys(result) == {x.key : x \in {y \in result.failures : y.scope # "frame"}}

ResultStatus(result) ==
  IF result.events = {} THEN "failed" ELSE IF result.failures = {} THEN "complete" ELSE "partial"

\* FrameNormalizationResultV1.__post_init__ does not raise: the entries decoded
\* are those accepted and those failed, unless the frame failed.
Reconciled(result) ==
  LET frameFailed == FrameFailed(result)
  IN  /\ frameFailed => result.events = {} /\ Cardinality(result.failures) = 1
      /\ ~frameFailed =>
           result.decoded = Cardinality(result.events) + Cardinality(FailedKeys(result))
      /\ Cardinality({EventId(e) : e \in result.events}) = Cardinality(result.events)
=============================================================================
