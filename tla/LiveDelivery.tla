---------------------------- MODULE LiveDelivery ----------------------------
(***************************************************************************)
(* What a browser is shown: the messages and states the provider reports   *)
(* to the coordinator, the quote store, the bounded queue of a stream and  *)
(* the loop that turns its events into envelopes (receive_provider_message *)
(* and receive_provider_state of backend/app/market_data/coordinator.py,   *)
(* quote_store.py, backend/app/api/market_streams.py), with the registry   *)
(* of snapshots the stream reads.                                          *)
(*                                                                         *)
(* One stream of one instrument, subscribed.  All of it runs on one event  *)
(* loop: a step of the stream ends at an await, and the callbacks of the   *)
(* provider run between two steps.                                         *)
(***************************************************************************)
EXTENDS RvRegistry

CONSTANTS
  Stream,      \* the caller that serves the browser
  Streamed,    \* its instrument
  QueueSize,   \* the maxsize of a queue
  MaxQuotes,   \* bound: quotes received
  MaxChanges   \* bound: provider states and market statuses reported

ASSUME DeliveryAssumption ==
  Stream \in Callers /\ Streamed \in Instruments /\ QueueSize \in Nat \ {0}

VARIABLES
  transport,   \* _transport_state
  market,      \* the market status of the instrument's segment
  quotes,      \* the sequence of the stored quote, 0 without one
  stale,       \* the stored quote is forced stale or too old
  changes,     \* how many states and statuses were reported
  queue,       \* the events the stream has not taken
  dropped,     \* an event was dropped from the full queue
  stream,      \* the locals of _stream, and whether the feed gave up since it began
  shown        \* the payload the browser was sent last

deliveryVars == <<registryVars, transport, market, quotes, stale, changes, queue, dropped, stream, shown>>
feedVars == <<transport, market, quotes, stale, changes>>

Nothing == [quote |-> 0, freshness |-> "none", status |-> <<>>, service |-> 0]

NoStream == [pc |-> "idle", last_freshness |-> "none", last_status |-> <<>>, date |-> 0,
             service |-> 0, pending |-> FALSE, failed |-> FALSE]

Freshness == IF quotes = 0 THEN "awaiting_first_tick" ELSE IF stale THEN "stale" ELSE "fresh"

\* _status_signature; the stream's entry stays subscribed.
Status == <<transport, market>>

\* _snapshot_payload.
Payload(service) ==
  [quote |-> quotes, freshness |-> Freshness, status |-> Status, service |-> service]

Streaming(fields) == stream' = fields

Listening == stream.pc \notin {"idle", "closed"}

-----------------------------------------------------------------------------
(* The coordinator                                                         *)

\* Mutant: a full queue refuses the new event.
PublishKeepingOldest(events) ==
  LET all == queue \o events
  IN  /\ queue' = SubSeq(all, 1, IF Len(all) > QueueSize THEN QueueSize ELSE Len(all))
      /\ UNCHANGED dropped

\* _publish: a full queue drops its oldest event for the new one.
Publish(events) ==
  LET all == queue \o events
      excess == IF Len(all) > QueueSize THEN Len(all) - QueueSize ELSE 0
  IN  /\ queue' = SubSeq(all, excess + 1, Len(all))
      /\ dropped' = (dropped \/ excess > 0)

\* receive_provider_message with a quote: the next sequence is stored, fresh.
QuoteReceived ==
  /\ quotes < MaxQuotes
  /\ quotes' = quotes + 1 /\ stale' = FALSE
  /\ Publish(<<"quote_updated">>)
  /\ UNCHANGED <<registryVars, transport, market, changes, stream, shown>>

\* receive_provider_message with a segment status that differs.
MarketStatusReceived(status) ==
  /\ changes < MaxChanges /\ status # market
  /\ market' = status /\ changes' = changes + 1
  /\ Publish(<<"market_status_changed">>)
  /\ UNCHANGED <<registryVars, transport, quotes, stale, stream, shown>>

\* receive_provider_state: a state other than connected makes the stored quote of a
\* subscribed key stale.
StateReceived(state) ==
  /\ changes < MaxChanges
  /\ transport' = state /\ changes' = changes + 1
  /\ stale' = (stale \/ (state # "connected" /\ quotes > 0))
  /\ Publish(<<IF state = "failed" THEN "provider_error" ELSE "feed_status_changed">>)
  /\ Streaming([stream EXCEPT !.failed = @ \/ state = "failed"])
  /\ UNCHANGED <<registryVars, market, quotes, shown>>

\* Time: the quote becomes older than stale_after_seconds.
QuoteAges ==
  /\ quotes > 0 /\ ~stale
  /\ stale' = TRUE
  /\ UNCHANGED <<registryVars, transport, market, quotes, changes, queue, dropped, stream, shown>>

-----------------------------------------------------------------------------
(* The stream                                                              *)

\* A payload is made and its send awaited; the browser will have it.
Send(service, next) ==
  /\ shown' = Payload(service)
  /\ Streaming(next)

\* market_state_stream: after the subscription the snapshot is asked of the registry.
OpenStream ==
  /\ stream.pc = "idle"
  /\ \/ GetHit(Stream, Streamed) \/ GetMiss(Stream, Streamed)
  /\ queue' = <<>>
  /\ Streaming([stream EXCEPT !.pc = "getting"])
  /\ UNCHANGED <<feedVars, dropped, shown>>

\* The service is there: the snapshot is sent first.
SendSnapshot ==
  /\ stream.pc = "getting" /\ getter[Stream].pc = "got"
  /\ getter' = [getter EXCEPT ![Stream] = NoGet]
  /\ Send(getter[Stream].to, [stream EXCEPT !.pc = "snapshot", !.service = getter[Stream].to])
  /\ UNCHANGED <<day, entries, lock, feedVars, queue, dropped>>

\* After the send the stream takes its first look at freshness, status and date.
FirstLook ==
  /\ stream.pc = "snapshot"
  /\ Streaming([stream EXCEPT !.pc = "wait", !.last_freshness = Freshness, !.last_status = Status,
                              !.date = day])
  /\ UNCHANGED <<registryVars, feedVars, queue, dropped, shown>>

\* Mutant: the pending quote is forgotten before it is due.
AfterDateForgetting(st, due) ==
  IF due /\ st.pending
  THEN Send(st.service, [st EXCEPT !.pc = "wait", !.pending = FALSE])
  ELSE Streaming([st EXCEPT !.pc = "wait", !.pending = FALSE]) /\ UNCHANGED shown

\* What remains of an iteration, with the locals st: a pending quote that is due is
\* sent; without one the next wait ends at its due time.
AfterDate(st, due) ==
  IF due /\ st.pending
  THEN Send(st.service, [st EXCEPT !.pc = "wait", !.pending = FALSE])
  ELSE Streaming([st EXCEPT !.pc = "wait"]) /\ UNCHANGED shown

\* Before that, on another exchange date the service is asked again.
AfterFreshness(st, due) ==
  IF day = st.date
  THEN AfterDate(st, due) /\ UNCHANGED registryVars
  ELSE /\ GetHit(Stream, Streamed) \/ GetMiss(Stream, Streamed)
       /\ Streaming([st EXCEPT !.pc = "resync", !.date = day])
       /\ UNCHANGED shown

\* Mutant: the freshness is sent only with a pending quote.
AfterWaitPending(st, due) ==
  IF Freshness = st.last_freshness \/ ~st.pending
  THEN AfterFreshness(st, due)
  ELSE /\ Send(st.service, [st EXCEPT !.pc = "dating", !.last_freshness = Freshness])
       /\ UNCHANGED registryVars

\* Before that, a freshness other than the last one is sent.
AfterWait(st, due) ==
  IF Freshness = st.last_freshness
  THEN AfterFreshness(st, due)
  ELSE /\ Send(st.service, [st EXCEPT !.pc = "dating", !.last_freshness = Freshness])
       /\ UNCHANGED registryVars

\* The wait ends with a quote event, which is kept until it is due.
TakeQuote(due) ==
  /\ stream.pc = "wait" /\ queue # <<>> /\ Head(queue) = "quote_updated"
  /\ queue' = Tail(queue)
  /\ AfterWait([stream EXCEPT !.pending = TRUE], due)
  /\ UNCHANGED <<feedVars, dropped>>

\* It ends with a status event, sent when the status differs from the last one.
TakeStatus(due) ==
  /\ stream.pc = "wait" /\ queue # <<>> /\ Head(queue) \in {"feed_status_changed", "market_status_changed"}
  /\ queue' = Tail(queue)
  /\ IF Status = stream.last_status
     THEN AfterWait(stream, due)
     ELSE /\ Send(stream.service, [stream EXCEPT !.pc = "looking", !.last_status = Status])
          /\ UNCHANGED registryVars
  /\ UNCHANGED <<feedVars, dropped>>

\* It ends with provider_error: the status is sent and the socket closed.
TakeError ==
  /\ stream.pc = "wait" /\ queue # <<>> /\ Head(queue) = "provider_error"
  /\ queue' = Tail(queue)
  /\ Send(stream.service, [stream EXCEPT !.pc = "closing"])
  /\ UNCHANGED <<registryVars, feedVars, dropped>>

\* It ends with its timeout or a message of the browser's, and the cancelled queue
\* task is awaited.  With a quote that is due the timeout is 0 and no event is taken.
TakeNothing ==
  /\ stream.pc = "wait" /\ (queue = <<>> \/ stream.pending)
  /\ Streaming([stream EXCEPT !.pc = "looking"])
  /\ UNCHANGED <<registryVars, feedVars, queue, dropped, shown>>

\* The rest of the iteration, after an await in it.
Resume(due) ==
  /\ \/ stream.pc = "looking" /\ AfterWait(stream, due)
     \/ stream.pc = "dating" /\ AfterFreshness(stream, due)
     \/ stream.pc = "quoting" /\ AfterDate(stream, due) /\ UNCHANGED registryVars
  /\ UNCHANGED <<feedVars, queue, dropped>>

Resync ==
  /\ stream.pc = "resync" /\ getter[Stream].pc = "got"
  /\ getter' = [getter EXCEPT ![Stream] = NoGet]
  /\ Send(getter[Stream].to, [stream EXCEPT !.pc = "quoting", !.service = getter[Stream].to])
  /\ UNCHANGED <<day, entries, lock, feedVars, queue, dropped>>

\* The socket is closed after a provider error; a registry that raises closes it too.
CloseStream ==
  /\ \/ stream.pc = "closing"
     \/ stream.pc \in {"getting", "resync"} /\ getter[Stream].pc = "raised"
  /\ Streaming([NoStream EXCEPT !.pc = "closed"])
  /\ queue' = <<>>
  /\ UNCHANGED <<registryVars, feedVars, dropped, shown>>

\* The browser leaves, at the wait or during a send.
Disconnect ==
  /\ stream.pc \in {"snapshot", "wait", "looking", "dating", "quoting", "closing"}
  /\ Streaming([NoStream EXCEPT !.pc = "closed"])
  /\ queue' = <<>>
  /\ UNCHANGED <<registryVars, feedVars, dropped, shown>>

Iterate(due) == TakeQuote(due) \/ TakeStatus(due) \/ Resume(due)

StreamStep ==
  \/ SendSnapshot \/ FirstLook \/ TakeError \/ TakeNothing \/ Resync \/ CloseStream
  \/ \E due \in BOOLEAN : Iterate(due)

-----------------------------------------------------------------------------
DeliveryInit ==
  /\ RegistryInit
  /\ transport = "connected" /\ market = "open"
  /\ quotes \in {0, 1} /\ stale = FALSE /\ changes = 0
  /\ queue = <<>> /\ dropped = FALSE
  /\ stream = NoStream
  /\ shown = Nothing

\* The other callers of the registry are requests of the HTTP interface.  The
\* model's bound: they call before the stream does.
RegistryStep ==
  /\ \/ \E c \in Callers : RegistryProgress(c)
     \/ \E c \in Callers \ {Stream} :
          \/ Answered(c)
          \/ /\ stream.pc = "idle"
             /\ \E k \in Instruments : GetHit(c, k) \/ GetMiss(c, k) \/ Refresh(c, k)
     \/ stream.pc # "closed" /\ (Expire \/ NewDay)
  /\ UNCHANGED <<feedVars, queue, dropped, stream, shown>>

\* The model's bound: the feed reports once the stream is open and while no request
\* is being answered.
FeedStep ==
  /\ Listening
  /\ \A c \in Callers \ {Stream} : getter[c] = NoGet
  /\ \/ QuoteReceived \/ QuoteAges
     \/ \E status \in {"open", "closed"} : MarketStatusReceived(status)
     \/ \E state \in {"connected", "reconnecting", "failed"} : StateReceived(state)

DeliveryNext == OpenStream \/ StreamStep \/ Disconnect \/ FeedStep \/ RegistryStep

\* The loop runs what is ready, a wait ends at its timeout, a due time comes, and
\* the provider's history answers or fails.
DeliveryFairness ==
  /\ WF_deliveryVars(StreamStep)
  /\ SF_deliveryVars(Iterate(TRUE))
  /\ \A c \in Callers :
       WF_deliveryVars(RegistryProgress(c) /\ UNCHANGED <<feedVars, queue, dropped, stream, shown>>)

DeliverySpec == DeliveryInit /\ [][DeliveryNext]_deliveryVars /\ DeliveryFairness

-----------------------------------------------------------------------------
\* The queue keeps its limit, the browser was shown what was there, and the stream
\* waits for the registry only when it has called it.
DeliveryTypeOK ==
  /\ RegistryTypeOK
  /\ Len(queue) <= QueueSize
  /\ shown.quote <= quotes /\ shown.service <= day
  /\ stream.pc \in {"getting", "resync"} => getter[Stream].pc # "none"

\* A stored quote reaches an open stream: a payload has it or a later one, unless
\* the queue dropped an event (_publish, the pending quote of _stream).
QuoteIsShown ==
  \A n \in 1..MaxQuotes :
    (Listening /\ quotes = n) ~> (shown.quote >= n \/ ~Listening \/ dropped)

\* A feed that gives up closes the stream, unless the queue dropped an event
\* (provider_error of receive_provider_state).
FailureCloses ==
  stream.failed ~> (~Listening \/ dropped)

\* Once a stream has looked at the freshness, a browser that was shown a fresh quote
\* is shown that it became stale, whatever else happens between two awaits.
StaleIsTold ==
  (stream.last_freshness = "fresh" /\ Freshness = "stale" /\ Listening)
    ~> (shown.freshness = "stale" \/ Freshness = "fresh" \/ ~Listening)

\* "Stale live data is not presented as fresh."
StaleNotShownFresh ==
  (shown.freshness = "fresh" /\ Freshness = "stale" /\ Listening)
    ~> (shown.freshness = "stale" \/ Freshness = "fresh" \/ ~Listening)
=============================================================================
