-------------------------- MODULE LifecycleEvents --------------------------
(***************************************************************************)
(* The lifecycle of provider connections and subscriptions: the events a   *)
(* source reports, the order it must report them in, and what              *)
(* normalization makes of a batch (backend/app/market_data/normalization/  *)
(* lifecycle.py).  All of it is pure.                                      *)
(*                                                                         *)
(* A raw event is a record [kind, provider, session, scope, previous,      *)
(* state, source, order, occurred, available, recorded, mode, keys,        *)
(* reason]; keys are [digest, count], the digest standing for the sorted   *)
(* keys it is a hash of.  Provider keys are numbers, for their order.      *)
(***************************************************************************)
EXTENDS Integers, Sequences, FiniteSets, SequencesExt

\* The members of a set of numbers in ascending order.
Sorted(S) == [n \in 1..Cardinality(S) |-> CHOOSE x \in S : Cardinality({y \in S : y < x}) = n - 1]

Kinds == {"connection", "subscription"}
Absent == "absent"
NoKeys == [digest |-> <<>>, count |-> 0]
MaxLifecycleEvents == 10000

\* SUBSCRIPTION_MODE_INSTRUMENT_LIMITS; the largest is the limit of a set too.
ModeLimit == [ltpc |-> 5000, option_greeks |-> 3000, full_d5 |-> 2000, full_d30 |-> 50]
MaxInstrumentKeys == ModeLimit["ltpc"]

ConnectionTransitions ==
  {Absent} \X {"connecting"}
    \cup {"connecting"} \X {"connected", "failed", "closing"}
    \cup {"connected"} \X {"authorized", "closing", "failed"}
    \cup {"authorized"} \X {"closing", "reconnecting", "failed"}
    \cup {"reconnecting"} \X {"closing", "failed"}
    \cup {"closing"} \X {"closed", "failed"}
    \cup {"failed"} \X {"reconnecting", "closing", "closed"}

SubscriptionTransitions ==
  {Absent} \X {"subscribe_requested"}
    \cup {"subscribe_requested"} \X {"subscribed", "subscription_failed"}
    \cup {"subscribed", "mode_changed"} \X
           {"mode_change_requested", "unsubscribe_requested", "subscription_failed"}
    \cup {"mode_change_requested"} \X {"mode_changed", "subscription_failed"}
    \cup {"unsubscribe_requested"} \X {"unsubscribed", "subscription_failed"}

Transitions(kind) ==
  IF kind = "connection" THEN ConnectionTransitions ELSE SubscriptionTransitions

FailedState(kind) == IF kind = "connection" THEN "failed" ELSE "subscription_failed"

NeedsMode == {"subscribe_requested", "subscribed", "mode_change_requested", "mode_changed"}

-----------------------------------------------------------------------------
(* Events                                                                  *)

\* SubscriptionInstrumentSetV1: keys without a duplicate, kept sorted.
ValidInstrumentKeys(keys) ==
  /\ keys # <<>> /\ Len(keys) <= MaxInstrumentKeys
  /\ IsInjective(keys)

InstrumentSet(keys) ==
  [digest |-> Sorted(ToSet(keys)), count |-> Len(keys)]

\* _validate_common and _validate_reason.
ClocksOrdered(e) == e.occurred <= e.available /\ e.available <= e.recorded

ReasonFits(e) == (e.reason # Absent) = (e.state = FailedState(e.kind))

\* RawProviderConnectionLifecycleEventV1.__post_init__ does not raise.
ValidConnection(e) ==
  /\ ClocksOrdered(e) /\ ReasonFits(e)
  /\ <<e.previous, e.state>> \in ConnectionTransitions
  /\ e.mode = Absent /\ e.keys = NoKeys /\ e.scope = Absent

\* RawProviderSubscriptionLifecycleEventV1.__post_init__ does not raise.
ValidSubscription(e) ==
  /\ ClocksOrdered(e) /\ ReasonFits(e)
  /\ <<e.previous, e.state>> \in SubscriptionTransitions
  /\ e.scope # Absent
  /\ e.keys.count \in 1..MaxInstrumentKeys
  /\ e.mode # Absent => e.keys.count <= ModeLimit[e.mode]
  /\ e.state \in NeedsMode => e.mode # Absent

ValidEvent(e) == IF e.kind = "connection" THEN ValidConnection(e) ELSE ValidSubscription(e)

\* raw_event_id: who reported the event and its place in that order, not what it says.
RawId(e) ==
  [kind |-> e.kind, provider |-> e.provider, session |-> e.session, scope |-> e.scope,
   source |-> e.source, order |-> e.order]

\* The subject of the observation of an event.
SubjectOf(e) ==
  IF e.kind = "connection" THEN <<e.session>> ELSE <<e.provider, e.session, e.scope>>

-----------------------------------------------------------------------------
(* Sequences.  An event is judged by the events before it.                 *)

Before(events, i) == {j \in DOMAIN events : j < i}

\* A session reports in one scope, and a scope is of one session.
BoundOnce(events, i) ==
  \A j \in Before(events, i) :
    (events[j].session = events[i].session) = (events[j].source = events[i].source)

OrderAdvances(events, i) ==
  \A j \in Before(events, i) :
    events[j].source = events[i].source => events[j].order < events[i].order

\* Mutant: a session may report again after another one began.
ResumesOrReconnects(events, i) ==
  LET e == events[i]
      last == events[i - 1]
  IN  IF e.session = last.session THEN e.previous = last.state
      ELSE \/ \E j \in Before(events, i) : events[j].session = e.session
           \/ last.state = "reconnecting" /\ e.previous = Absent /\ e.state = "connecting"

\* Another session begins after the last one is reconnecting, with a scope of its own.
ContinuesOrReconnects(events, i) ==
  LET e == events[i]
      last == events[i - 1]
  IN  IF e.session = last.session THEN e.previous = last.state
      ELSE /\ last.state = "reconnecting" /\ e.previous = Absent /\ e.state = "connecting"
           /\ \A j \in Before(events, i) : events[j].session # e.session /\ events[j].source # e.source

\* validate_connection_lifecycle_sequence does not raise.
ValidConnectionSequence(events) ==
  \A i \in DOMAIN events :
    /\ BoundOnce(events, i) /\ OrderAdvances(events, i)
    /\ i > 1 => ContinuesOrReconnects(events, i) /\ events[i].provider = events[i - 1].provider

\* _subscription_modes_agree.
ModesAgree(previous, current) ==
  CASE current.state \in {"subscribed", "mode_changed", "subscription_failed", "unsubscribed"} ->
         current.mode = previous.mode
    [] current.state = "unsubscribe_requested" ->
         Absent \in {current.mode, previous.mode} \/ current.mode = previous.mode
    [] OTHER -> TRUE

\* validate_subscription_lifecycle_sequence does not raise.
ValidSubscriptionSequence(events) ==
  \A i \in DOMAIN events :
    LET e == events[i]
        earlier == {j \in Before(events, i) : events[j].scope = e.scope}
        last == events[CHOOSE j \in earlier : \A k \in earlier : k <= j]
    IN  /\ \A j \in Before(events, i) : events[j].source = e.source =>
             events[j].provider = e.provider /\ events[j].session = e.session
        /\ OrderAdvances(events, i)
        /\ IF earlier = {} THEN e.previous = Absent /\ e.state = "subscribe_requested"
           ELSE /\ <<e.provider, e.session, e.source>> = <<last.provider, last.session, last.source>>
                /\ e.previous = last.state /\ e.keys = last.keys /\ ModesAgree(last, e)

ValidSequence(kind, events) ==
  IF kind = "connection" THEN ValidConnectionSequence(events) ELSE ValidSubscriptionSequence(events)

-----------------------------------------------------------------------------
(* Batches                                                                 *)

\* The ordinal, from 0, at which the identity of events[i] occurs first.
FirstOccurrence(events, i) ==
  (CHOOSE j \in DOMAIN events :
     /\ RawId(events[j]) = RawId(events[i])
     /\ \A k \in Before(events, j) : RawId(events[k]) # RawId(events[i])) - 1

IsDuplicate(events, i) == FirstOccurrence(events, i) < i - 1

\* validate_raw_lifecycle_identity_batch does not raise: an identity has one content.
ValidBatch(events) ==
  /\ Len(events) <= MaxLifecycleEvents
  /\ \A i, j \in DOMAIN events : RawId(events[i]) = RawId(events[j]) => events[i] = events[j]

\* unique_events, in the order of their first occurrences.
UniqueEvents(events) ==
  LET places == Sorted({i \in DOMAIN events : ~IsDuplicate(events, i)})
  IN  [n \in DOMAIN places |-> events[places[n]]]

\* normalize_connection_lifecycle and normalize_subscription_lifecycle: the
\* observation has the values of the event and an identity made of the event's.
Observation(e) == [event |-> <<RawId(e), SubjectOf(e)>>, raw |-> RawId(e), subject |-> SubjectOf(e),
                   kind |-> e.kind, values |-> e]
=============================================================================
