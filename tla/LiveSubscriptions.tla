--------------------------- MODULE LiveSubscriptions ---------------------------
(***************************************************************************)
(* Reference-counted live subscriptions: MarketDataCoordinator.subscribe   *)
(* and unsubscribe (backend/app/market_data/coordinator.py) over           *)
(* UpstoxLiveMarketProvider (backend/app/market_data/upstox/streamer.py).  *)
(*                                                                         *)
(* A task serves one browser connection: it subscribes to one instrument,  *)
(* reads its queue and unsubscribes.  Tasks interleave where they await;   *)
(* the bodies under the coordinator's lock await nothing, so each is part  *)
(* of a step.  Calls of the vendor's SDK run on executor threads: two of   *)
(* them may be made in either order, and one goes on when the task that    *)
(* awaits it is cancelled.  The feed itself is external.                   *)
(***************************************************************************)
EXTENDS Integers, FiniteSets

CONSTANTS
  Tasks,      \* browser connections
  Keys,       \* instrument keys
  MaxActive,  \* the capacity, max_active
  NoTask, NoKey

ASSUME CapacityAssumption == MaxActive \in Nat
ASSUME NoTaskAssumption == NoTask \notin Tasks

VARIABLES
  \* the coordinator
  phase,        \* the phase of the entry of each key, "unsubscribed" without one
  owner,        \* the task that created the entry
  listeners,    \* the tasks whose queues the entry holds
  readiness,    \* the readiness future of the entry each task created
  \* the tasks
  pc, key,
  follows,      \* the task whose readiness future each task awaits
  \* the provider
  streamer,     \* _streamer is not None
  opened,       \* _connected_event is set
  hasConnected, \* _has_connected
  startLock,    \* the holder of _start_lock
  activeKeys,   \* _active_keys
  \* the SDK and the provider's servers
  call,         \* the SDK call each task has made on a thread
  link,         \* the state of the web socket
  feed          \* the keys the server sends

coordinator == <<phase, owner, listeners, readiness>>
provider == <<streamer, opened, hasConnected, startLock, activeKeys>>
vars == <<coordinator, pc, key, follows, provider, call, link, feed>>

InStart == {"connecting", "joining"}
InProvider == InStart \cup {"starting", "disconnecting", "calling"}

Init ==
  /\ phase = [k \in Keys |-> "unsubscribed"]
  /\ owner = [k \in Keys |-> NoTask]
  /\ listeners = [k \in Keys |-> {}]
  /\ readiness = [t \in Tasks |-> "pending"]
  /\ pc = [t \in Tasks |-> "idle"]
  /\ key = [t \in Tasks |-> NoKey]
  /\ follows = [t \in Tasks |-> NoTask]
  /\ streamer = FALSE /\ opened = FALSE /\ hasConnected = FALSE
  /\ startLock = NoTask
  /\ activeKeys = {}
  /\ call = [t \in Tasks |-> "none"]
  /\ link = "none"
  /\ feed = {}

Goto(t, label) == pc' = [pc EXCEPT ![t] = label]

-----------------------------------------------------------------------------
(* MarketDataCoordinator.subscribe                                         *)

AtCapacity == Cardinality({k \in Keys : phase[k] # "unsubscribed"}) >= MaxActive

\* Mutant: an entry that is not yet subscribed is taken for none.
SubscribeFirstUnregistered(t, k) ==
  /\ pc[t] = "idle"
  /\ phase[k] # "subscribed"
  /\ ~AtCapacity \/ phase[k] # "unsubscribed"
  /\ phase' = [phase EXCEPT ![k] = "subscribing"]
  /\ owner' = [owner EXCEPT ![k] = t]
  /\ listeners' = [listeners EXCEPT ![k] = @ \cup {t}]
  /\ key' = [key EXCEPT ![t] = k]
  /\ follows' = [follows EXCEPT ![t] = t]
  /\ Goto(t, "starting")
  /\ UNCHANGED <<readiness, provider, call, link, feed>>

\* The first subscriber of a key creates the entry and calls the provider.
SubscribeFirst(t, k) ==
  /\ pc[t] = "idle"
  /\ phase[k] = "unsubscribed"
  /\ ~AtCapacity
  /\ phase' = [phase EXCEPT ![k] = "subscribing"]
  /\ owner' = [owner EXCEPT ![k] = t]
  /\ listeners' = [listeners EXCEPT ![k] = {t}]
  /\ key' = [key EXCEPT ![t] = k]
  /\ follows' = [follows EXCEPT ![t] = t]
  /\ Goto(t, "starting")
  /\ UNCHANGED <<readiness, provider, call, link, feed>>

SubscribeNext(t, k) ==
  /\ pc[t] = "idle"
  /\ phase[k] # "unsubscribed"
  /\ listeners' = [listeners EXCEPT ![k] = @ \cup {t}]
  /\ key' = [key EXCEPT ![t] = k]
  /\ follows' = [follows EXCEPT ![t] = owner[k]]
  /\ Goto(t, IF phase[k] = "subscribed" THEN "using" ELSE "waiting")
  /\ UNCHANGED <<phase, owner, readiness, provider, call, link, feed>>

SubscribeRefused(t, k) ==
  /\ pc[t] = "idle"
  /\ phase[k] = "unsubscribed"
  /\ AtCapacity
  /\ Goto(t, "done")
  /\ UNCHANGED <<coordinator, key, follows, provider, call, link, feed>>

\* The entry of k goes.
DropEntry(k) ==
  /\ phase' = [phase EXCEPT ![k] = "unsubscribed"]
  /\ owner' = [owner EXCEPT ![k] = NoTask]
  /\ listeners' = [listeners EXCEPT ![k] = {}]

\* Mutant: the rejected entry stays in the map.
RejectKept(t) ==
  /\ phase' = [phase EXCEPT ![key[t]] = "rejected"]
  /\ listeners' = [listeners EXCEPT ![key[t]] = {}]
  /\ readiness' = [readiness EXCEPT ![t] = "failed"]
  /\ UNCHANGED owner

\* Mutant: only the task's own queue is taken out.
RejectOwnListener(t) ==
  /\ listeners' = [listeners EXCEPT ![key[t]] = @ \ {t}]
  /\ phase' = [phase EXCEPT ![key[t]] = IF listeners[key[t]] = {t} THEN "unsubscribed" ELSE @]
  /\ owner' = [owner EXCEPT ![key[t]] = IF listeners[key[t]] = {t} THEN NoTask ELSE @]
  /\ readiness' = [readiness EXCEPT ![t] = "failed"]

\* Mutant: the readiness future is left pending.
RejectSilently(t) == DropEntry(key[t]) /\ UNCHANGED readiness

\* provider.subscribe raised, in the task t that created the entry: the entry is
\* rejected and dropped, and whoever waits for it is told.
RejectEntry(t) ==
  IF owner[key[t]] = t
  THEN DropEntry(key[t]) /\ readiness' = [readiness EXCEPT ![t] = "failed"]
  ELSE UNCHANGED coordinator

\* Then subscribe raises what the readiness future holds, or waits for it.
Rejected(t) == RejectEntry(t) /\ Goto(t, IF owner[key[t]] = t THEN "done" ELSE "waiting")

\* The readiness future is done: subscribe returns the queue, or raises.
WakeReady(t) ==
  /\ pc[t] = "waiting"
  /\ readiness[follows[t]] = "ready"
  /\ Goto(t, "using")
  /\ UNCHANGED <<coordinator, key, follows, provider, call, link, feed>>

WakeFailed(t) ==
  /\ pc[t] = "waiting"
  /\ readiness[follows[t]] = "failed"
  /\ Goto(t, "done")
  /\ UNCHANGED <<coordinator, key, follows, provider, call, link, feed>>

-----------------------------------------------------------------------------
(* UpstoxLiveMarketProvider.start and subscribe                            *)

\* There is no streamer: one is created and connected, under _start_lock.
StartConnect(t) ==
  /\ pc[t] = "starting"
  /\ startLock = NoTask
  /\ ~streamer
  /\ streamer' = TRUE
  /\ opened' = FALSE
  /\ startLock' = t
  /\ link' = "connecting"
  /\ Goto(t, "connecting")
  /\ UNCHANGED <<coordinator, key, follows, hasConnected, activeKeys, call, feed>>

\* There is one: wait until it has been open.
StartJoin(t) ==
  /\ pc[t] = "starting"
  /\ startLock = NoTask
  /\ streamer
  /\ startLock' = t
  /\ Goto(t, "joining")
  /\ UNCHANGED <<coordinator, key, follows, streamer, opened, hasConnected, activeKeys, call, link, feed>>

\* AuthenticationRequired: the token is gone since the connection was admitted.
StartUnauthenticated(t) ==
  /\ pc[t] = "starting"
  /\ startLock = NoTask
  /\ ~streamer
  /\ Rejected(t)
  /\ UNCHANGED <<key, follows, provider, call, link, feed>>

\* start returns, and streamer.subscribe is called on a thread.
Started(t) ==
  /\ pc[t] \in InStart
  /\ opened
  /\ startLock' = NoTask
  /\ IF streamer
     THEN /\ call' = [call EXCEPT ![t] = "subscribe"]
          /\ Goto(t, "calling")
          /\ UNCHANGED coordinator
     ELSE Rejected(t) /\ UNCHANGED call
  /\ UNCHANGED <<key, follows, streamer, opened, hasConnected, activeKeys, link, feed>>

\* connect raises: the streamer stays, and never opens.
ConnectRaises(t) ==
  /\ pc[t] = "connecting"
  /\ link = "connecting"
  /\ link' = "failed"
  /\ startLock' = NoTask
  /\ Rejected(t)
  /\ UNCHANGED <<key, follows, streamer, opened, hasConnected, activeKeys, call, feed>>

\* 20 seconds have passed.  A task that joins leaves the streamer as it is.
JoinTimeout(t) ==
  /\ pc[t] = "joining"
  /\ ~opened
  /\ startLock' = NoTask
  /\ Rejected(t)
  /\ UNCHANGED <<key, follows, streamer, opened, hasConnected, activeKeys, call, link, feed>>

\* The task that connects disconnects on a thread, and then forgets the streamer.
ConnectTimeout(t) ==
  /\ pc[t] = "connecting"
  /\ ~opened
  /\ link' = "none"
  /\ feed' = {}
  /\ Goto(t, "disconnecting")
  /\ UNCHANGED <<coordinator, key, follows, provider, call>>

Disconnected(t) ==
  /\ pc[t] = "disconnecting"
  /\ streamer' = FALSE
  /\ startLock' = NoTask
  /\ Rejected(t)
  /\ UNCHANGED <<key, follows, opened, hasConnected, activeKeys, call, link, feed>>

\* streamer.subscribe has returned: the rest of provider.subscribe and of
\* coordinator.subscribe awaits nothing.
Subscribed(t) ==
  /\ pc[t] = "calling"
  /\ call[t] = "returned"
  /\ call' = [call EXCEPT ![t] = "none"]
  /\ activeKeys' = activeKeys \cup {key[t]}
  /\ IF owner[key[t]] = t
     THEN /\ phase' = [phase EXCEPT ![key[t]] = "subscribed"]
          /\ readiness' = [readiness EXCEPT ![t] = "ready"]
     ELSE UNCHANGED <<phase, readiness>>
  /\ Goto(t, IF owner[key[t]] = t THEN "using" ELSE "waiting")
  /\ UNCHANGED <<owner, listeners, key, follows, streamer, opened, hasConnected, startLock, link, feed>>

SubscribeFailed(t) ==
  /\ pc[t] = "calling"
  /\ call[t] = "raised"
  /\ call' = [call EXCEPT ![t] = "none"]
  /\ Rejected(t)
  /\ UNCHANGED <<key, follows, provider, link, feed>>

\* The task is cancelled inside provider.subscribe: the lock is released, a
\* thread goes on.
CancelFirst(t) ==
  /\ pc[t] \in InProvider
  /\ startLock' = IF startLock = t THEN NoTask ELSE startLock
  /\ RejectEntry(t)
  /\ Goto(t, "done")
  /\ UNCHANGED <<key, follows, streamer, opened, hasConnected, activeKeys, call, link, feed>>

-----------------------------------------------------------------------------
(* MarketDataCoordinator.unsubscribe, then the provider's                  *)

\* Mutant: the entry goes with any of its listeners.
LeaveDropsEntry(t) ==
  /\ pc[t] \in {"waiting", "using"}
  /\ IF t \in listeners[key[t]] THEN DropEntry(key[t]) ELSE UNCHANGED <<phase, owner, listeners>>
  /\ Goto(t, "done")
  /\ UNCHANGED <<readiness, key, follows, provider, call, link, feed>>

\* The end of a connection, or the cancellation of a task that waits for its
\* entry to be ready.
Leave(t) ==
  /\ pc[t] \in {"waiting", "using"}
  /\ LET k == key[t]
         last == listeners[k] = {t}
         upstream == last /\ phase[k] = "subscribed"
     IN  IF t \notin listeners[k]
         THEN Goto(t, "done") /\ UNCHANGED <<coordinator, activeKeys, call>>
         ELSE /\ IF last
                 THEN DropEntry(k)
                 ELSE listeners' = [listeners EXCEPT ![k] = @ \ {t}] /\ UNCHANGED <<phase, owner>>
              /\ UNCHANGED readiness
              /\ Goto(t, IF upstream /\ streamer THEN "leaving" ELSE "done")
              /\ call' = [call EXCEPT ![t] = IF upstream /\ streamer THEN "unsubscribe" ELSE @]
              /\ activeKeys' = IF upstream /\ ~streamer THEN activeKeys \ {k} ELSE activeKeys
  /\ UNCHANGED <<key, follows, streamer, opened, hasConnected, startLock, link, feed>>

\* streamer.unsubscribe has returned, or raised.
Left(t) ==
  /\ pc[t] = "leaving"
  /\ call[t] \in {"returned", "raised"}
  /\ activeKeys' = IF call[t] = "returned" THEN activeKeys \ {key[t]} ELSE activeKeys
  /\ call' = [call EXCEPT ![t] = "none"]
  /\ Goto(t, "done")
  /\ UNCHANGED <<coordinator, key, follows, streamer, opened, hasConnected, startLock, link, feed>>

CancelLeave(t) ==
  /\ pc[t] = "leaving"
  /\ Goto(t, "done")
  /\ UNCHANGED <<coordinator, key, follows, provider, call, link, feed>>

\* MarketDataCoordinator.stop, in the shutdown of the application: the server has
\* ended the connections, and admits no more.
Stop ==
  /\ \A t \in Tasks : pc[t] \in {"idle", "done"}
  /\ pc' = [t \in Tasks |-> "done"]
  /\ streamer' = FALSE
  /\ link' = "none"
  /\ feed' = {}
  /\ UNCHANGED <<coordinator, key, follows, opened, hasConnected, startLock, activeKeys, call>>

-----------------------------------------------------------------------------
(* The threads and the web socket                                          *)

\* A request reaches the server, or raises because the socket is not open.
SdkCall(t) ==
  /\ call[t] \in {"subscribe", "unsubscribe"}
  /\ call' = [call EXCEPT ![t] = IF link = "open" THEN "returned" ELSE "raised"]
  /\ feed' = IF link # "open" THEN feed
             ELSE IF call[t] = "subscribe" THEN feed \cup {key[t]} ELSE feed \ {key[t]}
  /\ UNCHANGED <<coordinator, pc, key, follows, provider, link>>

\* _handle_open
Open ==
  /\ link \in {"connecting", "down"}
  /\ link' = "open"
  /\ opened' = TRUE
  /\ hasConnected' = TRUE
  /\ feed' = IF hasConnected /\ streamer THEN activeKeys ELSE {}
  /\ UNCHANGED <<coordinator, pc, key, follows, streamer, startLock, activeKeys, call>>

\* The socket closes, and the SDK reconnects until its attempts are exhausted.
Drop ==
  /\ link = "open"
  /\ link' = "down"
  /\ feed' = {}
  /\ UNCHANGED <<coordinator, pc, key, follows, provider, call>>

GiveUp ==
  /\ link \in {"connecting", "down"}
  /\ link' = "failed"
  /\ UNCHANGED <<coordinator, pc, key, follows, provider, call, feed>>

Progress(t) ==
  \/ WakeReady(t) \/ WakeFailed(t)
  \/ StartConnect(t) \/ StartJoin(t) \/ StartUnauthenticated(t) \/ Started(t)
  \/ ConnectRaises(t) \/ JoinTimeout(t) \/ ConnectTimeout(t) \/ Disconnected(t)
  \/ Subscribed(t) \/ SubscribeFailed(t) \/ Left(t) \/ SdkCall(t)

Next ==
  \/ \E t \in Tasks :
       \/ \E k \in Keys : SubscribeFirst(t, k) \/ SubscribeNext(t, k) \/ SubscribeRefused(t, k)
       \/ Progress(t) \/ CancelFirst(t) \/ Leave(t) \/ CancelLeave(t)
  \/ Stop \/ Open \/ Drop \/ GiveUp

Spec == Init /\ [][Next]_vars

\* The event loop runs what is ready, a wait has a timeout, a thread ends.
\* asyncio.Lock is fair to the tasks that wait for it.
FairSpec == Spec /\ \A t \in Tasks :
  /\ WF_vars(Progress(t))
  /\ SF_vars(StartConnect(t) \/ StartJoin(t) \/ StartUnauthenticated(t))

-----------------------------------------------------------------------------
TypeOK ==
  /\ phase \in [Keys -> {"unsubscribed", "subscribing", "subscribed"}]
  /\ owner \in [Keys -> Tasks \cup {NoTask}]
  /\ listeners \in [Keys -> SUBSET Tasks]
  /\ readiness \in [Tasks -> {"pending", "ready", "failed"}]
  /\ pc \in [Tasks -> {"idle", "waiting", "using", "leaving", "done"} \cup InProvider]
  /\ key \in [Tasks -> Keys \cup {NoKey}]
  /\ follows \in [Tasks -> Tasks \cup {NoTask}]
  /\ streamer \in BOOLEAN /\ opened \in BOOLEAN /\ hasConnected \in BOOLEAN
  /\ startLock \in Tasks \cup {NoTask}
  /\ activeKeys \subseteq Keys
  /\ call \in [Tasks -> {"none", "subscribe", "unsubscribe", "returned", "raised"}]
  /\ link \in {"none", "connecting", "open", "down", "failed"}
  /\ feed \subseteq Keys

\* A connection that has its queue is a listener of a subscribed entry until it
\* leaves, whoever else fails, leaves or is cancelled meanwhile (subscribe,
\* unsubscribe).
UsingIsListening ==
  \A t \in Tasks : pc[t] = "using" => t \in listeners[key[t]] /\ phase[key[t]] = "subscribed"

\* "No listener remains orphaned", and capacity is not held by an entry nobody
\* uses: every entry has a listener, and every listener is a task that is using
\* its queue or will be woken (the except branch of subscribe).
NoOrphanListener ==
  \A k \in Keys :
    /\ phase[k] # "unsubscribed" <=> listeners[k] # {}
    /\ \A t \in listeners[k] :
         /\ key[t] = k
         /\ pc[t] \in InProvider \cup {"waiting", "using"}
         /\ phase[k] = "subscribing" => follows[t] = owner[k] /\ pc[owner[k]] \in InProvider

\* "Exactly one upstream subscribe call occurs": two tasks are never inside
\* provider.subscribe for one key.
OneSubscriber ==
  \A t, u \in Tasks : pc[t] \in InProvider /\ pc[u] \in InProvider /\ key[t] = key[u] => t = u

\* Every connection that waits for an entry is answered, even when the task that
\* created the entry fails or is cancelled (the except branch of subscribe).
WaitersAnswered ==
  \A t \in Tasks : pc[t] = "waiting" ~> pc[t] # "waiting"

\* "Last subscriber triggers provider `unsubscribe`": a key nobody is subscribed
\* to is in the feed only while a call for it is on its way (the except branch of
\* subscribe, unsubscribe).
FeedIsWanted ==
  \A k \in feed :
    \/ phase[k] # "unsubscribed"
    \/ \E t \in Tasks :
         /\ key[t] = k
         /\ call[t] # "none"
         /\ pc[t] # "done" \/ call[t] \in {"subscribe", "unsubscribe"}

\* "Upstream unsubscribe occurs only when the final listener is removed": no
\* unsubscribe request is made for a key while it has a subscribed entry
\* (unsubscribe, and a new first subscriber in subscribe).
UnsubscribeAfterLast ==
  [][\A t \in Tasks : call[t] = "unsubscribe" /\ SdkCall(t) => phase[key[t]] # "subscribed"]_vars
=============================================================================
