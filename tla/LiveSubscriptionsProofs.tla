------------------------ MODULE LiveSubscriptionsProofs ------------------------
(***************************************************************************)
(* Live subscriptions: the entries of the coordinator and the tasks that   *)
(* use them, for any tasks, instrument keys and capacity.                  *)
(***************************************************************************)
EXTENDS LiveSubscriptions, TLAPS

\* Only the task that created an entry is inside the provider, until the entry is
\* ready or rejected.
OwnersSubscribe ==
  \A t \in Tasks : pc[t] \in InProvider =>
    /\ key[t] \in Keys
    /\ owner[key[t]] = t
    /\ phase[key[t]] = "subscribing"
    /\ t \in listeners[key[t]]
    /\ readiness[t] = "pending"

\* A task that has not subscribed has decided nothing.
IdleIsPending == \A t \in Tasks : pc[t] = "idle" => readiness[t] = "pending"

\* An entry that is not ready has its creator inside the provider.
SubscribingIsOwned ==
  \A k \in Keys : phase[k] = "subscribing" =>
    owner[k] \in Tasks /\ pc[owner[k]] \in InProvider /\ key[owner[k]] = k

\* An entry that is not ready, or is, was created by a task.
EntriesAreOwned == \A k \in Keys : phase[k] # "unsubscribed" => owner[k] \in Tasks

\* What a task that waits knows of its entry from the future it awaits.
WaitersFollow ==
  \A t \in Tasks : pc[t] = "waiting" =>
    /\ key[t] \in Keys
    /\ follows[t] \in Tasks
    /\ readiness[follows[t]] = "pending" =>
         /\ t \in listeners[key[t]]
         /\ phase[key[t]] = "subscribing"
         /\ owner[key[t]] = follows[t]
    /\ readiness[follows[t]] = "ready" =>
         t \in listeners[key[t]] /\ phase[key[t]] = "subscribed"
    /\ readiness[follows[t]] = "failed" => t \notin listeners[key[t]]

UsersHaveKeys == \A t \in Tasks : pc[t] \in {"using", "leaving"} => key[t] \in Keys

\* The inductive invariant of the coordinator.
EntriesInv ==
  /\ OwnersSubscribe
  /\ IdleIsPending
  /\ SubscribingIsOwned
  /\ EntriesAreOwned
  /\ WaitersFollow
  /\ UsersHaveKeys
  /\ UsingIsListening
  /\ NoOrphanListener

\* A call on a thread is for the key of its task, which may be done.
CallsHaveKeys == \A t \in Tasks : call[t] # "none" => key[t] \in Keys

SubscriptionsInv == TypeOK /\ CallsHaveKeys /\ EntriesInv

-----------------------------------------------------------------------------
\* A step inside the provider leaves the entries as they are.
LEMMA InsideKeepsEntries ==
  ASSUME SubscriptionsInv, NEW t \in Tasks, NEW l \in InProvider,
         pc[t] \in InProvider, Goto(t, l), UNCHANGED <<coordinator, key, follows>>
  PROVE  EntriesInv'
<1> USE DEF SubscriptionsInv, EntriesInv, TypeOK, Goto, coordinator
<1>1. \A u \in Tasks : /\ pc'[u] \in InProvider <=> pc[u] \in InProvider
                       /\ pc'[u] \notin InProvider => pc'[u] = pc[u]
  OBVIOUS
<1>2. l \notin {"idle", "waiting", "using", "leaving", "done"}
  BY DEF InProvider, InStart
<1>3. \A u \in Tasks, x \in {"idle", "waiting", "using", "leaving"} : pc'[u] = x => pc[u] = x
  BY <1>2
<1>4. OwnersSubscribe'
  BY <1>1 DEF OwnersSubscribe
<1>5. IdleIsPending' /\ UsersHaveKeys' /\ UsingIsListening'
  BY <1>3 DEF IdleIsPending, UsersHaveKeys, UsingIsListening
<1>6. SubscribingIsOwned' /\ EntriesAreOwned'
  BY <1>1 DEF SubscribingIsOwned, EntriesAreOwned
<1>7. WaitersFollow'
  BY <1>3 DEF WaitersFollow
<1>8. NoOrphanListener'
  BY <1>1 DEF NoOrphanListener, SubscribingIsOwned
<1> QED
  BY <1>4, <1>5, <1>6, <1>7, <1>8

\* A task that leaves the provider because its call failed takes the entry it created
\* with it, and tells whoever waits for it.
LEMMA RejectKeepsEntries ==
  ASSUME SubscriptionsInv, NEW t \in Tasks, pc[t] \in InProvider,
         RejectEntry(t), Goto(t, "done"), UNCHANGED <<key, follows>>
  PROVE  EntriesInv'
<1> USE DEF SubscriptionsInv, EntriesInv, TypeOK
<1> DEFINE k == key[t]
<1>1. /\ k \in Keys /\ owner[k] = t /\ phase[k] = "subscribing"
      /\ t \in listeners[k] /\ readiness[t] = "pending"
  BY DEF OwnersSubscribe
<1>2. /\ phase' = [phase EXCEPT ![k] = "unsubscribed"]
      /\ owner' = [owner EXCEPT ![k] = NoTask]
      /\ listeners' = [listeners EXCEPT ![k] = {}]
      /\ readiness' = [readiness EXCEPT ![t] = "failed"]
      /\ pc' = [pc EXCEPT ![t] = "done"]
      /\ key' = key /\ follows' = follows
  BY <1>1 DEF RejectEntry, DropEntry, Goto
<1>3. "done" \notin InProvider
  BY DEF InProvider, InStart
<1>4. \A u \in Tasks : pc[u] \in InProvider /\ key[u] = k => u = t
  BY <1>1 DEF OwnersSubscribe
<1>5. \A j \in Keys : j # k /\ phase[j] = "subscribing" => owner[j] # t
  BY DEF SubscribingIsOwned
<1> HIDE DEF k
<1>6. OwnersSubscribe'
  BY <1>2, <1>3, <1>4 DEF OwnersSubscribe
<1>7. IdleIsPending' /\ UsersHaveKeys'
  BY <1>2 DEF IdleIsPending, UsersHaveKeys
<1>8. SubscribingIsOwned' /\ EntriesAreOwned'
  BY <1>1, <1>2, <1>5 DEF SubscribingIsOwned, EntriesAreOwned
<1>9. WaitersFollow'
  <2> SUFFICES ASSUME NEW u \in Tasks, pc'[u] = "waiting"
               PROVE  /\ key[u] \in Keys
                      /\ follows[u] \in Tasks
                      /\ readiness'[follows[u]] = "pending" =>
                           /\ u \in listeners'[key[u]]
                           /\ phase'[key[u]] = "subscribing"
                           /\ owner'[key[u]] = follows[u]
                      /\ readiness'[follows[u]] = "ready" =>
                           u \in listeners'[key[u]] /\ phase'[key[u]] = "subscribed"
                      /\ readiness'[follows[u]] = "failed" => u \notin listeners'[key[u]]
    BY <1>2 DEF WaitersFollow
  <2>1. pc[u] = "waiting" /\ key[u] \in Keys /\ follows[u] \in Tasks
    BY <1>2 DEF WaitersFollow
  <2>2. CASE follows[u] = t
    <3>1. key[u] = k
      BY <1>1, <2>1, <2>2 DEF WaitersFollow, SubscribingIsOwned, k
    <3> QED
      BY <1>1, <1>2, <2>1, <2>2, <3>1
  <2>3. CASE follows[u] # t /\ readiness[follows[u]] # "failed"
    <3>1. key[u] # k
      BY <1>1, <2>1, <2>3 DEF WaitersFollow
    <3> QED
      BY <1>2, <2>1, <2>3, <3>1 DEF WaitersFollow
  <2>4. CASE follows[u] # t /\ readiness[follows[u]] = "failed"
    BY <1>1, <1>2, <2>1, <2>4 DEF WaitersFollow
  <2> QED
    BY <2>2, <2>3, <2>4
<1>10. UsingIsListening'
  BY <1>1, <1>2 DEF UsingIsListening, UsersHaveKeys
<1>11. NoOrphanListener'
  BY <1>1, <1>2, <1>3, <1>5 DEF NoOrphanListener
<1> QED
  BY <1>6, <1>7, <1>8, <1>9, <1>10, <1>11

\* The call of the task that created an entry has returned: the entry is ready.
LEMMA SubscribedKeepsEntries ==
  ASSUME SubscriptionsInv, NEW t \in Tasks, Subscribed(t)
  PROVE  EntriesInv'
<1> USE DEF SubscriptionsInv, EntriesInv, TypeOK
<1> DEFINE k == key[t]
<1>0. pc[t] \in InProvider
  BY DEF Subscribed, InProvider
<1>1. /\ k \in Keys /\ owner[k] = t /\ phase[k] = "subscribing"
      /\ t \in listeners[k] /\ readiness[t] = "pending"
  BY <1>0 DEF OwnersSubscribe
<1>2. /\ phase' = [phase EXCEPT ![k] = "subscribed"]
      /\ readiness' = [readiness EXCEPT ![t] = "ready"]
      /\ pc' = [pc EXCEPT ![t] = "using"]
      /\ owner' = owner /\ listeners' = listeners /\ key' = key /\ follows' = follows
  BY <1>1 DEF Subscribed, Goto
<1>3. "using" \notin InProvider
  BY DEF InProvider, InStart
<1>4. \A u \in Tasks : pc[u] \in InProvider /\ key[u] = k => u = t
  BY <1>1 DEF OwnersSubscribe
<1>5. \A j \in Keys : j # k /\ phase[j] = "subscribing" => owner[j] # t
  BY DEF SubscribingIsOwned
<1> HIDE DEF k
<1>6. OwnersSubscribe'
  BY <1>2, <1>3, <1>4 DEF OwnersSubscribe
<1>7. IdleIsPending' /\ UsersHaveKeys'
  BY <1>1, <1>2 DEF IdleIsPending, UsersHaveKeys, k
<1>8. SubscribingIsOwned' /\ EntriesAreOwned'
  BY <1>1, <1>2, <1>5 DEF SubscribingIsOwned, EntriesAreOwned
<1>9. WaitersFollow'
  <2> SUFFICES ASSUME NEW u \in Tasks, pc'[u] = "waiting"
               PROVE  /\ key[u] \in Keys
                      /\ follows[u] \in Tasks
                      /\ readiness'[follows[u]] = "pending" =>
                           /\ u \in listeners[key[u]]
                           /\ phase'[key[u]] = "subscribing"
                           /\ owner[key[u]] = follows[u]
                      /\ readiness'[follows[u]] = "ready" =>
                           u \in listeners[key[u]] /\ phase'[key[u]] = "subscribed"
                      /\ readiness'[follows[u]] = "failed" => u \notin listeners[key[u]]
    BY <1>2 DEF WaitersFollow
  <2>1. pc[u] = "waiting" /\ key[u] \in Keys /\ follows[u] \in Tasks
    BY <1>2 DEF WaitersFollow
  <2>2. CASE follows[u] = t
    <3>1. key[u] = k /\ u \in listeners[k]
      BY <1>1, <2>1, <2>2 DEF WaitersFollow, SubscribingIsOwned, k
    <3> QED
      BY <1>1, <1>2, <2>1, <2>2, <3>1
  <2>3. CASE follows[u] # t
    BY <1>1, <1>2, <2>1, <2>3 DEF WaitersFollow
  <2> QED
    BY <2>2, <2>3
<1>10. UsingIsListening'
  BY <1>1, <1>2 DEF UsingIsListening, UsersHaveKeys, k
<1>11. NoOrphanListener'
  BY <1>1, <1>2, <1>3, <1>5 DEF NoOrphanListener
<1> QED
  BY <1>6, <1>7, <1>8, <1>9, <1>10, <1>11

\* A first subscriber creates an entry where there is none.
LEMMA SubscribeFirstKeepsEntries ==
  ASSUME SubscriptionsInv, NEW t \in Tasks, NEW k \in Keys, SubscribeFirst(t, k)
  PROVE  EntriesInv'
<1> USE DEF SubscriptionsInv, EntriesInv, TypeOK
<1>1. pc[t] = "idle" /\ phase[k] = "unsubscribed" /\ readiness[t] = "pending" /\ listeners[k] = {}
  BY DEF SubscribeFirst, IdleIsPending, NoOrphanListener
<1>2. /\ phase' = [phase EXCEPT ![k] = "subscribing"]
      /\ owner' = [owner EXCEPT ![k] = t]
      /\ listeners' = [listeners EXCEPT ![k] = {t}]
      /\ key' = [key EXCEPT ![t] = k]
      /\ follows' = [follows EXCEPT ![t] = t]
      /\ pc' = [pc EXCEPT ![t] = "starting"]
      /\ readiness' = readiness
  BY DEF SubscribeFirst, Goto
<1>3. "starting" \in InProvider /\ "idle" \notin InProvider \cup {"waiting", "using"}
  BY DEF InProvider, InStart
<1>4. \A j \in Keys : t \notin listeners[j]
  BY <1>1, <1>3 DEF NoOrphanListener
<1>5. \A u \in Tasks : pc[u] \in InProvider => u # t /\ key[u] # k
  BY <1>1, <1>3 DEF OwnersSubscribe
<1>6. OwnersSubscribe'
  BY <1>1, <1>2, <1>5 DEF OwnersSubscribe
<1>7. IdleIsPending' /\ UsersHaveKeys'
  BY <1>2 DEF IdleIsPending, UsersHaveKeys
<1>8. SubscribingIsOwned' /\ EntriesAreOwned'
  BY <1>1, <1>2, <1>3 DEF SubscribingIsOwned, EntriesAreOwned
<1>9. WaitersFollow'
  <2>1. \A u \in Tasks : pc'[u] = "waiting" => /\ pc[u] = "waiting" /\ u # t
                                               /\ key'[u] = key[u] /\ follows'[u] = follows[u]
    BY <1>1, <1>2
  <2>2. \A u \in Tasks : pc[u] = "waiting" /\ key[u] = k => readiness[follows[u]] = "failed"
    BY <1>1 DEF WaitersFollow
  <2> QED
    BY <1>1, <1>2, <2>1, <2>2 DEF WaitersFollow
<1>10. UsingIsListening'
  BY <1>1, <1>2 DEF UsingIsListening, UsersHaveKeys
<1>11. NoOrphanListener'
  <2>1. \A j \in Keys : phase'[j] # "unsubscribed" <=> listeners'[j] # {}
    BY <1>1, <1>2 DEF NoOrphanListener
  <2>2. \A u \in listeners'[k] : u = t
    BY <1>2
  <2>3. \A j \in Keys : j # k /\ phase[j] = "subscribing" => owner[j] \in Tasks /\ owner[j] # t
    BY <1>1, <1>3 DEF SubscribingIsOwned
  <2> QED
    BY <1>1, <1>2, <1>3, <1>4, <2>1, <2>2, <2>3 DEF NoOrphanListener
<1> QED
  BY <1>6, <1>7, <1>8, <1>9, <1>10, <1>11

\* A later subscriber joins the entry there is, and follows its creator.
LEMMA SubscribeNextKeepsEntries ==
  ASSUME SubscriptionsInv, NEW t \in Tasks, NEW k \in Keys, SubscribeNext(t, k)
  PROVE  EntriesInv'
<1> USE DEF SubscriptionsInv, EntriesInv, TypeOK
<1> DEFINE l == IF phase[k] = "subscribed" THEN "using" ELSE "waiting"
<1>1. pc[t] = "idle" /\ phase[k] # "unsubscribed" /\ owner[k] \in Tasks
  BY DEF SubscribeNext, EntriesAreOwned
<1>2. /\ listeners' = [listeners EXCEPT ![k] = @ \cup {t}]
      /\ key' = [key EXCEPT ![t] = k]
      /\ follows' = [follows EXCEPT ![t] = owner[k]]
      /\ pc' = [pc EXCEPT ![t] = l]
      /\ phase' = phase /\ owner' = owner /\ readiness' = readiness
  BY DEF SubscribeNext, Goto
<1>3. "idle" \notin InProvider \cup {"waiting", "using"} /\ l \notin InProvider
  BY DEF InProvider, InStart
<1>4. \A j \in Keys : t \notin listeners[j]
  BY <1>1, <1>3 DEF NoOrphanListener
<1>5. phase[k] = "subscribing" => /\ pc[owner[k]] \in InProvider
                                  /\ key[owner[k]] = k
                                  /\ readiness[owner[k]] = "pending"
                                  /\ owner[k] # t
  BY <1>1, <1>3 DEF SubscribingIsOwned, OwnersSubscribe
<1>6. OwnersSubscribe'
  BY <1>1, <1>2, <1>3 DEF OwnersSubscribe
<1>7. IdleIsPending' /\ UsersHaveKeys'
  BY <1>2 DEF IdleIsPending, UsersHaveKeys
<1>8. SubscribingIsOwned' /\ EntriesAreOwned'
  BY <1>1, <1>2, <1>3 DEF SubscribingIsOwned, EntriesAreOwned
<1>9. WaitersFollow'
  <2>1. ASSUME NEW u \in Tasks, pc'[u] = "waiting", u # t
        PROVE  /\ pc[u] = "waiting" /\ key'[u] = key[u] /\ follows'[u] = follows[u]
               /\ u \in listeners'[key[u]] <=> u \in listeners[key[u]]
    BY <1>2, <2>1 DEF WaitersFollow
  <2>2. pc'[t] = "waiting" => /\ key'[t] = k /\ t \in listeners'[k] /\ follows'[t] = owner[k]
                              /\ phase[k] = "subscribing" /\ readiness[owner[k]] = "pending"
    BY <1>1, <1>2, <1>5
  <2>3. ASSUME NEW u \in Tasks, pc'[u] = "waiting", u # t
        PROVE  /\ key'[u] \in Keys
               /\ follows'[u] \in Tasks
               /\ readiness'[follows'[u]] = "pending" =>
                    /\ u \in listeners'[key'[u]]
                    /\ phase'[key'[u]] = "subscribing"
                    /\ owner'[key'[u]] = follows'[u]
               /\ readiness'[follows'[u]] = "ready" =>
                    u \in listeners'[key'[u]] /\ phase'[key'[u]] = "subscribed"
               /\ readiness'[follows'[u]] = "failed" => u \notin listeners'[key'[u]]
    BY <1>2, <2>1, <2>3 DEF WaitersFollow
  <2> QED
    BY <1>1, <1>2, <2>2, <2>3 DEF WaitersFollow
<1>10. UsingIsListening'
  BY <1>1, <1>2 DEF UsingIsListening, UsersHaveKeys
<1>11. NoOrphanListener'
  BY <1>1, <1>2, <1>3, <1>4, <1>5 DEF NoOrphanListener, SubscribingIsOwned
<1> QED
  BY <1>6, <1>7, <1>8, <1>9, <1>10, <1>11

\* A connection that ends takes its queue out of the entry, and the entry with the
\* last of them.
LEMMA LeaveKeepsEntries ==
  ASSUME SubscriptionsInv, NEW t \in Tasks, Leave(t)
  PROVE  EntriesInv'
<1> USE DEF SubscriptionsInv, EntriesInv, TypeOK
<1> DEFINE k == key[t]
<1>1. pc[t] \in {"waiting", "using"} /\ k \in Keys
  BY DEF Leave, WaitersFollow, UsersHaveKeys
<1>2. PICK l \in {"done", "leaving"} : pc' = [pc EXCEPT ![t] = l]
  BY DEF Leave, Goto
<1>3. /\ readiness' = readiness /\ key' = key /\ follows' = follows
      /\ listeners' = [listeners EXCEPT ![k] = @ \ {t}]
      /\ IF listeners[k] = {t}
         THEN phase' = [phase EXCEPT ![k] = "unsubscribed"] /\ owner' = [owner EXCEPT ![k] = NoTask]
         ELSE phase' = phase /\ owner' = owner
  <2>1. CASE t \notin listeners[k]
    BY <1>1, <2>1 DEF Leave, coordinator
  <2>2. CASE listeners[k] = {t}
    BY <1>1, <2>2 DEF Leave, DropEntry
  <2>3. CASE t \in listeners[k] /\ listeners[k] # {t}
    BY <1>1, <2>3 DEF Leave
  <2> QED
    BY <2>1, <2>2, <2>3
<1>4. /\ {"waiting", "using"} \cap InProvider = {}
      /\ {"done", "leaving"} \cap (InProvider \cup {"waiting", "using"}) = {}
  BY DEF InProvider, InStart
<1>5. \A u \in Tasks : pc[u] \in InProvider =>
        u # t /\ (key[u] = k => u \in listeners[k] /\ listeners[k] # {t})
  BY <1>1, <1>4 DEF OwnersSubscribe
<1>6. \A u \in Tasks : t # u /\ u \in listeners[k] => listeners[k] # {t}
  OBVIOUS
<1> HIDE DEF k
<1>7. OwnersSubscribe'
  BY <1>1, <1>2, <1>3, <1>4, <1>5 DEF OwnersSubscribe
<1>8. IdleIsPending' /\ UsersHaveKeys'
  BY <1>1, <1>2, <1>3 DEF IdleIsPending, UsersHaveKeys, k
<1>9. SubscribingIsOwned' /\ EntriesAreOwned'
  BY <1>1, <1>2, <1>3, <1>4, <1>5 DEF SubscribingIsOwned, EntriesAreOwned
<1>10. WaitersFollow'
  BY <1>1, <1>2, <1>3, <1>6 DEF WaitersFollow
<1>11. UsingIsListening'
  BY <1>1, <1>2, <1>3, <1>6 DEF UsingIsListening, UsersHaveKeys
<1>12. NoOrphanListener'
  <2>1. \A j \in Keys : phase'[j] # "unsubscribed" <=> listeners'[j] # {}
    BY <1>1, <1>3 DEF NoOrphanListener
  <2>2. ASSUME NEW j \in Keys, NEW u \in listeners'[j]
        PROVE  /\ u # t /\ key'[u] = j
               /\ pc'[u] \in InProvider \cup {"waiting", "using"}
               /\ phase'[j] = "subscribing" => follows'[u] = owner'[j] /\ pc'[owner'[j]] \in InProvider
    <3>1. u \in listeners[j] /\ u # t
      BY <1>1, <1>3 DEF NoOrphanListener, k
    <3>2. phase'[j] = "subscribing" => phase[j] = "subscribing" /\ owner'[j] = owner[j]
                                       /\ owner[j] \in Tasks /\ owner[j] # t
      BY <1>1, <1>3, <1>4 DEF SubscribingIsOwned
    <3> QED
      BY <1>2, <1>3, <3>1, <3>2 DEF NoOrphanListener
  <2> QED
    BY <2>1, <2>2 DEF NoOrphanListener
<1> QED
  BY <1>7, <1>8, <1>9, <1>10, <1>11, <1>12

\* A task whose future is ready uses its queue.
LEMMA WakeReadyKeepsEntries ==
  ASSUME SubscriptionsInv, NEW t \in Tasks, WakeReady(t)
  PROVE  EntriesInv'
<1> USE DEF SubscriptionsInv, EntriesInv, TypeOK
<1>1. /\ pc[t] = "waiting" /\ pc' = [pc EXCEPT ![t] = "using"]
      /\ UNCHANGED <<phase, owner, listeners, readiness, key, follows>>
      /\ key[t] \in Keys /\ t \in listeners[key[t]] /\ phase[key[t]] = "subscribed"
  BY DEF WakeReady, Goto, coordinator, WaitersFollow
<1>2. "waiting" \notin InProvider /\ "using" \notin InProvider
  BY DEF InProvider, InStart
<1>3. OwnersSubscribe' /\ IdleIsPending' /\ SubscribingIsOwned' /\ EntriesAreOwned'
  BY <1>1, <1>2 DEF OwnersSubscribe, IdleIsPending, SubscribingIsOwned, EntriesAreOwned
<1>4. WaitersFollow' /\ UsersHaveKeys' /\ UsingIsListening'
  BY <1>1 DEF WaitersFollow, UsersHaveKeys, UsingIsListening
<1>5. NoOrphanListener'
  BY <1>1, <1>2 DEF NoOrphanListener, SubscribingIsOwned
<1> QED
  BY <1>3, <1>4, <1>5

\* A task that is done leaves nothing behind in the entries.
LEMMA DoneKeepsEntries ==
  ASSUME SubscriptionsInv, NEW t \in Tasks, Goto(t, "done"),
         \/ pc[t] \in {"idle", "leaving"}
         \/ pc[t] = "waiting" /\ readiness[follows[t]] = "failed",
         UNCHANGED <<coordinator, key, follows>>
  PROVE  EntriesInv'
<1> USE DEF SubscriptionsInv, EntriesInv, TypeOK
<1>1. /\ pc' = [pc EXCEPT ![t] = "done"]
      /\ UNCHANGED <<phase, owner, listeners, readiness, key, follows>>
  BY DEF Goto, coordinator
<1>2. {"idle", "leaving", "waiting", "done"} \cap InProvider = {}
  BY DEF InProvider, InStart
<1>3. \A k \in Keys : t \notin listeners[k]
  BY <1>2 DEF NoOrphanListener, WaitersFollow
<1>4. OwnersSubscribe' /\ IdleIsPending' /\ SubscribingIsOwned' /\ EntriesAreOwned'
  BY <1>1, <1>2 DEF OwnersSubscribe, IdleIsPending, SubscribingIsOwned, EntriesAreOwned
<1>5. WaitersFollow' /\ UsersHaveKeys' /\ UsingIsListening'
  BY <1>1 DEF WaitersFollow, UsersHaveKeys, UsingIsListening
<1>6. NoOrphanListener'
  BY <1>1, <1>2, <1>3 DEF NoOrphanListener, SubscribingIsOwned
<1> QED
  BY <1>4, <1>5, <1>6

LEMMA StopKeepsEntries ==
  ASSUME SubscriptionsInv, Stop
  PROVE  EntriesInv'
<1> USE DEF SubscriptionsInv, EntriesInv, TypeOK
<1>1. /\ \A t \in Tasks : pc[t] \in {"idle", "done"}
      /\ pc' = [t \in Tasks |-> "done"]
      /\ UNCHANGED <<phase, owner, listeners, readiness, key, follows>>
  BY DEF Stop, coordinator
<1>2. {"idle", "done", "waiting", "using"} \cap InProvider = {}
  BY DEF InProvider, InStart
<1>3. \A k \in Keys : listeners[k] = {} /\ phase[k] = "unsubscribed"
  BY <1>1, <1>2 DEF NoOrphanListener
<1> QED
  BY <1>1, <1>2, <1>3 DEF OwnersSubscribe, IdleIsPending, SubscribingIsOwned,
     EntriesAreOwned, WaitersFollow, UsersHaveKeys, UsingIsListening, NoOrphanListener

\* Every step keeps the entries and the tasks in agreement.
LEMMA NextKeepsEntries ==
  ASSUME SubscriptionsInv, Next
  PROVE  EntriesInv'
<1>1. ASSUME NEW t \in Tasks, NEW k \in Keys,
             SubscribeFirst(t, k) \/ SubscribeNext(t, k) \/ SubscribeRefused(t, k)
      PROVE  EntriesInv'
  <2>1. CASE SubscribeFirst(t, k)
    BY <1>1, <2>1, SubscribeFirstKeepsEntries
  <2>2. CASE SubscribeNext(t, k)
    BY <1>1, <2>2, SubscribeNextKeepsEntries
  <2>3. CASE SubscribeRefused(t, k)
    BY <1>1, <2>3, DoneKeepsEntries DEF SubscribeRefused
  <2> QED
    BY <1>1, <2>1, <2>2, <2>3
<1>2. ASSUME NEW t \in Tasks, Progress(t) PROVE EntriesInv'
  <2>1. CASE WakeReady(t)
    BY <1>2, <2>1, WakeReadyKeepsEntries
  <2>2. CASE WakeFailed(t)
    BY <1>2, <2>2, DoneKeepsEntries DEF WakeFailed
  <2>3. CASE StartConnect(t) \/ StartJoin(t) \/ ConnectTimeout(t)
    BY <1>2, <2>3, InsideKeepsEntries
    DEF StartConnect, StartJoin, ConnectTimeout, InProvider, InStart
  <2>4. CASE \/ StartUnauthenticated(t) \/ ConnectRaises(t) \/ JoinTimeout(t)
             \/ Disconnected(t) \/ SubscribeFailed(t) \/ (Started(t) /\ ~streamer)
    <3>1. pc[t] \in InProvider /\ Rejected(t) /\ UNCHANGED <<key, follows>>
      BY <1>2, <2>4 DEF StartUnauthenticated, ConnectRaises, JoinTimeout, Disconnected,
         SubscribeFailed, Started, InProvider, InStart
    <3>2. owner[key[t]] = t
      BY <1>2, <3>1 DEF SubscriptionsInv, EntriesInv, OwnersSubscribe
    <3> QED
      BY <1>2, <3>1, <3>2, RejectKeepsEntries DEF Rejected
  <2>5. CASE Started(t) /\ streamer
    BY <1>2, <2>5, InsideKeepsEntries DEF Started, InProvider
  <2>6. CASE Subscribed(t)
    BY <1>2, <2>6, SubscribedKeepsEntries
  <2>7. CASE Left(t)
    BY <1>2, <2>7, DoneKeepsEntries DEF Left
  <2>8. CASE SdkCall(t)
    BY <1>2, <2>8 DEF SdkCall, coordinator, SubscriptionsInv, EntriesInv, OwnersSubscribe,
       IdleIsPending, SubscribingIsOwned, EntriesAreOwned, WaitersFollow, UsersHaveKeys,
       UsingIsListening, NoOrphanListener
  <2> QED
    BY <1>2, <2>1, <2>2, <2>3, <2>4, <2>5, <2>6, <2>7, <2>8 DEF Progress
<1>3. ASSUME NEW t \in Tasks, CancelFirst(t) PROVE EntriesInv'
  BY <1>3, RejectKeepsEntries DEF CancelFirst
<1>4. ASSUME NEW t \in Tasks, Leave(t) PROVE EntriesInv'
  BY <1>4, LeaveKeepsEntries
<1>5. ASSUME NEW t \in Tasks, CancelLeave(t) PROVE EntriesInv'
  BY <1>5, DoneKeepsEntries DEF CancelLeave
<1>6. CASE Stop
  BY <1>6, StopKeepsEntries
<1>7. CASE Open \/ Drop \/ GiveUp
  BY <1>7 DEF Open, Drop, GiveUp, coordinator, SubscriptionsInv, EntriesInv, OwnersSubscribe,
     IdleIsPending, SubscribingIsOwned, EntriesAreOwned, WaitersFollow, UsersHaveKeys,
     UsingIsListening, NoOrphanListener
<1> QED
  BY <1>1, <1>2, <1>3, <1>4, <1>5, <1>6, <1>7 DEF Next

-----------------------------------------------------------------------------
\* Every step keeps the variables in their types, and the keys of the calls.
LEMMA NextKeepsTypes ==
  ASSUME SubscriptionsInv, Next
  PROVE  TypeOK' /\ CallsHaveKeys'
<1> USE DEF TypeOK, CallsHaveKeys, SubscriptionsInv, EntriesInv
<1>1. ASSUME NEW t \in Tasks, NEW k \in Keys,
             SubscribeFirst(t, k) \/ SubscribeNext(t, k) \/ SubscribeRefused(t, k)
      PROVE  TypeOK' /\ CallsHaveKeys'
  <2>1. CASE SubscribeFirst(t, k)
    BY <1>1, <2>1 DEF SubscribeFirst, Goto, InProvider, InStart, provider
  <2>2. CASE SubscribeNext(t, k)
    BY <1>1, <2>2 DEF SubscribeNext, Goto, InProvider, InStart, provider
  <2>3. CASE SubscribeRefused(t, k)
    BY <1>1, <2>3 DEF SubscribeRefused, Goto, InProvider, InStart, provider, coordinator
  <2> QED
    BY <1>1, <2>1, <2>2, <2>3
\* A rejection, whoever makes it.
<1>2. ASSUME NEW t \in Tasks, RejectEntry(t), UNCHANGED key
      PROVE  /\ phase' \in [Keys -> {"unsubscribed", "subscribing", "subscribed"}]
             /\ owner' \in [Keys -> Tasks \cup {NoTask}]
             /\ listeners' \in [Keys -> SUBSET Tasks]
             /\ readiness' \in [Tasks -> {"pending", "ready", "failed"}]
  BY <1>2 DEF RejectEntry, DropEntry, coordinator
<1>3. ASSUME NEW t \in Tasks, Rejected(t), UNCHANGED key
      PROVE  /\ phase' \in [Keys -> {"unsubscribed", "subscribing", "subscribed"}]
             /\ owner' \in [Keys -> Tasks \cup {NoTask}]
             /\ listeners' \in [Keys -> SUBSET Tasks]
             /\ readiness' \in [Tasks -> {"pending", "ready", "failed"}]
             /\ pc' \in [Tasks -> {"idle", "waiting", "using", "leaving", "done"} \cup InProvider]
  BY <1>2, <1>3 DEF Rejected, Goto
<1>4. ASSUME NEW t \in Tasks, Progress(t) PROVE TypeOK' /\ CallsHaveKeys'
  <2>1. CASE WakeReady(t) \/ WakeFailed(t)
    BY <1>4, <2>1 DEF WakeReady, WakeFailed, Goto, InProvider, InStart, provider, coordinator
  <2>2. CASE StartConnect(t) \/ StartJoin(t) \/ ConnectTimeout(t)
    <3>1. CASE StartConnect(t)
      BY <1>4, <3>1 DEF StartConnect, Goto, InProvider, InStart, coordinator
    <3>2. CASE StartJoin(t)
      BY <1>4, <3>2 DEF StartJoin, Goto, InProvider, InStart, coordinator
    <3>3. CASE ConnectTimeout(t)
      BY <1>4, <3>3 DEF ConnectTimeout, Goto, InProvider, InStart, provider, coordinator
    <3> QED
      BY <2>2, <3>1, <3>2, <3>3
  <2>3. CASE Started(t) /\ streamer
    <3>1. key[t] \in Keys
      BY <1>4, <2>3 DEF Started, OwnersSubscribe, InProvider
    <3> QED
      BY <1>4, <2>3, <3>1 DEF Started, Goto, InProvider, InStart, coordinator
  <2>4. CASE Started(t) /\ ~streamer
    BY <1>3, <1>4, <2>4 DEF Started
  <2>5. CASE StartUnauthenticated(t) \/ ConnectRaises(t) \/ JoinTimeout(t) \/ Disconnected(t)
    BY <1>3, <1>4, <2>5 DEF StartUnauthenticated, ConnectRaises, JoinTimeout, Disconnected, provider
  <2>6. CASE SubscribeFailed(t)
    BY <1>3, <1>4, <2>6 DEF SubscribeFailed, provider
  <2>7. CASE Subscribed(t)
    <3>1. key[t] \in Keys
      BY <1>4, <2>7 DEF Subscribed, OwnersSubscribe, InProvider
    <3> QED
      BY <1>4, <2>7, <3>1 DEF Subscribed, Goto, InProvider, InStart
  <2>8. CASE Left(t)
    BY <1>4, <2>8 DEF Left, Goto, InProvider, InStart, coordinator
  <2>9. CASE SdkCall(t)
    BY <1>4, <2>9 DEF SdkCall, coordinator, provider
  <2> QED
    BY <1>4, <2>1, <2>2, <2>3, <2>4, <2>5, <2>6, <2>7, <2>8, <2>9 DEF Progress
<1>5. ASSUME NEW t \in Tasks, CancelFirst(t) PROVE TypeOK' /\ CallsHaveKeys'
  BY <1>2, <1>5 DEF CancelFirst, Goto, InProvider, InStart
<1>6. ASSUME NEW t \in Tasks, Leave(t) PROVE TypeOK' /\ CallsHaveKeys'
  <2>1. key[t] \in Keys
    BY <1>6 DEF Leave, WaitersFollow, UsersHaveKeys
  <2>2. CASE t \notin listeners[key[t]]
    BY <1>6, <2>1, <2>2 DEF Leave, Goto, coordinator, InProvider, InStart
  <2>3. CASE t \in listeners[key[t]]
    BY <1>6, <2>1, <2>3 DEF Leave, Goto, DropEntry, InProvider, InStart
  <2> QED
    BY <2>2, <2>3
<1>7. ASSUME NEW t \in Tasks, CancelLeave(t) PROVE TypeOK' /\ CallsHaveKeys'
  BY <1>7 DEF CancelLeave, Goto, InProvider, InStart, provider, coordinator
<1>8. CASE Stop \/ Open \/ Drop \/ GiveUp
  <2>1. CASE Stop
    BY <2>1 DEF Stop, InProvider, InStart, provider, coordinator
  <2>2. CASE Open
    BY <2>2 DEF Open, InProvider, InStart, provider, coordinator
  <2>3. CASE Drop \/ GiveUp
    BY <2>3 DEF Drop, GiveUp, InProvider, InStart, provider, coordinator
  <2> QED
    BY <1>8, <2>1, <2>2, <2>3
<1> QED
  BY <1>1, <1>4, <1>5, <1>6, <1>7, <1>8 DEF Next

\* The inductive invariant of the subscriptions.
THEOREM SubscriptionsAgree == Spec => []SubscriptionsInv
<1>1. ASSUME Init PROVE SubscriptionsInv
  <2>1. TypeOK /\ CallsHaveKeys
    BY <1>1 DEF Init, TypeOK, CallsHaveKeys
  <2>2. \A t \in Tasks : pc[t] = "idle" /\ readiness[t] = "pending"
    BY <1>1 DEF Init
  <2>3. \A k \in Keys : phase[k] = "unsubscribed" /\ listeners[k] = {}
    BY <1>1 DEF Init
  <2> QED
    BY <2>1, <2>2, <2>3 DEF SubscriptionsInv, EntriesInv, OwnersSubscribe, IdleIsPending,
       SubscribingIsOwned, EntriesAreOwned, WaitersFollow, UsersHaveKeys, UsingIsListening,
       NoOrphanListener, InProvider, InStart
<1>2. SubscriptionsInv /\ [Next]_vars => SubscriptionsInv'
  <2>1. CASE SubscriptionsInv /\ Next
    BY <2>1, NextKeepsTypes, NextKeepsEntries DEF SubscriptionsInv
  <2>2. CASE SubscriptionsInv /\ UNCHANGED vars
    BY <2>2 DEF vars, coordinator, provider, SubscriptionsInv, TypeOK, CallsHaveKeys, EntriesInv,
       OwnersSubscribe, IdleIsPending, SubscribingIsOwned, EntriesAreOwned, WaitersFollow,
       UsersHaveKeys, UsingIsListening, NoOrphanListener
  <2> QED
    BY <2>1, <2>2
<1> QED
  BY <1>1, <1>2, PTL DEF Spec

\* The variables of the coordinator, the tasks, the provider and its threads keep
\* their types.
THEOREM SubscriptionsTyped == Spec => []TypeOK
<1>1. SubscriptionsInv => TypeOK
  BY DEF SubscriptionsInv
<1> QED
  BY <1>1, SubscriptionsAgree, PTL

\* A connection that has its queue is a listener of a subscribed entry until it
\* leaves, whatever the other tasks of its key do.
THEOREM UsersListen == Spec => []UsingIsListening
<1>1. SubscriptionsInv => UsingIsListening
  BY DEF SubscriptionsInv, EntriesInv
<1> QED
  BY <1>1, SubscriptionsAgree, PTL

\* An entry has listeners as long as it is there, and each of them is using its queue
\* or follows a creator that is still inside the provider.
THEOREM ListenersHaveTasks == Spec => []NoOrphanListener
<1>1. SubscriptionsInv => NoOrphanListener
  BY DEF SubscriptionsInv, EntriesInv
<1> QED
  BY <1>1, SubscriptionsAgree, PTL

\* Two tasks are never inside provider.subscribe for one key.
THEOREM OneTaskSubscribes == Spec => []OneSubscriber
<1>1. SubscriptionsInv => OneSubscriber
  BY DEF SubscriptionsInv, EntriesInv, OwnersSubscribe, OneSubscriber
<1> QED
  BY <1>1, SubscriptionsAgree, PTL
=============================================================================
