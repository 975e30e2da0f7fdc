-------------------------- MODULE LiveDeliveryProofs --------------------------
(***************************************************************************)
(* The exchange date of the snapshots that streams and requests are        *)
(* answered with, the cache and the locks of the registry, and the queue   *)
(* and the payloads of a stream, for any callers, instruments, limits and  *)
(* dates.                                                                  *)
(***************************************************************************)
EXTENDS LiveDelivery, SequenceTheorems, TLAPS

Steps == {"none", "waiting", "forcing", "resolving", "fetching", "got", "raised"}

Fields ==
  [pc : Steps, key : Instruments \cup {NoCaller}, date : Nat, called : Nat, to : Nat]

\* The dates a call has read are in the order in which it read them: called when it
\* began, date before it waited for the lock, to after the instrument was resolved.
DatesOrdered ==
  /\ day \in Nat
  /\ getter \in [Callers -> Fields]
  /\ \A c \in Callers :
       /\ getter[c].called <= day
       /\ getter[c].pc = "waiting" => getter[c].date = getter[c].called
       /\ getter[c].pc \in {"fetching", "got"} => getter[c].called <= getter[c].to /\ getter[c].to <= day

\* The steps of the registry, whoever takes them.
RegistryAction ==
  \/ \E c \in Callers : RegistryProgress(c) \/ Answered(c)
  \/ \E c \in Callers, k \in Instruments : GetHit(c, k) \/ GetMiss(c, k) \/ Refresh(c, k)
  \/ Expire
  \/ NewDay

\* Every step of the registry keeps the dates in order.
LEMMA RegistryKeepsDates ==
  ASSUME DatesOrdered, RegistryAction
  PROVE  DatesOrdered'
<1>t. /\ day \in Nat
      /\ \A c \in Callers : getter[c] \in Fields /\ getter[c].called <= day
  BY DEF DatesOrdered
<1>1. ASSUME NEW c \in Callers, AcquireLock(c) PROVE DatesOrdered'
  <2>1. CASE getter[c].pc = "waiting" /\ Usable(getter[c].key, getter[c].date)
    <3> DEFINE f == [getter[c] EXCEPT !.pc = "got", !.key = getter[c].key,
                                      !.to = EntryOf(getter[c].key).day]
    <3>1. EntryOf(getter[c].key).day = getter[c].date
      BY <2>1 DEF Usable
    <3>2. f \in Fields /\ f.pc = "got" /\ f.called = getter[c].called /\ f.to = getter[c].date
      BY <1>t, <3>1 DEF Fields, Steps
    <3>3. getter[c].date = getter[c].called
      BY <2>1 DEF DatesOrdered
    <3>4. getter' = [getter EXCEPT ![c] = f] /\ UNCHANGED day
      BY <1>1, <2>1 DEF AcquireLock, Return, Get
    <3> HIDE DEF f
    <3> QED
      BY <1>t, <1>1, <3>2, <3>3, <3>4 DEF DatesOrdered, Fields
  <2>2. CASE ~(getter[c].pc = "waiting" /\ Usable(getter[c].key, getter[c].date))
    <3> DEFINE f == [getter[c] EXCEPT !.pc = "resolving"]
    <3>1. f \in Fields /\ f.pc = "resolving" /\ f.called = getter[c].called
      BY <1>t DEF Fields, Steps
    <3>2. getter' = [getter EXCEPT ![c] = f] /\ UNCHANGED day
      BY <1>1, <2>2 DEF AcquireLock, Get
    <3> HIDE DEF f
    <3> QED
      BY <1>t, <1>1, <3>1, <3>2 DEF DatesOrdered, Fields
  <2> QED
    BY <2>1, <2>2
<1>2. ASSUME NEW c \in Callers, Resolved(c) PROVE DatesOrdered'
  <2> DEFINE f == [getter[c] EXCEPT !.pc = "fetching", !.to = day]
  <2>1. f \in Fields /\ f.pc = "fetching" /\ f.called = getter[c].called /\ f.to = day
    BY <1>t DEF Fields, Steps
  <2>2. getter' = [getter EXCEPT ![c] = f] /\ UNCHANGED day
    BY <1>2 DEF Resolved, Get
  <2> HIDE DEF f
  <2> QED
    BY <1>t, <1>2, <2>1, <2>2 DEF DatesOrdered, Fields
<1>3. ASSUME NEW c \in Callers, Fetched(c) PROVE DatesOrdered'
  <2> DEFINE f == [getter[c] EXCEPT !.pc = "got", !.key = getter[c].key, !.to = getter[c].to]
  <2>1. f \in Fields /\ f.pc = "got" /\ f.called = getter[c].called /\ f.to = getter[c].to
    BY <1>t DEF Fields, Steps
  <2>2. getter[c].called <= getter[c].to /\ getter[c].to <= day
    BY <1>3 DEF Fetched, DatesOrdered
  <2>3. getter' = [getter EXCEPT ![c] = f] /\ UNCHANGED day
    BY <1>3 DEF Fetched, Return, Get
  <2> HIDE DEF f
  <2> QED
    BY <1>t, <1>3, <2>1, <2>2, <2>3 DEF DatesOrdered, Fields
<1>4. ASSUME NEW c \in Callers, FetchFails(c) PROVE DatesOrdered'
  <2> DEFINE f == [getter[c] EXCEPT !.pc = "raised"]
  <2>1. f \in Fields /\ f.pc = "raised" /\ f.called = getter[c].called
    BY <1>t DEF Fields, Steps
  <2>2. getter' = [getter EXCEPT ![c] = f] /\ UNCHANGED day
    BY <1>4 DEF FetchFails, Get
  <2> HIDE DEF f
  <2> QED
    BY <1>t, <1>4, <2>1, <2>2 DEF DatesOrdered, Fields
<1>5. ASSUME NEW c \in Callers, Answered(c) PROVE DatesOrdered'
  <2>1. NoGet \in Fields /\ NoGet.pc = "none" /\ NoGet.called = 0
    BY DEF Fields, NoGet, Steps
  <2>2. getter' = [getter EXCEPT ![c] = NoGet] /\ UNCHANGED day
    BY <1>5 DEF Answered, Get
  <2> QED
    BY <1>t, <1>5, <2>1, <2>2 DEF DatesOrdered, Fields
<1>6. ASSUME NEW c \in Callers, NEW k \in Instruments, GetHit(c, k) PROVE DatesOrdered'
  <2> DEFINE f == [pc |-> "got", key |-> k, date |-> day, called |-> day, to |-> EntryOf(k).day]
  <2>1. EntryOf(k).day = day
    BY <1>6 DEF GetHit, Usable
  <2>2. f \in Fields /\ f.pc = "got" /\ f.called = day /\ f.to = day
    BY <1>t, <2>1 DEF Fields, Steps
  <2>3. getter' = [getter EXCEPT ![c] = f] /\ UNCHANGED day
    BY <1>6 DEF GetHit, Get
  <2> HIDE DEF f
  <2> QED
    BY <1>t, <1>6, <2>2, <2>3 DEF DatesOrdered, Fields
<1>7. ASSUME NEW c \in Callers, NEW k \in Instruments, GetMiss(c, k) PROVE DatesOrdered'
  <2> DEFINE f == [pc |-> "waiting", key |-> k, date |-> day, called |-> day, to |-> 0]
  <2>1. f \in Fields /\ f.pc = "waiting" /\ f.called = day /\ f.date = day
    BY <1>t DEF Fields, Steps
  <2>2. getter' = [getter EXCEPT ![c] = f] /\ UNCHANGED day
    BY <1>7 DEF GetMiss, Get
  <2> HIDE DEF f
  <2> QED
    BY <1>t, <1>7, <2>1, <2>2 DEF DatesOrdered, Fields
<1>8. ASSUME NEW c \in Callers, NEW k \in Instruments, Refresh(c, k) PROVE DatesOrdered'
  <2> DEFINE f == [pc |-> "forcing", key |-> k, date |-> 0, called |-> day, to |-> 0]
  <2>1. f \in Fields /\ f.pc = "forcing" /\ f.called = day
    BY <1>t DEF Fields, Steps
  <2>2. getter' = [getter EXCEPT ![c] = f] /\ UNCHANGED day
    BY <1>8 DEF Refresh, Get
  <2> HIDE DEF f
  <2> QED
    BY <1>t, <1>8, <2>1, <2>2 DEF DatesOrdered, Fields
<1>9. CASE Expire
  BY <1>9 DEF Expire, DatesOrdered
<1>10. CASE NewDay
  BY <1>10 DEF NewDay, DatesOrdered, Fields
<1> QED
  BY <1>1, <1>2, <1>3, <1>4, <1>5, <1>6, <1>7, <1>8, <1>9, <1>10
  DEF RegistryAction, RegistryProgress

-----------------------------------------------------------------------------
\* After an await in an iteration the stream may call the registry, and nothing else
\* changes it.
LEMMA IterationCalls ==
  ASSUME NEW st, NEW due, AfterWait(st, due) \/ AfterFreshness(st, due)
  PROVE  RegistryAction \/ UNCHANGED registryVars
<1>1. ASSUME AfterFreshness(st, due) PROVE RegistryAction \/ UNCHANGED registryVars
  BY <1>1, DeliveryAssumption DEF AfterFreshness, RegistryAction
<1>2. ASSUME AfterWait(st, due) PROVE RegistryAction \/ UNCHANGED registryVars
  BY <1>1, <1>2 DEF AfterWait
<1> QED
  BY <1>1, <1>2

\* Every step of the delivery is a step of the registry, or leaves it as it is.
LEMMA DeliveryCallsRegistry ==
  ASSUME DeliveryNext
  PROVE  RegistryAction \/ UNCHANGED registryVars
<1>1. CASE OpenStream
  BY <1>1, DeliveryAssumption DEF OpenStream, RegistryAction
<1>2. CASE SendSnapshot
  BY <1>2, DeliveryAssumption DEF SendSnapshot, RegistryAction, Answered, Get
<1>3. CASE FirstLook
  BY <1>3 DEF FirstLook
<1>4. CASE TakeError
  BY <1>4 DEF TakeError
<1>5. CASE TakeNothing
  BY <1>5 DEF TakeNothing
<1>6. CASE Resync
  BY <1>6, DeliveryAssumption DEF Resync, RegistryAction, Answered, Get
<1>7. CASE CloseStream \/ Disconnect
  BY <1>7 DEF CloseStream, Disconnect
<1>8. ASSUME NEW due \in BOOLEAN, Iterate(due) PROVE RegistryAction \/ UNCHANGED registryVars
  <2>1. CASE TakeQuote(due)
    BY <2>1, IterationCalls DEF TakeQuote
  <2>2. CASE TakeStatus(due)
    BY <2>2, IterationCalls DEF TakeStatus
  <2>3. CASE Resume(due)
    BY <2>3, IterationCalls DEF Resume
  <2> QED
    BY <1>8, <2>1, <2>2, <2>3 DEF Iterate
<1>9. CASE FeedStep
  BY <1>9 DEF FeedStep, QuoteReceived, QuoteAges, MarketStatusReceived, StateReceived
<1>10. CASE RegistryStep
  BY <1>10 DEF RegistryStep, RegistryAction
<1> QED
  BY <1>1, <1>2, <1>3, <1>4, <1>5, <1>6, <1>7, <1>8, <1>9, <1>10 DEF DeliveryNext, StreamStep

\* No stream and no request is answered with a snapshot of an exchange date before its
\* call, at any number of callers, instruments and entries and on any date
\* (InstrumentRVServiceRegistry.get, refresh).
THEOREM ServiceIsOfCallDayHolds == DeliverySpec => []ServiceIsOfCallDay
<1>1. DeliveryInit => DatesOrdered
  <2> SUFFICES ASSUME DeliveryInit PROVE DatesOrdered
    OBVIOUS
  <2>1. day = 1 /\ getter = [c \in Callers |-> NoGet]
    BY DEF DeliveryInit, RegistryInit
  <2> QED
    BY <2>1 DEF DatesOrdered, Fields, NoGet, Steps
<1>2. DatesOrdered /\ [DeliveryNext]_deliveryVars => DatesOrdered'
  <2>1. ASSUME DatesOrdered, UNCHANGED registryVars PROVE DatesOrdered'
    BY <2>1 DEF DatesOrdered, registryVars
  <2> QED
    BY <2>1, DeliveryCallsRegistry, RegistryKeepsDates DEF deliveryVars
<1>3. DatesOrdered => ServiceIsOfCallDay
  BY DEF DatesOrdered, ServiceIsOfCallDay
<1> QED
  BY <1>1, <1>2, <1>3, PTL DEF DeliverySpec

-----------------------------------------------------------------------------
(* The cache and the locks                                                 *)

CachedEntries == [key : Instruments, day : Nat, live : BOOLEAN]

KeysApart(S) == \A i, j \in DOMAIN S : S[i].key = S[j].key => i = j

CacheSound ==
  /\ entries \in Seq(CachedEntries)
  /\ Len(entries) <= MaxEntries
  /\ KeysApart(entries)

\* A lock is held by the caller that is in _refresh for its key, and by no other.
LocksSound ==
  /\ lock \in [Instruments -> Callers \cup {NoCaller}]
  /\ \A c \in Callers :
       getter[c].pc \in {"waiting", "forcing", "resolving", "fetching"} => getter[c].key \in Instruments
  /\ \A c \in Callers, k \in Instruments :
       lock[k] = c <=> getter[c].pc \in {"resolving", "fetching"} /\ getter[c].key = k

\* The last n of a sequence of entries.
LEMMA LastEntries ==
  ASSUME NEW S \in Seq(CachedEntries), KeysApart(S), NEW n \in 0..Len(S)
  PROVE  LET T == SubSeq(S, Len(S) - n + 1, Len(S))
         IN  T \in Seq(CachedEntries) /\ KeysApart(T) /\ Len(T) = n
<1> DEFINE m == Len(S) - n + 1
           T == SubSeq(S, m, Len(S))
<1>1. Len(S) \in Nat /\ DOMAIN S = 1..Len(S)
  BY LenProperties
<1>2. /\ m \in 1..Len(S) + 1 /\ m \in Int
      /\ Len(S) - m + 1 = n
  BY <1>1
<1>3. T \in Seq(CachedEntries) /\ Len(T) = n /\ \A i \in 1..n : T[i] = S[m + i - 1]
  <2>1. \A i \in m..Len(S) : S[i] \in CachedEntries
    BY <1>1, <1>2, ElementOfSeq
  <2>2. /\ T \in Seq(CachedEntries)
        /\ Len(T) = IF m <= Len(S) THEN Len(S) - m + 1 ELSE 0
        /\ \A i \in 1..(Len(S) - m + 1) : T[i] = S[m + i - 1]
    BY <1>1, <1>2, SubSeqProperties
  <2> QED
    BY <1>1, <1>2, <2>2
<1>4. DOMAIN T = 1..n
  BY <1>3, LenProperties
<1>5. KeysApart(T)
  <2> SUFFICES ASSUME NEW i \in 1..n, NEW j \in 1..n, T[i].key = T[j].key PROVE i = j
    BY <1>4 DEF KeysApart
  <2>1. m + i - 1 \in DOMAIN S /\ m + j - 1 \in DOMAIN S
    BY <1>1, <1>2
  <2>2. S[m + i - 1].key = S[m + j - 1].key
    BY <1>3
  <2>3. m + i - 1 = m + j - 1
    BY <2>1, <2>2 DEF KeysApart
  <2> QED
    BY <1>2, <2>3
<1> QED
  BY <1>3, <1>5

\* An entry of another key than all can be added.
LEMMA EntryAdded ==
  ASSUME NEW S \in Seq(CachedEntries), KeysApart(S), NEW e \in CachedEntries,
         \A i \in DOMAIN S : S[i].key # e.key
  PROVE  /\ Append(S, e) \in Seq(CachedEntries) /\ Len(Append(S, e)) = Len(S) + 1
         /\ KeysApart(Append(S, e))
<1>1. /\ Append(S, e) \in Seq(CachedEntries) /\ Len(Append(S, e)) = Len(S) + 1
      /\ \A i \in 1..Len(S) : Append(S, e)[i] = S[i]
      /\ Append(S, e)[Len(S) + 1] = e
  BY AppendProperties
<1>2. Len(S) \in Nat /\ DOMAIN S = 1..Len(S) /\ DOMAIN Append(S, e) = 1..(Len(S) + 1)
  BY <1>1, LenProperties
<1>3. \A i \in 1..(Len(S) + 1) : i \in 1..Len(S) \/ i = Len(S) + 1
  BY <1>2
<1> QED
  BY <1>1, <1>2, <1>3 DEF KeysApart

\* Without the entry of a key the others are there, and it is not.
LEMMA WithoutEntry ==
  ASSUME CacheSound, NEW k
  PROVE  /\ Without(k) \in Seq(CachedEntries) /\ KeysApart(Without(k))
         /\ \A i \in DOMAIN Without(k) : Without(k)[i].key # k
         /\ Len(Without(k)) = Len(entries) - (IF Cached(k) THEN 1 ELSE 0)
<1>1. Len(entries) \in Nat /\ DOMAIN entries = 1..Len(entries) /\ entries \in Seq(CachedEntries)
  BY LenProperties DEF CacheSound
<1>2. CASE ~Cached(k)
  BY <1>1, <1>2 DEF Cached, Without, CacheSound
<1>3. CASE Cached(k)
  <2> DEFINE p == Position(k)
             A == SubSeq(entries, 1, p - 1)
             B == SubSeq(entries, p + 1, Len(entries))
  <2>1. p \in 1..Len(entries) /\ entries[p].key = k
    BY <1>1, <1>3 DEF Cached, Position
  <2> HIDE DEF p
  <2>0. Len(entries) \in Nat /\ p \in Nat /\ 1 <= p /\ p <= Len(entries)
    BY <1>1, <2>1
  <2>2. A \in Seq(CachedEntries) /\ Len(A) = p - 1 /\ \A i \in 1..(p - 1) : A[i] = entries[i]
    <3>1. \A i \in 1..(p - 1) : entries[i] \in CachedEntries
      BY <1>1, <2>1, ElementOfSeq
    <3>2. /\ A \in Seq(CachedEntries)
          /\ Len(A) = IF 1 <= p - 1 THEN (p - 1) - 1 + 1 ELSE 0
          /\ \A i \in 1..((p - 1) - 1 + 1) : A[i] = entries[1 + i - 1]
      BY <1>1, <2>1, SubSeqProperties
    <3> QED
      BY <2>1, <3>2
  <2>3. /\ B \in Seq(CachedEntries) /\ Len(B) = Len(entries) - p
        /\ \A i \in 1..(Len(entries) - p) : B[i] = entries[p + i]
    <3>1. \A i \in (p + 1)..Len(entries) : entries[i] \in CachedEntries
      BY <1>1, <2>1, ElementOfSeq
    <3>2. /\ B \in Seq(CachedEntries)
          /\ Len(B) = IF p + 1 <= Len(entries) THEN Len(entries) - (p + 1) + 1 ELSE 0
          /\ \A i \in 1..(Len(entries) - (p + 1) + 1) : B[i] = entries[(p + 1) + i - 1]
      BY <1>1, <2>1, SubSeqProperties
    <3> HIDE DEF B
    <3>3. /\ Len(entries) - (p + 1) + 1 = Len(entries) - p
          /\ \A i \in 1..(Len(entries) - p) : (p + 1) + i - 1 = p + i
          /\ ~(p + 1 <= Len(entries)) => Len(entries) - p = 0
      BY ONLY <2>0
    <3> QED
      BY <3>2, <3>3
  <2>4. Without(k) = A \o B
    BY <1>3 DEF Without, RemoveAt, p
  <2> HIDE DEF A, B
  <2>5. /\ A \o B \in Seq(CachedEntries) /\ Len(A \o B) = Len(A) + Len(B)
        /\ \A i \in 1..(Len(A) + Len(B)) : (A \o B)[i] = IF i <= Len(A) THEN A[i] ELSE B[i - Len(A)]
    <3>1. A \in Seq(CachedEntries) /\ B \in Seq(CachedEntries)
      BY <2>2, <2>3
    <3> QED
      BY ONLY <3>1, ConcatProperties
  <2>6. Len(A \o B) = Len(entries) - 1 /\ DOMAIN (A \o B) = 1..(Len(entries) - 1)
    <3>1. Len(A \o B) = Len(entries) - 1
      <4>1. Len(A) = p - 1 /\ Len(B) = Len(entries) - p /\ Len(A \o B) = Len(A) + Len(B)
        BY <2>2, <2>3, <2>5
      <4> QED
        BY ONLY <2>0, <4>1
    <3>2. DOMAIN (A \o B) = 1..Len(A \o B)
      <4>1. A \o B \in Seq(CachedEntries)
        BY <2>5
      <4> QED
        BY ONLY <4>1, LenProperties
    <3> QED
      BY ONLY <3>1, <3>2
  <2>7. \A i \in 1..(Len(entries) - 1) : (A \o B)[i] = entries[IF i < p THEN i ELSE i + 1]
    <3> SUFFICES ASSUME NEW i \in 1..(Len(entries) - 1)
                 PROVE  (A \o B)[i] = entries[IF i < p THEN i ELSE i + 1]
      OBVIOUS
    <3>1. CASE i < p
      BY <1>1, <2>1, <2>2, <2>3, <2>5, <3>1
    <3>2. CASE ~(i < p)
      <4>1. i - Len(A) \in 1..(Len(entries) - p) /\ ~(i <= Len(A)) /\ i \in 1..(Len(A) + Len(B))
        BY <1>1, <2>1, <2>2, <2>3, <3>2
      <4>2. (A \o B)[i] = entries[p + (i - Len(A))]
        BY <2>3, <2>5, <4>1
      <4>3. p + (i - Len(A)) = i + 1
        BY <2>1, <2>2
      <4> QED
        BY <3>2, <4>2, <4>3
    <3> QED
      BY <3>1, <3>2
  <2> DEFINE at(i) == IF i < p THEN i ELSE i + 1
  <2>8. \A i, j \in 1..(Len(entries) - 1) :
          at(i) \in DOMAIN entries /\ at(i) # p /\ (at(i) = at(j) => i = j)
    BY <1>1, <2>1
  <2>9. \A i \in 1..(Len(entries) - 1) : (A \o B)[i] = entries[at(i)]
    BY <2>7
  <2> HIDE DEF at
  <2>10. KeysApart(A \o B) /\ \A i \in DOMAIN (A \o B) : (A \o B)[i].key # k
    <3>1. \A i, j \in DOMAIN entries : entries[i].key = entries[j].key => i = j
      BY DEF CacheSound, KeysApart
    <3> DEFINE W == A \o B
    <3>2. DOMAIN W = 1..(Len(entries) - 1) /\ \A i \in 1..(Len(entries) - 1) : W[i] = entries[at(i)]
      BY <2>6, <2>9
    <3>3. p \in DOMAIN entries
      BY <1>1, <2>1
    <3> HIDE DEF W
    <3>4. ASSUME NEW i \in DOMAIN W, NEW j \in DOMAIN W, W[i].key = W[j].key PROVE i = j
      <4>1. /\ W[i] = entries[at(i)] /\ W[j] = entries[at(j)]
            /\ at(i) \in DOMAIN entries /\ at(j) \in DOMAIN entries /\ (at(i) = at(j) => i = j)
        BY <2>8, <3>2
      <4> QED
        BY <3>1, <3>4, <4>1
    <3>5. ASSUME NEW i \in DOMAIN W PROVE W[i].key # k
      <4>1. W[i] = entries[at(i)] /\ at(i) \in DOMAIN entries /\ at(i) # p
        BY <2>8, <3>2
      <4> QED
        BY <2>1, <3>1, <3>3, <4>1
    <3> QED
      BY <3>4, <3>5 DEF W, KeysApart
  <2> QED
    BY <1>3, <2>4, <2>5, <2>6, <2>10
<1> QED
  BY <1>2, <1>3

\* Every step of the registry keeps the cache within its limit, with one entry of a key:
\* a hit moves its entry, an insert replaces one and evicts what is above the limit.
LEMMA RegistryKeepsCache ==
  ASSUME DatesOrdered, CacheSound, LocksSound, RegistryAction
  PROVE  CacheSound'
<1>1. ASSUME UNCHANGED entries PROVE CacheSound'
  BY <1>1 DEF CacheSound
<1>2. ASSUME NEW c \in Callers, Fetched(c) PROVE CacheSound'
  <2> DEFINE k == getter[c].key
             e == [key |-> k, day |-> getter[c].to, live |-> TRUE]
             all == Append(Without(k), e)
             n == IF Len(all) > MaxEntries THEN MaxEntries ELSE Len(all)
  <2>1. e \in CachedEntries /\ e.key = k
    <3>1. getter[c].pc = "fetching" /\ getter[c] \in Fields
      BY <1>2 DEF Fetched, DatesOrdered
    <3>2. k \in Instruments /\ getter[c].to \in Nat
      BY <3>1 DEF LocksSound, Fields
    <3> QED
      BY <3>2 DEF CachedEntries
  <2>2. entries' = SubSeq(all, Len(all) - n + 1, Len(all))
    BY <1>2 DEF Fetched
  <2> HIDE DEF e, k
  <2>3. /\ Without(k) \in Seq(CachedEntries) /\ KeysApart(Without(k))
        /\ \A i \in DOMAIN Without(k) : Without(k)[i].key # e.key
    BY <2>1, WithoutEntry
  <2>4. all \in Seq(CachedEntries) /\ KeysApart(all)
    BY <2>1, <2>3, EntryAdded
  <2>5. n \in 0..Len(all) /\ n <= MaxEntries
    <3>1. Len(all) \in Nat
      BY <2>4, LenProperties
    <3> HIDE DEF all
    <3> QED
      BY <3>1, RegistryAssumption
  <2> HIDE DEF all, n
  <2>6. /\ entries' \in Seq(CachedEntries) /\ KeysApart(entries')
        /\ Len(entries') = n
    BY <2>2, <2>4, <2>5, LastEntries
  <2> QED
    BY <2>5, <2>6 DEF CacheSound, KeysApart
<1>3. ASSUME NEW c \in Callers, NEW k \in Instruments, GetHit(c, k) PROVE CacheSound'
  <2>1. Cached(k) /\ entries' = Append(Without(k), EntryOf(k))
    BY <1>3 DEF GetHit, Usable
  <2>2. EntryOf(k) \in CachedEntries /\ EntryOf(k).key = k
    <3>1. Position(k) \in DOMAIN entries /\ entries[Position(k)].key = k
      BY <2>1 DEF Cached, Position
    <3>2. DOMAIN entries = 1..Len(entries) /\ entries \in Seq(CachedEntries)
      BY LenProperties DEF CacheSound
    <3> QED
      BY <3>1, <3>2, ElementOfSeq DEF EntryOf
  <2>3. /\ Without(k) \in Seq(CachedEntries) /\ KeysApart(Without(k))
        /\ \A i \in DOMAIN Without(k) : Without(k)[i].key # EntryOf(k).key
        /\ Len(Without(k)) = Len(entries) - 1
    BY <2>1, <2>2, WithoutEntry
  <2>4. /\ entries' \in Seq(CachedEntries) /\ KeysApart(entries')
        /\ Len(entries') = Len(Without(k)) + 1
    BY <2>1, <2>2, <2>3, EntryAdded
  <2>5. Len(entries') = Len(entries)
    <3>1. Len(entries) \in Nat
      BY LenProperties DEF CacheSound
    <3> QED
      BY ONLY <2>3, <2>4, <3>1
  <2> QED
    BY <2>4, <2>5 DEF CacheSound, KeysApart
<1>4. CASE Expire
  <2>1. PICK i \in DOMAIN entries : entries' = [entries EXCEPT ![i].live = FALSE]
    BY <1>4 DEF Expire
  <2>2. entries \in Seq(CachedEntries) /\ DOMAIN entries = 1..Len(entries)
    BY LenProperties DEF CacheSound
  <2> DEFINE e == [entries[i] EXCEPT !.live = FALSE]
  <2>3. e \in CachedEntries /\ e.key = entries[i].key
    <3>1. entries[i] \in CachedEntries
      BY <2>2, ElementOfSeq
    <3> QED
      BY <3>1 DEF CachedEntries
  <2>4. entries' = [entries EXCEPT ![i] = e]
    BY <2>1
  <2> HIDE DEF e
  <2>5. entries' \in Seq(CachedEntries) /\ Len(entries') = Len(entries)
    BY <2>2, <2>3, <2>4, ExceptSeq
  <2>6. DOMAIN entries' = DOMAIN entries /\ \A j \in DOMAIN entries : entries'[j].key = entries[j].key
    BY <2>3, <2>4
  <2> QED
    BY <2>5, <2>6 DEF CacheSound, KeysApart
<1> QED
  BY <1>1, <1>2, <1>3, <1>4
  DEF RegistryAction, RegistryProgress, AcquireLock, Resolved, FetchFails, Answered, GetMiss, Refresh, NewDay

\* Every step of the registry keeps who holds a lock and who is in _refresh in step.
LEMMA RegistryKeepsLocks ==
  ASSUME DatesOrdered, LocksSound, RegistryAction
  PROVE  LocksSound'
<1>t. getter \in [Callers -> Fields] /\ lock \in [Instruments -> Callers \cup {NoCaller}]
  BY DEF DatesOrdered, LocksSound
<1>n. \A c \in Callers : c # NoCaller
  BY RegistryAssumption
<1> DEFINE Busy == {"resolving", "fetching"}
           Keyed == {"waiting", "forcing", "resolving", "fetching"}
\* A caller goes on without a lock, or keeps the one it has.
<1>1. ASSUME NEW c \in Callers, NEW f, getter' = [getter EXCEPT ![c] = f], UNCHANGED lock,
             f.pc \in Keyed => f.key \in Instruments,
             f.pc \in Busy <=> getter[c].pc \in Busy,
             f.pc \in Busy => f.key = getter[c].key
      PROVE  LocksSound'
  BY <1>t, <1>1 DEF LocksSound
\* A caller takes a free lock.
<1>2. ASSUME NEW c \in Callers, NEW f, NEW k \in Instruments, getter' = [getter EXCEPT ![c] = f],
             lock' = [lock EXCEPT ![k] = c], lock[k] = NoCaller,
             getter[c].pc \notin Busy, f.pc \in Busy, f.key = k
      PROVE  LocksSound'
  BY <1>t, <1>n, <1>2 DEF LocksSound
\* A caller gives its lock back.
<1>3. ASSUME NEW c \in Callers, NEW f, getter' = [getter EXCEPT ![c] = f],
             lock' = [lock EXCEPT ![getter[c].key] = NoCaller],
             getter[c].pc \in Busy, f.pc \notin Keyed
      PROVE  LocksSound'
  BY <1>t, <1>n, <1>3 DEF LocksSound
<1>4. ASSUME NEW c \in Callers, AcquireLock(c) PROVE LocksSound'
  <2>1. getter[c].pc \in {"waiting", "forcing"} /\ getter[c] \in Fields /\ getter[c].key \in Instruments
    BY <1>4, <1>t DEF AcquireLock, LocksSound
  <2>2. CASE getter[c].pc = "waiting" /\ Usable(getter[c].key, getter[c].date)
    <3> DEFINE f == [getter[c] EXCEPT !.pc = "got", !.key = getter[c].key, !.to = EntryOf(getter[c].key).day]
    <3>1. f.pc = "got"
      BY <2>1 DEF Fields
    <3>2. getter' = [getter EXCEPT ![c] = f] /\ UNCHANGED lock
      BY <1>4, <2>2 DEF AcquireLock, Return, Get
    <3> HIDE DEF f
    <3> QED
      BY <1>1, <2>1, <3>1, <3>2
  <2>3. CASE ~(getter[c].pc = "waiting" /\ Usable(getter[c].key, getter[c].date))
    <3> DEFINE f == [getter[c] EXCEPT !.pc = "resolving"]
    <3>1. f.pc = "resolving" /\ f.key = getter[c].key
      BY <2>1 DEF Fields
    <3>2. /\ getter' = [getter EXCEPT ![c] = f]
          /\ lock' = [lock EXCEPT ![getter[c].key] = c] /\ lock[getter[c].key] = NoCaller
      BY <1>4, <2>3 DEF AcquireLock, Get
    <3> HIDE DEF f
    <3> QED
      BY <1>2, <2>1, <3>1, <3>2
  <2> QED
    BY <2>2, <2>3
<1>5. ASSUME NEW c \in Callers, Resolved(c) PROVE LocksSound'
  <2> DEFINE f == [getter[c] EXCEPT !.pc = "fetching", !.to = day]
  <2>1. getter[c].pc = "resolving" /\ getter[c] \in Fields /\ getter[c].key \in Instruments
    BY <1>5, <1>t DEF Resolved, LocksSound
  <2>2. f.pc = "fetching" /\ f.key = getter[c].key
    BY <2>1 DEF Fields
  <2>3. getter' = [getter EXCEPT ![c] = f] /\ UNCHANGED lock
    BY <1>5 DEF Resolved, Get
  <2> HIDE DEF f
  <2> QED
    BY <1>1, <2>1, <2>2, <2>3
<1>6. ASSUME NEW c \in Callers, Fetched(c) PROVE LocksSound'
  <2> DEFINE f == [getter[c] EXCEPT !.pc = "got", !.key = getter[c].key, !.to = getter[c].to]
  <2>1. getter[c].pc = "fetching" /\ getter[c] \in Fields
    BY <1>6, <1>t DEF Fetched
  <2>2. f.pc = "got"
    BY <2>1 DEF Fields
  <2>3. getter' = [getter EXCEPT ![c] = f] /\ lock' = [lock EXCEPT ![getter[c].key] = NoCaller]
    BY <1>6 DEF Fetched, Return, Get
  <2> HIDE DEF f
  <2> QED
    BY <1>3, <2>1, <2>2, <2>3
<1>7. ASSUME NEW c \in Callers, FetchFails(c) PROVE LocksSound'
  <2> DEFINE f == [getter[c] EXCEPT !.pc = "raised"]
  <2>1. getter[c].pc \in Busy /\ getter[c] \in Fields
    BY <1>7, <1>t DEF FetchFails
  <2>2. f.pc = "raised"
    BY <2>1 DEF Fields
  <2>3. getter' = [getter EXCEPT ![c] = f] /\ lock' = [lock EXCEPT ![getter[c].key] = NoCaller]
    BY <1>7 DEF FetchFails, Get
  <2> HIDE DEF f
  <2> QED
    BY <1>3, <2>1, <2>2, <2>3
<1>8. ASSUME NEW c \in Callers, Answered(c) PROVE LocksSound'
  <2>1. NoGet.pc = "none" /\ getter[c].pc \notin Busy
    BY <1>8 DEF NoGet, Answered
  <2>2. getter' = [getter EXCEPT ![c] = NoGet] /\ UNCHANGED lock
    BY <1>8 DEF Answered, Get
  <2> QED
    BY <1>1, <2>1, <2>2
<1>9. ASSUME NEW c \in Callers, NEW k \in Instruments, GetHit(c, k) \/ GetMiss(c, k) \/ Refresh(c, k)
      PROVE  LocksSound'
  <2>1. PICK f : /\ getter' = [getter EXCEPT ![c] = f] /\ f.key = k
                 /\ f.pc \in {"got", "waiting", "forcing"}
    <3> DEFINE hit == [pc |-> "got", key |-> k, date |-> day, called |-> day, to |-> EntryOf(k).day]
               miss == [pc |-> "waiting", key |-> k, date |-> day, called |-> day, to |-> 0]
               forced == [pc |-> "forcing", key |-> k, date |-> 0, called |-> day, to |-> 0]
    <3>1. GetHit(c, k) => getter' = [getter EXCEPT ![c] = hit]
      BY DEF GetHit, Get
    <3>2. GetMiss(c, k) => getter' = [getter EXCEPT ![c] = miss]
      BY DEF GetMiss, Get
    <3>3. Refresh(c, k) => getter' = [getter EXCEPT ![c] = forced]
      BY DEF Refresh, Get
    <3>4. /\ hit.key = k /\ hit.pc = "got" /\ miss.key = k /\ miss.pc = "waiting"
          /\ forced.key = k /\ forced.pc = "forcing"
      OBVIOUS
    <3> HIDE DEF hit, miss, forced
    <3> QED
      BY <1>9, <3>1, <3>2, <3>3, <3>4
  <2>2. getter[c].pc = "none" /\ UNCHANGED lock
    BY <1>9 DEF GetHit, GetMiss, Refresh
  <2> QED
    BY <1>1, <2>1, <2>2
<1>10. CASE Expire \/ NewDay
  BY <1>10 DEF Expire, NewDay, LocksSound
<1> QED
  BY <1>4, <1>5, <1>6, <1>7, <1>8, <1>9, <1>10 DEF RegistryAction, RegistryProgress

-----------------------------------------------------------------------------
(* The queue and the payloads of the stream                                *)

Transports == {"connected", "reconnecting", "failed"}
Markets == {"open", "closed"}
Statuses == {<<>>} \cup (Transports \X Markets)

Looks == {"none", "awaiting_first_tick", "stale", "fresh"}

Events == {"quote_updated", "market_status_changed", "provider_error", "feed_status_changed"}

Places ==
  {"idle", "getting", "snapshot", "wait", "looking", "dating", "resync", "quoting", "closing", "closed"}

Locals ==
  [pc : Places, last_freshness : Looks, last_status : Statuses, date : Nat,
   service : Nat, pending : BOOLEAN, failed : BOOLEAN]

FeedTyped == quotes \in Nat /\ transport \in Transports /\ market \in Markets

QueueSound == queue \in Seq(Events) /\ Len(queue) <= QueueSize

\* The locals of a stream between two awaits.
LocalsSound(st) == st \in Locals /\ st.service <= day

ShownSound ==
  /\ shown.quote \in Nat /\ shown.quote <= quotes
  /\ shown.service \in Nat /\ shown.service <= day

AwaitsItsCall == stream.pc \in {"getting", "resync"} => getter[Stream].pc # "none"

StreamSound == LocalsSound(stream) /\ ShownSound /\ AwaitsItsCall

\* A payload of what there is, and a stream that goes on.
LEMMA SendsSound ==
  ASSUME FeedTyped, day \in Nat, UNCHANGED <<day, quotes>>, NEW next, LocalsSound(next),
         next.pc \notin {"getting", "resync"},
         NEW service \in Nat, service <= day, Send(service, next)
  PROVE  StreamSound'
<1>1. stream' = next /\ shown'.quote = quotes /\ shown'.service = service
  BY DEF Send, Streaming, Payload
<1> QED
  BY <1>1 DEF StreamSound, LocalsSound, ShownSound, AwaitsItsCall, FeedTyped

\* A stream that goes on without one.
LEMMA MovesSound ==
  ASSUME StreamSound, day \in Nat, UNCHANGED <<day, quotes, shown>>, NEW next, LocalsSound(next),
         next.pc \notin {"getting", "resync"}, Streaming(next)
  PROVE  StreamSound'
BY DEF Streaming, StreamSound, LocalsSound, ShownSound, AwaitsItsCall

\* The stream calls the registry and awaits it.
LEMMA CallsSound ==
  ASSUME StreamSound, DatesOrdered, UNCHANGED <<quotes, shown>>, NEW next, LocalsSound(next),
         Streaming(next), GetHit(Stream, Streamed) \/ GetMiss(Stream, Streamed)
  PROVE  StreamSound'
<1>1. getter \in [Callers -> Fields] /\ Stream \in Callers /\ day' = day
  BY DeliveryAssumption DEF DatesOrdered, GetHit, GetMiss
<1>2. getter'[Stream].pc \in {"got", "waiting"}
  BY <1>1 DEF GetHit, GetMiss, Get
<1> QED
  BY <1>1, <1>2 DEF Streaming, StreamSound, LocalsSound, ShownSound, AwaitsItsCall

LEMMA StatusTyped ==
  /\ Freshness \in Looks
  /\ <<>> \in Statuses
  /\ FeedTyped => Status \in Statuses
<1>1. Freshness \in Looks
  BY DEF Freshness, Looks
<1>2. <<>> \in Statuses
  BY DEF Statuses
<1>3. FeedTyped => <<transport, market>> \in Transports \X Markets
  BY DEF FeedTyped
<1> QED
  BY <1>1, <1>2, <1>3 DEF Status, Statuses

LEMMA NoStreamIsOne == NoStream \in Locals
BY StatusTyped DEF NoStream, Locals, Places, Looks

\* The rest of an iteration, wherever it begins.
LEMMA IterationSound ==
  ASSUME StreamSound, DatesOrdered, FeedTyped, UNCHANGED quotes,
         NEW st, LocalsSound(st), NEW due \in BOOLEAN,
         \/ AfterDate(st, due) /\ UNCHANGED registryVars
         \/ AfterFreshness(st, due)
         \/ AfterWait(st, due)
  PROVE  StreamSound'
<1>t. day \in Nat /\ st \in Locals /\ st.service \in Nat /\ st.service <= day
  BY DEF DatesOrdered, LocalsSound, Locals
<1>1. ASSUME AfterDate(st, due), UNCHANGED registryVars PROVE StreamSound'
  <2>1. UNCHANGED <<day, quotes>>
    BY <1>1 DEF registryVars
  <2>2. CASE due /\ st.pending
    <3> DEFINE next == [st EXCEPT !.pc = "wait", !.pending = FALSE]
    <3>1. LocalsSound(next) /\ next.pc = "wait"
      BY <1>t DEF LocalsSound, Locals, Places
    <3>2. Send(st.service, next)
      BY <1>1, <2>2 DEF AfterDate
    <3> HIDE DEF next
    <3> QED
      BY <1>t, <2>1, <3>1, <3>2, SendsSound
  <2>3. CASE ~(due /\ st.pending)
    <3> DEFINE next == [st EXCEPT !.pc = "wait"]
    <3>1. LocalsSound(next) /\ next.pc = "wait"
      BY <1>t DEF LocalsSound, Locals, Places
    <3>2. Streaming(next) /\ UNCHANGED shown
      BY <1>1, <2>3 DEF AfterDate
    <3> HIDE DEF next
    <3> QED
      BY <1>t, <2>1, <3>1, <3>2, MovesSound
  <2> QED
    BY <2>2, <2>3
<1>2. ASSUME AfterFreshness(st, due) PROVE StreamSound'
  <2>1. CASE day = st.date
    BY <1>1, <1>2, <2>1 DEF AfterFreshness
  <2>2. CASE day # st.date
    <3> DEFINE next == [st EXCEPT !.pc = "resync", !.date = day]
    <3>1. LocalsSound(next)
      BY <1>t DEF LocalsSound, Locals, Places
    <3>2. Streaming(next) /\ UNCHANGED shown /\ (GetHit(Stream, Streamed) \/ GetMiss(Stream, Streamed))
      BY <1>2, <2>2 DEF AfterFreshness
    <3> HIDE DEF next
    <3> QED
      BY <3>1, <3>2, CallsSound
  <2> QED
    BY <2>1, <2>2
<1>3. ASSUME AfterWait(st, due) PROVE StreamSound'
  <2>1. CASE Freshness = st.last_freshness
    BY <1>2, <1>3, <2>1 DEF AfterWait
  <2>2. CASE Freshness # st.last_freshness
    <3> DEFINE next == [st EXCEPT !.pc = "dating", !.last_freshness = Freshness]
    <3>1. LocalsSound(next) /\ next.pc = "dating"
      BY <1>t, StatusTyped DEF LocalsSound, Locals, Places
    <3>2. Send(st.service, next) /\ UNCHANGED registryVars
      BY <1>3, <2>2 DEF AfterWait
    <3> HIDE DEF next
    <3> QED
      BY <1>t, <3>1, <3>2, SendsSound DEF registryVars
  <2> QED
    BY <2>1, <2>2
<1> QED
  BY <1>1, <1>2, <1>3

\* A full queue drops its oldest events, and keeps its limit.
LEMMA PublishSound ==
  ASSUME QueueSound, NEW e \in Events, Publish(<<e>>)
  PROVE  QueueSound'
<1> DEFINE all == queue \o <<e>>
           excess == IF Len(all) > QueueSize THEN Len(all) - QueueSize ELSE 0
<1>1. all \in Seq(Events) /\ Len(all) \in Nat /\ DOMAIN all = 1..Len(all)
  <2>1. <<e>> \in Seq(Events) /\ queue \in Seq(Events)
    BY DEF QueueSound
  <2>2. all \in Seq(Events)
    BY ONLY <2>1, ConcatProperties
  <2> HIDE DEF all
  <2> QED
    BY <2>2, LenProperties
<1>2. queue' = SubSeq(all, excess + 1, Len(all))
  BY DEF Publish
<1> HIDE DEF all
<1>3. excess \in Nat /\ Len(all) - excess <= QueueSize /\ excess <= Len(all)
  BY <1>1, DeliveryAssumption
<1> HIDE DEF excess
<1>4. \A i \in (excess + 1)..Len(all) : all[i] \in Events
  BY <1>1, <1>3, ElementOfSeq
<1>5. /\ queue' \in Seq(Events)
      /\ Len(queue') = IF excess + 1 <= Len(all) THEN Len(all) - (excess + 1) + 1 ELSE 0
  BY <1>1, <1>2, <1>3, <1>4, SubSeqProperties
<1>6. Len(queue') <= QueueSize
  <2>1. Len(all) \in Nat /\ excess \in Nat /\ QueueSize \in Nat
    BY <1>1, <1>3, DeliveryAssumption
  <2>2. Len(queue') = IF excess + 1 <= Len(all) THEN Len(all) - (excess + 1) + 1 ELSE 0
    BY <1>5
  <2> QED
    BY ONLY <1>3, <2>1, <2>2
<1> QED
  BY <1>5, <1>6 DEF QueueSound

\* What is taken makes room, and an empty queue is one.
LEMMA TakenSound ==
  /\ QueueSound /\ queue # <<>> /\ queue' = Tail(queue) => QueueSound'
  /\ queue' = <<>> => QueueSound'
<1>1. ASSUME QueueSound, queue # <<>>, queue' = Tail(queue) PROVE QueueSound'
  <2>1. queue \in Seq(Events) /\ Len(queue) \in Nat /\ Len(queue) <= QueueSize
    <3>1. queue \in Seq(Events) /\ Len(queue) <= QueueSize
      BY <1>1 DEF QueueSound
    <3> QED
      BY <3>1, LenProperties
  <2>2. queue' \in Seq(Events) /\ Len(queue') = Len(queue) - 1
    BY <1>1, <2>1, HeadTailProperties
  <2>3. Len(queue') <= QueueSize
    <3>1. QueueSize \in Nat /\ Len(queue) \in Nat /\ Len(queue) <= QueueSize /\ Len(queue') = Len(queue) - 1
      BY <2>1, <2>2, DeliveryAssumption
    <3> QED
      BY ONLY <3>1
  <2> QED
    BY <2>2, <2>3 DEF QueueSound
<1>2. ASSUME queue' = <<>> PROVE QueueSound'
  <2>1. <<>> \in Seq(Events) /\ Len(<<>>) = 0
    BY EmptySeq
  <2> QED
    BY <1>2, <2>1, DeliveryAssumption DEF QueueSound
<1> QED
  BY <1>1, <1>2

DeliverySound == DatesOrdered /\ CacheSound /\ LocksSound /\ FeedTyped /\ QueueSound /\ StreamSound

\* A report of the feed.
LEMMA FeedKeepsDelivery ==
  ASSUME DeliverySound, FeedStep
  PROVE  FeedTyped' /\ QueueSound' /\ StreamSound'
<1>t. /\ quotes \in Nat /\ shown.quote \in Nat /\ shown.quote <= quotes
      /\ LocalsSound(stream) /\ ShownSound /\ AwaitsItsCall
  BY DEF DeliverySound, FeedTyped, StreamSound, ShownSound
<1>r. UNCHANGED <<day, getter, shown>>
  BY DEF FeedStep, QuoteReceived, QuoteAges, MarketStatusReceived, StateReceived, registryVars
<1>1. CASE QuoteReceived
  <2>1. FeedTyped' /\ quotes' = quotes + 1 /\ UNCHANGED stream
    BY <1>1 DEF QuoteReceived, DeliverySound, FeedTyped
  <2>2. QueueSound'
    BY <1>1, PublishSound DEF QuoteReceived, DeliverySound, Events
  <2> QED
    BY <1>t, <1>r, <2>1, <2>2 DEF StreamSound, LocalsSound, ShownSound, AwaitsItsCall
<1>2. CASE QuoteAges
  BY <1>t, <1>r, <1>2
  DEF QuoteAges, DeliverySound, FeedTyped, QueueSound, StreamSound, LocalsSound, ShownSound, AwaitsItsCall
<1>3. ASSUME NEW status \in {"open", "closed"}, MarketStatusReceived(status)
      PROVE  FeedTyped' /\ QueueSound' /\ StreamSound'
  <2>1. FeedTyped' /\ UNCHANGED <<quotes, stream>>
    BY <1>3 DEF MarketStatusReceived, DeliverySound, FeedTyped, Markets
  <2>2. QueueSound'
    BY <1>3, PublishSound DEF MarketStatusReceived, DeliverySound, Events
  <2> QED
    BY <1>t, <1>r, <2>1, <2>2 DEF StreamSound, LocalsSound, ShownSound, AwaitsItsCall
<1>4. ASSUME NEW state \in {"connected", "reconnecting", "failed"}, StateReceived(state)
      PROVE  FeedTyped' /\ QueueSound' /\ StreamSound'
  <2>1. FeedTyped' /\ UNCHANGED quotes
    BY <1>4 DEF StateReceived, DeliverySound, FeedTyped, Transports
  <2>2. QueueSound'
    BY <1>4, PublishSound DEF StateReceived, DeliverySound, Events
  <2> DEFINE next == [stream EXCEPT !.failed = @ \/ state = "failed"]
  <2>3. LocalsSound(next) /\ next.pc = stream.pc
    BY <1>t DEF LocalsSound, Locals
  <2>4. stream' = next
    BY <1>4 DEF StateReceived, Streaming
  <2> HIDE DEF next
  <2> QED
    BY <1>t, <1>r, <2>1, <2>2, <2>3, <2>4 DEF StreamSound, LocalsSound, ShownSound, AwaitsItsCall
<1> QED
  BY <1>1, <1>2, <1>3, <1>4 DEF FeedStep

\* A step of the stream that is not the rest of an iteration.
LEMMA StepKeepsDelivery ==
  ASSUME DeliverySound,
         \/ OpenStream \/ SendSnapshot \/ FirstLook \/ TakeError \/ TakeNothing \/ Resync
         \/ CloseStream \/ Disconnect
  PROVE  FeedTyped' /\ QueueSound' /\ StreamSound'
<1>t. /\ day \in Nat /\ quotes \in Nat /\ FeedTyped /\ DatesOrdered /\ QueueSound /\ StreamSound
      /\ stream \in Locals /\ stream.service \in Nat /\ stream.service <= day
  BY DEF DeliverySound, DatesOrdered, FeedTyped, StreamSound, LocalsSound, Locals
<1>u. FeedTyped' /\ UNCHANGED <<day, quotes>>
  BY <1>t DEF OpenStream, SendSnapshot, FirstLook, TakeError, TakeNothing, Resync, CloseStream,
              Disconnect, feedVars, registryVars, FeedTyped, GetHit, GetMiss
<1>1. CASE OpenStream
  <2> DEFINE next == [stream EXCEPT !.pc = "getting"]
  <2>1. LocalsSound(next)
    BY <1>t DEF LocalsSound, Locals, Places
  <2>2. Streaming(next) /\ UNCHANGED shown /\ (GetHit(Stream, Streamed) \/ GetMiss(Stream, Streamed))
    BY <1>1 DEF OpenStream
  <2>3. QueueSound'
    BY <1>1, TakenSound DEF OpenStream
  <2> HIDE DEF next
  <2> QED
    BY <1>t, <1>u, <2>1, <2>2, <2>3, CallsSound
<1>2. CASE SendSnapshot \/ Resync
  <2> DEFINE sv == getter[Stream].to
             next(pc) == [stream EXCEPT !.pc = pc, !.service = sv]
  <2>1. sv \in Nat /\ sv <= day
    BY <1>2, <1>t, DeliveryAssumption DEF SendSnapshot, Resync, DatesOrdered, Fields
  <2>2. PICK pc \in {"snapshot", "quoting"} : Send(sv, next(pc))
    BY <1>2 DEF SendSnapshot, Resync
  <2> HIDE DEF sv
  <2>3. LocalsSound(next(pc)) /\ next(pc).pc = pc
    BY <1>t, <2>1 DEF LocalsSound, Locals, Places
  <2>4. QueueSound'
    BY <1>2, <1>t DEF SendSnapshot, Resync, QueueSound
  <2> HIDE DEF next
  <2> QED
    BY <1>t, <1>u, <2>1, <2>2, <2>3, <2>4, SendsSound
<1>3. CASE FirstLook
  <2> DEFINE next == [stream EXCEPT !.pc = "wait", !.last_freshness = Freshness, !.last_status = Status,
                                    !.date = day]
  <2>1. LocalsSound(next) /\ next.pc = "wait"
    BY <1>t, StatusTyped DEF LocalsSound, Locals, Places
  <2>2. Streaming(next) /\ UNCHANGED shown
    BY <1>3 DEF FirstLook
  <2>3. QueueSound'
    BY <1>3, <1>t DEF FirstLook, QueueSound
  <2> HIDE DEF next
  <2> QED
    BY <1>t, <1>u, <2>1, <2>2, <2>3, MovesSound
<1>4. CASE TakeError
  <2> DEFINE next == [stream EXCEPT !.pc = "closing"]
  <2>1. LocalsSound(next) /\ next.pc = "closing"
    BY <1>t DEF LocalsSound, Locals, Places
  <2>2. Send(stream.service, next)
    BY <1>4 DEF TakeError
  <2>3. QueueSound'
    BY <1>4, <1>t, TakenSound DEF TakeError
  <2> HIDE DEF next
  <2> QED
    BY <1>t, <1>u, <2>1, <2>2, <2>3, SendsSound
<1>5. CASE TakeNothing
  <2> DEFINE next == [stream EXCEPT !.pc = "looking"]
  <2>1. LocalsSound(next) /\ next.pc = "looking"
    BY <1>t DEF LocalsSound, Locals, Places
  <2>2. Streaming(next) /\ UNCHANGED shown
    BY <1>5 DEF TakeNothing
  <2>3. QueueSound'
    BY <1>5, <1>t DEF TakeNothing, QueueSound
  <2> HIDE DEF next
  <2> QED
    BY <1>t, <1>u, <2>1, <2>2, <2>3, MovesSound
<1>6. CASE CloseStream \/ Disconnect
  <2> DEFINE next == [NoStream EXCEPT !.pc = "closed"]
  <2>1. LocalsSound(next) /\ next.pc = "closed"
    <3>1. NoStream.service <= day /\ NoStream.service = 0
      BY <1>t DEF NoStream
    <3> QED
      BY <1>t, <3>1, NoStreamIsOne DEF LocalsSound, Locals, Places
  <2>2. Streaming(next) /\ UNCHANGED shown
    BY <1>6 DEF CloseStream, Disconnect
  <2>3. QueueSound'
    BY <1>6, TakenSound DEF CloseStream, Disconnect
  <2> HIDE DEF next
  <2> QED
    BY <1>t, <1>u, <2>1, <2>2, <2>3, MovesSound
<1> QED
  BY <1>1, <1>2, <1>3, <1>4, <1>5, <1>6

\* The rest of an iteration, after an event or an await.
LEMMA IterateKeepsDelivery ==
  ASSUME DeliverySound, NEW due \in BOOLEAN, Iterate(due)
  PROVE  FeedTyped' /\ QueueSound' /\ StreamSound'
<1>t. /\ day \in Nat /\ FeedTyped /\ DatesOrdered /\ QueueSound /\ StreamSound
      /\ stream \in Locals /\ stream.service \in Nat /\ stream.service <= day
      /\ LocalsSound(stream)
  BY DEF DeliverySound, DatesOrdered, StreamSound, LocalsSound, Locals
<1>u. FeedTyped' /\ UNCHANGED quotes
  BY <1>t DEF Iterate, TakeQuote, TakeStatus, Resume, feedVars, FeedTyped
<1>1. CASE TakeQuote(due)
  <2> DEFINE st == [stream EXCEPT !.pending = TRUE]
  <2>1. LocalsSound(st) /\ AfterWait(st, due)
    BY <1>t, <1>1 DEF LocalsSound, Locals, TakeQuote
  <2>2. QueueSound'
    BY <1>1, <1>t, TakenSound DEF TakeQuote
  <2> HIDE DEF st
  <2> QED
    BY <1>t, <1>u, <2>1, <2>2, IterationSound
<1>2. CASE TakeStatus(due)
  <2>1. QueueSound'
    BY <1>2, <1>t, TakenSound DEF TakeStatus
  <2>2. CASE Status = stream.last_status
    <3>1. AfterWait(stream, due)
      BY <1>2, <2>2 DEF TakeStatus
    <3> QED
      BY <1>t, <1>u, <2>1, <3>1, IterationSound
  <2>3. CASE Status # stream.last_status
    <3> DEFINE next == [stream EXCEPT !.pc = "looking", !.last_status = Status]
    <3>1. LocalsSound(next) /\ next.pc = "looking"
      BY <1>t, StatusTyped DEF LocalsSound, Locals, Places
    <3>2. Send(stream.service, next) /\ UNCHANGED day
      BY <1>2, <2>3 DEF TakeStatus, registryVars
    <3> HIDE DEF next
    <3> QED
      BY <1>t, <1>u, <2>1, <3>1, <3>2, SendsSound
  <2> QED
    BY <2>2, <2>3
<1>3. CASE Resume(due)
  <2>1. QueueSound'
    BY <1>3, <1>t DEF Resume, QueueSound
  <2>2. \/ AfterDate(stream, due) /\ UNCHANGED registryVars
        \/ AfterFreshness(stream, due)
        \/ AfterWait(stream, due)
    BY <1>3 DEF Resume
  <2> QED
    BY <1>t, <1>u, <2>1, <2>2, IterationSound
<1> QED
  BY <1>1, <1>2, <1>3 DEF Iterate

\* The registry goes on, the clock too, and the call of a stream is answered to it.
LEMMA RegistryKeepsDelivery ==
  ASSUME DeliverySound, RegistryStep
  PROVE  FeedTyped' /\ QueueSound' /\ StreamSound'
<1>u. UNCHANGED <<quotes, transport, market, queue, stream, shown>>
  BY DEF RegistryStep, feedVars
<1>1. day \in Nat /\ day' \in Nat /\ day <= day' /\ getter \in [Callers -> Fields]
  <2>1. day \in Nat /\ getter \in [Callers -> Fields]
    BY DEF DeliverySound, DatesOrdered
  <2>2. day' = day \/ day' = day + 1
    <3>1. ASSUME NEW c \in Callers, RegistryProgress(c) PROVE day' = day
      BY <3>1 DEF RegistryProgress, AcquireLock, Resolved, Fetched, FetchFails
    <3>2. ASSUME NEW c \in Callers, Answered(c) PROVE day' = day
      BY <3>2 DEF Answered
    <3>3. ASSUME NEW c \in Callers, NEW k \in Instruments, GetHit(c, k) \/ GetMiss(c, k) \/ Refresh(c, k)
          PROVE  day' = day
      BY <3>3 DEF GetHit, GetMiss, Refresh
    <3>4. ASSUME Expire \/ NewDay PROVE day' = day \/ day' = day + 1
      BY <3>4 DEF Expire, NewDay
    <3> QED
      BY <3>1, <3>2, <3>3, <3>4 DEF RegistryStep
  <2> QED
    BY <2>1, <2>2
<1>2. getter[Stream].pc # "none" => getter'[Stream].pc # "none"
  <2>1. Stream \in Callers
    BY DeliveryAssumption
  <2>2. getter[Stream] \in Fields
    BY <1>1, <2>1
  <2>3. ASSUME RegistryProgress(Stream) PROVE getter'[Stream].pc # "none"
    <3>1. PICK f : getter' = [getter EXCEPT ![Stream] = f] /\ f.pc # "none"
      <4> DEFINE got == [getter[Stream] EXCEPT !.pc = "got", !.key = getter[Stream].key,
                                               !.to = EntryOf(getter[Stream].key).day]
                 resolving == [getter[Stream] EXCEPT !.pc = "resolving"]
                 fetching == [getter[Stream] EXCEPT !.pc = "fetching", !.to = day]
                 fetched == [getter[Stream] EXCEPT !.pc = "got", !.key = getter[Stream].key,
                                                   !.to = getter[Stream].to]
                 raised == [getter[Stream] EXCEPT !.pc = "raised"]
      <4>1. /\ got.pc = "got" /\ resolving.pc = "resolving" /\ fetching.pc = "fetching"
            /\ fetched.pc = "got" /\ raised.pc = "raised"
        BY <2>2 DEF Fields
      <4>2. \/ getter' = [getter EXCEPT ![Stream] = got]
            \/ getter' = [getter EXCEPT ![Stream] = resolving]
            \/ getter' = [getter EXCEPT ![Stream] = fetching]
            \/ getter' = [getter EXCEPT ![Stream] = fetched]
            \/ getter' = [getter EXCEPT ![Stream] = raised]
        BY <2>3 DEF RegistryProgress, AcquireLock, Resolved, Fetched, FetchFails, Return, Get
      <4> HIDE DEF got, resolving, fetching, fetched, raised
      <4> QED
        BY <4>1, <4>2
    <3> QED
      BY <1>1, <2>1, <3>1
  <2>4. ASSUME NEW c \in Callers \ {Stream},
               \/ RegistryProgress(c) \/ Answered(c)
               \/ \E k \in Instruments : GetHit(c, k) \/ GetMiss(c, k) \/ Refresh(c, k)
        PROVE  getter'[Stream] = getter[Stream]
    BY <1>1, <2>1, <2>4 DEF RegistryProgress, AcquireLock, Resolved, Fetched, FetchFails, Answered,
                            GetHit, GetMiss, Refresh, Return, Get
  <2>5. ASSUME Expire \/ NewDay PROVE getter' = getter
    BY <2>5 DEF Expire, NewDay
  <2> QED
    BY <2>3, <2>4, <2>5 DEF RegistryStep
<1>3. StreamSound'
  <2>1. stream.service \in Nat
    BY DEF DeliverySound, StreamSound, LocalsSound, Locals
  <2> QED
    BY <1>u, <1>1, <1>2, <2>1 DEF DeliverySound, StreamSound, LocalsSound, ShownSound, AwaitsItsCall
<1> QED
  BY <1>u, <1>3 DEF DeliverySound, FeedTyped, QueueSound

LEMMA DeliveryIsSound == DeliverySpec => []DeliverySound
<1>1. DeliveryInit => DeliverySound
  <2> SUFFICES ASSUME DeliveryInit PROVE DeliverySound
    OBVIOUS
  <2>1. day = 1 /\ entries = <<>> /\ getter = [c \in Callers |-> NoGet]
        /\ lock = [k \in Instruments |-> NoCaller]
    BY DEF DeliveryInit, RegistryInit
  <2>2. DatesOrdered
    BY <2>1 DEF DatesOrdered, Fields, NoGet, Steps
  <2>3. CacheSound
    <3>1. <<>> \in Seq(CachedEntries) /\ Len(<<>>) = 0 /\ DOMAIN <<>> = {}
      BY EmptySeq
    <3> QED
      BY <2>1, <3>1, RegistryAssumption DEF CacheSound, KeysApart
  <2>4. LocksSound
    BY <2>1, RegistryAssumption DEF LocksSound, NoGet
  <2>5. FeedTyped
    BY DEF DeliveryInit, FeedTyped, Transports, Markets
  <2>6. QueueSound
    <3>1. <<>> \in Seq(Events) /\ Len(<<>>) = 0
      BY EmptySeq
    <3> QED
      BY <3>1, DeliveryAssumption DEF DeliveryInit, QueueSound
  <2>7. StreamSound
    <3>1. stream = NoStream /\ shown = Nothing /\ quotes \in Nat
      BY DEF DeliveryInit
    <3>2. NoStream \in Locals /\ NoStream.service = 0 /\ NoStream.pc = "idle"
      BY NoStreamIsOne DEF NoStream
    <3> QED
      BY <2>1, <3>1, <3>2 DEF StreamSound, LocalsSound, ShownSound, AwaitsItsCall, Nothing
  <2> QED
    BY <2>2, <2>3, <2>4, <2>5, <2>6, <2>7 DEF DeliverySound
<1>2. DeliverySound /\ [DeliveryNext]_deliveryVars => DeliverySound'
  <2> SUFFICES ASSUME DeliverySound, [DeliveryNext]_deliveryVars PROVE DeliverySound'
    OBVIOUS
  <2>1. CASE DeliveryNext
    <3>1. DatesOrdered' /\ CacheSound' /\ LocksSound'
      <4>1. CASE RegistryAction
        BY <4>1, RegistryKeepsDates, RegistryKeepsCache, RegistryKeepsLocks DEF DeliverySound
      <4>2. CASE UNCHANGED registryVars
        BY <4>2 DEF DeliverySound, registryVars, DatesOrdered, CacheSound, LocksSound
      <4> QED
        BY <2>1, <4>1, <4>2, DeliveryCallsRegistry
    <3>2. FeedTyped' /\ QueueSound' /\ StreamSound'
      BY <2>1, FeedKeepsDelivery, StepKeepsDelivery, IterateKeepsDelivery, RegistryKeepsDelivery
      DEF DeliveryNext, StreamStep
    <3> QED
      BY <3>1, <3>2 DEF DeliverySound
  <2>2. CASE UNCHANGED deliveryVars
    BY <2>2 DEF deliveryVars, registryVars, DeliverySound, DatesOrdered, CacheSound, LocksSound, FeedTyped,
                QueueSound, StreamSound, LocalsSound, ShownSound, AwaitsItsCall
  <2> QED
    BY <2>1, <2>2
<1> QED
  BY <1>1, <1>2, PTL DEF DeliverySpec

\* The cache keeps its limit and one entry of a key, an instrument is never refreshed
\* twice at once, the queue keeps its limit, a browser was shown nothing that was not
\* there, and a stream waits for a call it made (InstrumentRVServiceRegistry, _publish,
\* _stream).
THEOREM DeliveryTyped == DeliverySpec => []DeliveryTypeOK
<1>1. DeliverySound => DeliveryTypeOK
  <2> SUFFICES ASSUME DeliverySound PROVE DeliveryTypeOK
    OBVIOUS
  <2>1. \A c \in Callers : getter[c].pc \in {"resolving", "fetching"} => getter[c].key \in Instruments
    BY DEF DeliverySound, LocksSound
  <2>2. \A c \in Callers : getter[c].pc \in {"resolving", "fetching"} <=> \E k \in Instruments : lock[k] = c
    BY <2>1 DEF DeliverySound, LocksSound
  <2>3. \A c \in Callers : getter[c].pc \in {"resolving", "fetching"} => lock[getter[c].key] = c
    BY <2>1 DEF DeliverySound, LocksSound
  <2>4. RegistryTypeOK
    BY <2>2, <2>3 DEF RegistryTypeOK, DeliverySound, CacheSound, KeysApart
  <2> QED
    BY <2>4 DEF DeliveryTypeOK, DeliverySound, QueueSound, StreamSound, ShownSound, AwaitsItsCall
<1> QED
  BY <1>1, DeliveryIsSound, PTL
=============================================================================
