----------------------------- MODULE RvRegistry -----------------------------
(***************************************************************************)
(* InstrumentRVServiceRegistry (backend/app/services/rv_registry.py): the  *)
(* cache of finalized research snapshots by instrument, with one lock per  *)
(* instrument, an expiry, a limit with eviction of the least recently used *)
(* entry, and the exchange date a snapshot was built for.                  *)
(*                                                                         *)
(* A step is what a caller does between two awaits.                        *)
(***************************************************************************)
EXTENDS Integers, Sequences, FiniteSets, SequencesExt

CONSTANTS
  Callers,      \* tasks that call get or refresh
  Instruments,  \* instrument keys
  MaxEntries,   \* max_entries
  LastDay,      \* bound: exchange dates are 1..LastDay
  NoCaller

ASSUME RegistryAssumption ==
  MaxEntries \in Nat \ {0} /\ LastDay \in Nat \ {0} /\ NoCaller \notin Callers

VARIABLES
  day,       \* exchange_date(), by the clock
  entries,   \* _entries, the least recently used first: [key, day, live]
  lock,      \* [Instruments -> the holder of the lock]
  getter     \* [Callers -> what its call of get or refresh is at]

registryVars == <<day, entries, lock, getter>>

NoGet == [pc |-> "none", key |-> NoCaller, date |-> 0, called |-> 0, to |-> 0]

Cached(k) == \E i \in DOMAIN entries : entries[i].key = k
Position(k) == CHOOSE i \in DOMAIN entries : entries[i].key = k
EntryOf(k) == entries[Position(k)]
Without(k) == IF Cached(k) THEN RemoveAt(entries, Position(k)) ELSE entries

\* Mutant: the entry of any exchange date is used.
UsableAnyDay(k, date) == Cached(k) /\ EntryOf(k).live

\* The entry has not expired and is of this exchange date.
Usable(k, date) == Cached(k) /\ EntryOf(k).live /\ EntryOf(k).day = date

Get(c, fields) == getter' = [getter EXCEPT ![c] = fields]

Return(c, k, result) == Get(c, [getter[c] EXCEPT !.pc = "got", !.key = k, !.to = result])

-----------------------------------------------------------------------------
\* get: a usable entry is the answer and becomes the most recently used.
GetHit(c, k) ==
  /\ getter[c].pc = "none" /\ Usable(k, day)
  /\ entries' = Append(Without(k), EntryOf(k))
  /\ Get(c, [pc |-> "got", key |-> k, date |-> day, called |-> day, to |-> EntryOf(k).day])
  /\ UNCHANGED <<day, lock>>

\* get: without one it waits for the lock, with the date it read.
GetMiss(c, k) ==
  /\ getter[c].pc = "none" /\ ~Usable(k, day)
  /\ Get(c, [pc |-> "waiting", key |-> k, date |-> day, called |-> day, to |-> 0])
  /\ UNCHANGED <<day, entries, lock>>

\* refresh takes the lock and looks at no entry.
Refresh(c, k) ==
  /\ getter[c].pc = "none"
  /\ Get(c, [pc |-> "forcing", key |-> k, date |-> 0, called |-> day, to |-> 0])
  /\ UNCHANGED <<day, entries, lock>>

\* Mutant: a refresh does not wait for the lock.
AcquireLockUnlessForced(c) ==
  /\ getter[c].pc \in {"waiting", "forcing"}
  /\ getter[c].pc = "forcing" \/ lock[getter[c].key] = NoCaller
  /\ LET k == getter[c].key
     IN  IF getter[c].pc = "waiting" /\ Usable(k, getter[c].date)
         THEN Return(c, k, EntryOf(k).day) /\ UNCHANGED lock
         ELSE /\ Get(c, [getter[c] EXCEPT !.pc = "resolving"])
              /\ lock' = [lock EXCEPT ![k] = c]
  /\ UNCHANGED <<day, entries>>

\* The lock is free: an entry that another caller made meanwhile is compared with
\* the date read before the wait, or _refresh begins, with the instrument.
AcquireLock(c) ==
  /\ getter[c].pc \in {"waiting", "forcing"} /\ lock[getter[c].key] = NoCaller
  /\ LET k == getter[c].key
     IN  IF getter[c].pc = "waiting" /\ Usable(k, getter[c].date)
         THEN Return(c, k, EntryOf(k).day) /\ UNCHANGED lock
         ELSE /\ Get(c, [getter[c] EXCEPT !.pc = "resolving"])
              /\ lock' = [lock EXCEPT ![k] = c]
  /\ UNCHANGED <<day, entries>>

\* The instrument is resolved: the exchange date is read again, for the history.
Resolved(c) ==
  /\ getter[c].pc = "resolving"
  /\ Get(c, [getter[c] EXCEPT !.pc = "fetching", !.to = day])
  /\ UNCHANGED <<day, entries, lock>>

\* The closes are there: the entry is stored as the most recently used, the least
\* recently used ones above the limit are evicted, and the lock is released.
Fetched(c) ==
  /\ getter[c].pc = "fetching"
  /\ LET k == getter[c].key
         all == Append(Without(k), [key |-> k, day |-> getter[c].to, live |-> TRUE])
     IN  /\ entries' = SubSeq(all, Len(all) - (IF Len(all) > MaxEntries THEN MaxEntries ELSE Len(all)) + 1, Len(all))
         /\ lock' = [lock EXCEPT ![k] = NoCaller]
         /\ Return(c, k, getter[c].to)
  /\ UNCHANGED day

\* The provider fails: the call raises and the lock is released.
FetchFails(c) ==
  /\ getter[c].pc \in {"resolving", "fetching"}
  /\ lock' = [lock EXCEPT ![getter[c].key] = NoCaller]
  /\ Get(c, [getter[c] EXCEPT !.pc = "raised"])
  /\ UNCHANGED <<day, entries>>

\* The caller has its answer and may call again.
Answered(c) ==
  /\ getter[c].pc \in {"got", "raised"}
  /\ Get(c, NoGet)
  /\ UNCHANGED <<day, entries, lock>>

\* Time: an entry expires; the exchange date changes.
Expire ==
  /\ \E i \in DOMAIN entries : entries[i].live /\ entries' = [entries EXCEPT ![i].live = FALSE]
  /\ UNCHANGED <<day, lock, getter>>

NewDay ==
  /\ day < LastDay
  /\ day' = day + 1
  /\ UNCHANGED <<entries, lock, getter>>

RegistryInit ==
  /\ day = 1
  /\ entries = <<>>
  /\ lock = [k \in Instruments |-> NoCaller]
  /\ getter = [c \in Callers |-> NoGet]

\* What a call does once it has begun.
RegistryProgress(c) == AcquireLock(c) \/ Resolved(c) \/ Fetched(c) \/ FetchFails(c)

-----------------------------------------------------------------------------
\* A key has one entry, the limit holds after an insert, and who fetches holds the
\* lock of the key (_refresh is never run twice at once for an instrument).
RegistryTypeOK ==
  /\ Len(entries) <= MaxEntries
  /\ \A i, j \in DOMAIN entries : entries[i].key = entries[j].key => i = j
  /\ \A c \in Callers : getter[c].pc \in {"resolving", "fetching"} <=>
       \E k \in Instruments : lock[k] = c
  /\ \A c \in Callers : getter[c].pc \in {"resolving", "fetching"} => lock[getter[c].key] = c

\* A call is never answered with a snapshot of an exchange date before the one at
\* which it began, however long it waited for other callers and whatever expired,
\* was evicted or was refreshed meanwhile (get, _refresh).
ServiceIsOfCallDay ==
  \A c \in Callers : getter[c].pc = "got" => getter[c].to >= getter[c].called /\ getter[c].to <= day
=============================================================================
