--------------------------- MODULE MCMarketEvents ---------------------------
(* Small instances of MarketEvents for TLC.                                 *)
EXTENDS MarketEvents, LifecycleArchive, TLC

CONSTANTS c1, c2, w1, w2, b1, b2, p1, p2, p3, k1, k2, nifty, o1

Feed(mode, union, levels) ==
  [mode |-> mode, union |-> union, ltpc |-> TRUE, levels |-> levels, value |-> "valid"]

NoEntries == [x \in {} |-> x]

Quotes(feeds) ==
  [response |-> "live_feed", timed |-> TRUE, feeds |-> feeds, segments |-> NoEntries]

\* p1 quotes two keys, the first with greeks and the second with a depth; p2 has
\* the status of a segment; p3 quotes one key with more levels than the limit.
MCMessages ==
  (p1 :> Quotes((k1 :> Feed("option_greeks", "firstLevelWithGreeks", 1))
                @@ (k2 :> Feed("full_d5", "marketFF", 5)))) @@
  (p2 :> [response |-> "market_info", timed |-> TRUE, feeds |-> NoEntries,
          segments |-> ("NSE" :> 2)]) @@
  (p3 :> Quotes(k2 :> Feed("full_d30", "marketFF", 31)))

Live(id, bytes) ==
  [id |-> id, bytes |-> bytes, basis |-> "live_received",
   received |-> 1, available |-> 1, recorded |-> 2]

Imported(id, bytes) ==
  [id |-> id, bytes |-> bytes, basis |-> "historical_import",
   received |-> NoTime, available |-> 1, recorded |-> 2]

\* The second frame is a capture of other bytes under the identity of the first.
MCFrames == {Live(1, p1), Live(1, p3), Imported(2, p2)}

MCKindOf == (nifty :> "underlying") @@ (o1 :> "option")

Lists(key, instrument) == [key |-> key, instrument |-> instrument]

\* The first lists the index under the key quoted with greeks, the second lists
\* both keys for one instrument.
MCListings ==
  {{Lists(k1, nifty), Lists(k2, o1)}, {Lists(k1, o1), Lists(k2, o1)}}

\* Two frames whose roots meet in the same stripes, in opposite orders.
MCStripe ==
  [r \in Roots \X {1, 2} |->
     IF r[1] = "raw_capture" THEN r[2] ELSE IF r[1] = "raw_frame" THEN 3 - r[2] ELSE 3]

Symmetry == Permutations(Calls)

-----------------------------------------------------------------------------
(* The lifecycle tables.  They share no row with those of frames: TLC      *)
(* explores what happens to either while nothing happens to the other.     *)

Event(kind, session, scope, source, order, previous, state, mode, keys, reason) ==
  [kind |-> kind, provider |-> "upstox", session |-> session, scope |-> scope,
   previous |-> previous, state |-> state, source |-> source, order |-> order,
   occurred |-> 1, available |-> 1, recorded |-> 2, mode |-> mode, keys |-> keys, reason |-> reason]

Connection(session, source, order, previous, state) ==
  Event("connection", session, Absent, source, order, previous, state, Absent, NoKeys,
        IF state = "failed" THEN "network_lost" ELSE Absent)

Subscription(scope, source, order, previous, state, mode, keys) ==
  Event("subscription", "s1", scope, source, order, previous, state, mode, keys,
        IF state = "subscription_failed" THEN "rejected" ELSE Absent)

TwoKeys == InstrumentSet(<<2, 1>>)
ManyKeys == InstrumentSet([i \in 1..51 |-> i])

e1 == Connection("s1", "x", 1, Absent, "connecting")
e2 == Connection("s1", "x", 2, "connecting", "connected")
u1 == Subscription("a", "x", 1, Absent, "subscribe_requested", "ltpc", TwoKeys)

MCBatchKind == (b1 :> "connection") @@ (b2 :> "subscription")
MCBatchOf == (b1 :> <<e1, e1, e2>>) @@ (b2 :> <<u1>>)

\* The first writer has a batch of connection events and classifies an input and
\* orders an observation wrongly; the second adds rows past the end of that batch.
ConnectionRows ==
  (w1 :> RowsOfBatch(b1) \cup {[InputRow(b1, 2) EXCEPT !.first = 1, !.duplicate = FALSE],
                               [NormalizedRow(b1, 2) EXCEPT !.ordinal = 0]}) @@
  (w2 :> {InputRow(b1, 3), [InputRow(b1, 3) EXCEPT !.ordinal = 3, !.duplicate = TRUE], NormalizedRow(b1, 1)})

\* Both write the same instrument set; the second has a key at a wrong ordinal and
\* an event with a wrong count, and one without its mode.
SubscriptionRows ==
  (w1 :> RowsOfBatch(b2)) @@
  (w2 :> {SetRow(<<1, 2>>), KeyRow(<<1, 2>>, 1), KeyRow(<<1, 2>>, 2), RawRow(u1),
          [KeyRow(<<1, 2>>, 2) EXCEPT !.ordinal = 0], [RawRow(u1) EXCEPT !.values.keys.count = 1],
          [RawRow(u1) EXCEPT !.values.mode = Absent]})

MCWorkloads == [connection |-> ConnectionRows, subscription |-> SubscriptionRows]

MCReports ==
  {Connection(session, source, order, t[1], t[2]) :
     session \in {"s1", "s2"}, source \in {"x", "y"}, order \in 1..3, t \in ConnectionTransitions}
  \cup
  {Subscription(scope, "x", order, t[1], t[2], mode, keys) :
     scope \in {"a", "b"}, order \in 1..3, t \in SubscriptionTransitions,
     mode \in {Absent, "ltpc", "full_d30"}, keys \in {TwoKeys, ManyKeys}}

FramesUntouched ==
  /\ catalogue = {} /\ scan.pc = "idle" /\ archive.frames = {}
  /\ \A c \in Calls : call[c].pc = "idle"

LifecycleUntouched ==
  /\ committed = {} /\ trail = <<>> /\ workload = "connection"
  /\ \A w \in Writers : written[w] = {}

\* The reader compares identities of results, whatever catalogues put into them, and
\* meets calls only in what they commit.  TLC explores its steps without a catalogue,
\* where a call is about to commit or none is under way: every order of pages and
\* commits is there.
ReaderTurn ==
  /\ catalogue = {}
  /\ (\E c \in Calls : call[c].pc = "commit") \/ (\A c \in Calls : call[c].pc \notin {"begin", "lock"})

ReaderAside == UNCHANGED scan /\ (scan.pc = "idle" \/ UNCHANGED catalogue)

ArchiveInit == Init /\ LifecycleInit

ArchiveNext ==
  \/ LifecycleUntouched /\ Next /\ (ReaderAside \/ ReaderTurn) /\ UNCHANGED lifecycleVars
  \/ FramesUntouched /\ LifecycleNext /\ UNCHANGED vars

ArchiveSpec == ArchiveInit /\ [][ArchiveNext]_<<vars, lifecycleVars>>
=============================================================================
