-------------------------- MODULE MarketEventsProofs --------------------------
(***************************************************************************)
(* The archive of captured frames, for any calls, frames, messages,        *)
(* catalogues, stripes and page limit: calls never wait in a circle, the   *)
(* committed rows are those of the results published, each of them as      *)
(* normalization made it, and the archive implements EventArchive.         *)
(***************************************************************************)
EXTENDS MarketEvents, TemporalRecordsProofs

-----------------------------------------------------------------------------
(* Naturals and finite sets                                                *)

HasMax(S) == \E m \in S : \A x \in S : x <= m

\* A finite set of naturals has a greatest element: else take one of the least
\* cardinality that has none, without one of its elements.
LEMMA GreatestNatural ==
  ASSUME NEW S \in SUBSET Nat, IsFiniteSet(S), S # {}
  PROVE  HasMax(S)
<1> DEFINE Bad == {U \in SUBSET Nat : IsFiniteSet(U) /\ U # {} /\ ~HasMax(U)}
           Sizes == {Cardinality(U) : U \in Bad}
<1>1. SUFFICES ASSUME S \in Bad PROVE FALSE
  OBVIOUS
<1>2. Sizes \in SUBSET Nat /\ Sizes # {}
  BY <1>1, FS_CardinalityType
<1>3. PICK U \in Bad : \A W \in Bad : Cardinality(U) <= Cardinality(W)
  <2>1. PICK m \in Sizes : \A x \in Sizes : m <= x
    <3> HIDE DEF Sizes
    <3> QED
      BY <1>2, LeastNatural
  <2> QED
    BY <2>1
<1>4. PICK u \in U : TRUE
  OBVIOUS
<1> DEFINE V == U \ {u}
<1>5. /\ V \in SUBSET Nat /\ IsFiniteSet(V) /\ Cardinality(V) \in Nat
      /\ Cardinality(V) = Cardinality(U) - 1 /\ Cardinality(U) \in Nat
  BY <1>4, FS_RemoveElement, FS_CardinalityType
<1>6. V \notin Bad
  <2> SUFFICES ASSUME V \in Bad PROVE FALSE
    OBVIOUS
  <2>1. Cardinality(U) <= Cardinality(V)
    BY <1>3
  <2> HIDE DEF V
  <2> QED
    BY <1>5, <2>1
<1>7. CASE V = {}
  BY <1>4, <1>7 DEF HasMax
<1>8. CASE HasMax(V)
  <2>1. PICK v \in V : \A x \in V : x <= v
    BY <1>8 DEF HasMax
  <2>2. HasMax(U)
    <3>1. CASE u <= v
      BY <2>1, <3>1 DEF HasMax
    <3>2. CASE v <= u
      BY <1>4, <2>1, <3>2 DEF HasMax
    <3> QED
      BY <1>4, <2>1, <3>1, <3>2
  <2> QED
    BY <2>2
<1> QED
  BY <1>5, <1>6, <1>7, <1>8

\* What Max and Min of FiniteSetsExt choose.
LEMMA MaxIsGreatest ==
  ASSUME NEW S \in SUBSET Nat, IsFiniteSet(S), S # {}
  PROVE  Max(S) \in S /\ \A x \in S : x <= Max(S)
<1>1. \E m \in S : \A x \in S : m >= x
  BY GreatestNatural DEF HasMax
<1> QED
  BY <1>1 DEF Max

LEMMA MinIsLeast ==
  ASSUME NEW S \in SUBSET Nat, S # {}
  PROVE  Min(S) \in S /\ \A x \in S : Min(S) <= x
BY LeastNatural DEF Min

\* Tests that all pass raise nothing.
LEMMA FirstFailureRaises ==
  ASSUME NEW tests, NEW n \in Nat, DOMAIN tests = 1..n,
         \E i \in 1..n : tests[i][1]
  PROVE  \E i \in 1..n : /\ tests[i][1] /\ FirstFailure(tests) = tests[i][2]
                         /\ \A j \in 1..n : j < i => ~tests[j][1]
<1> DEFINE failing == {i \in 1..n : tests[i][1]}
<1>1. \E i \in failing : \A j \in failing : i <= j
  <2>1. failing \in SUBSET Nat /\ failing # {}
    OBVIOUS
  <2> HIDE DEF failing
  <2> QED
    BY <2>1, LeastNatural
<1>2. \E i \in DOMAIN tests : tests[i][1] /\ \A j \in DOMAIN tests : tests[j][1] => i <= j
  BY <1>1
<1> DEFINE i == CHOOSE i \in DOMAIN tests : tests[i][1] /\ \A j \in DOMAIN tests : tests[j][1] => i <= j
<1>3. i \in 1..n /\ tests[i][1] /\ \A j \in 1..n : tests[j][1] => i <= j
  BY <1>2
<1>4. FirstFailure(tests) = tests[i][2]
  BY DEF FirstFailure
<1> HIDE DEF i
<1>5. \A j \in 1..n : j < i => ~tests[j][1]
  BY <1>3
<1> QED
  BY <1>3, <1>4, <1>5

-----------------------------------------------------------------------------
(* Calls and their locks                                                   *)

InTransaction == {"lock", "commit"}
CallFields == {"pc", "frame", "known", "result", "seen", "records", "outcome"}

\* What a call is at each place: a caller that has not asked has nothing, one that
\* has keeps its frame, and it is answered at the end.
CallOK(c) ==
  /\ DOMAIN call[c] = CallFields
  /\ call[c].pc \in {"idle", "begin", "ended"} \cup InTransaction
  /\ call[c].pc = "idle" =>
       call[c].frame = Nobody /\ call[c].result = NoResult /\ call[c].outcome = "none"
  /\ call[c].pc # "idle" => call[c].frame \in Frames
  /\ call[c].pc \in {"begin"} \cup InTransaction =>
       call[c].outcome \in {"none", "lost"} /\ call[c].known \in Cutoffs
  /\ call[c].pc = "ended" => call[c].outcome \notin {"none", "lost"}

CallsOK == DOMAIN call = Calls /\ \A c \in Calls : CallOK(c)

\* A call takes its stripes in ascending order, and has them all when it persists.
LockedRight(c) ==
  /\ call[c].pc \notin InTransaction => Held(c) = {}
  /\ call[c].pc \in InTransaction =>
       /\ Held(c) \subseteq StripesOf(call[c].frame)
       /\ \A s \in Held(c), x \in StripesOf(call[c].frame) : x < s => x \in Held(c)
  /\ call[c].pc = "commit" => StripesOf(call[c].frame) \subseteq Held(c)

LocksOK ==
  /\ stripes \in [Stripes -> Calls \cup {Nobody}]
  /\ \A c \in Calls : LockedRight(c)

\* The places of a call, and what a step of it leaves of the others.
Others(c) ==
  /\ DOMAIN call' = Calls /\ DOMAIN call'[c] = CallFields
  /\ \A d \in Calls : d # c => call'[d] = call[d]

LEMMA StripesOfFrame ==
  ASSUME NEW f \in Frames
  PROVE  /\ StripesOf(f) \subseteq Stripes /\ StripesOf(f) # {}
         /\ StripesOf(f) \in SUBSET (0..63)
<1>1. f.id \in FrameIds
  BY DEF FrameIds
<1>2. \A root \in Roots : Stripe[<<root, f.id>>] \in 0..63
  BY <1>1, ArchiveAssumption DEF LockStripeCount
<1> QED
  BY <1>1, <1>2 DEF StripesOf, Stripes, Roots

LEMMA NextStripeIsLeast ==
  ASSUME NEW f \in Frames, NEW held, StripesOf(f) \ held # {}
  PROVE  /\ NextStripe(f, held) \in StripesOf(f) \ held
         /\ \A x \in StripesOf(f) \ held : NextStripe(f, held) <= x
<1> DEFINE S == StripesOf(f) \ held
<1>1. S \in SUBSET Nat /\ S # {}
  BY StripesOfFrame
<1> HIDE DEF S
<1>2. Min(S) \in S /\ \A x \in S : Min(S) <= x
  BY <1>1, MinIsLeast
<1> QED
  BY <1>2 DEF NextStripe, S

\* What each step of a call makes of it.
LEMMA EndStep ==
  ASSUME CallsOK, NEW c \in Calls, NEW outcome, End(c, outcome)
  PROVE  /\ Others(c)
         /\ call'[c].pc = IF outcome = "lost" THEN "begin" ELSE "ended"
         /\ call'[c].known = IF outcome = "lost" THEN call[c].known ELSE 0
         /\ call'[c].frame = call[c].frame /\ call'[c].result = call[c].result
         /\ call'[c].seen = EmptyArchive /\ call'[c].records = {}
         /\ call'[c].outcome = outcome
<1> DEFINE place == IF outcome = "lost" THEN "begin" ELSE "ended"
           cutoff == IF outcome = "lost" THEN call[c].known ELSE 0
           e == [call[c] EXCEPT !.pc = place, !.seen = EmptyArchive, !.records = {},
                                !.outcome = outcome, !.known = cutoff]
<1>1. call' = [call EXCEPT ![c] = e]
  BY DEF End
<1>2. DOMAIN call = Calls /\ DOMAIN call[c] = CallFields
  BY DEF CallsOK, CallOK
<1> HIDE DEF place, cutoff
<1>3. /\ DOMAIN e = CallFields /\ e.pc = place /\ e.known = cutoff /\ e.frame = call[c].frame
      /\ e.result = call[c].result /\ e.seen = EmptyArchive /\ e.records = {} /\ e.outcome = outcome
  BY <1>2 DEF CallFields
<1> HIDE DEF e
<1> QED
  BY <1>1, <1>2, <1>3, CallsOK DEF Others, place, cutoff, CallsOK, CallOK

LEMMA NormalizeStep ==
  ASSUME CallsOK, NEW c \in Calls, NEW f, NEW known, Normalize(c, f, known)
  PROVE  /\ Others(c)
         /\ call'[c].pc = "begin" /\ call'[c].frame = f /\ call'[c].known = known
         /\ call'[c].result = Normalized(catalogue, f, known)
         /\ call'[c].outcome = call[c].outcome
BY DEF CallsOK, CallOK, Normalize, Others, CallFields

LEMMA RequestStep ==
  ASSUME CallsOK, NEW c \in Calls, RequestLocks(c)
  PROVE  /\ Others(c)
         /\ call'[c].pc = "lock" /\ call'[c].seen = archive /\ call'[c].records = catalogue
         /\ call'[c].frame = call[c].frame /\ call'[c].known = call[c].known
         /\ call'[c].result = call[c].result /\ call'[c].outcome = call[c].outcome
BY DEF CallsOK, CallOK, RequestLocks, Others, CallFields

\* The answer of a call that does not go on to its commit.
Failure(c) == PersistFailure(call[c].seen, call[c].records, archive, call[c])

LEMMA PersistStep ==
  ASSUME CallsOK, NEW c \in Calls, Persist(c), Failure(c) = "none"
  PROVE  /\ Others(c) /\ UNCHANGED stripes
         /\ call'[c].pc = "commit" /\ call'[c].seen = call[c].seen
         /\ call'[c].records = call[c].records
         /\ call'[c].frame = call[c].frame /\ call'[c].known = call[c].known
         /\ call'[c].result = call[c].result /\ call'[c].outcome = call[c].outcome
<1>1. call' = [call EXCEPT ![c].pc = "commit"] /\ UNCHANGED stripes
  BY DEF Persist, Failure
<1> QED
  BY <1>1 DEF CallsOK, CallOK, Others, CallFields

\* A call that ends releases its stripes, and no other.
LEMMA EndKeepsLocks ==
  ASSUME CallsOK, LocksOK, NEW c \in Calls, NEW outcome, End(c, outcome)
  PROVE  LocksOK'
<1>1. /\ \A d \in Calls : d # c => call'[d] = call[d]
      /\ call'[c].pc \notin InTransaction
  BY EndStep DEF Others, InTransaction
<1>2. stripes' = [s \in Stripes |-> IF stripes[s] = c THEN Nobody ELSE stripes[s]]
  BY DEF End
<1>3. c # Nobody
  BY ArchiveAssumption
<1>4. \A d \in Calls : Held(d)' = IF d = c THEN {} ELSE Held(d)
  BY <1>2, <1>3, ArchiveAssumption DEF LocksOK, Held
<1>5. \A d \in Calls : LockedRight(d)'
  BY <1>1, <1>4 DEF LocksOK, LockedRight, InTransaction
<1> QED
  BY <1>2, <1>5 DEF LocksOK

\* A call that takes its next stripe has all stripes of its frame below it.
LEMMA AcquireKeepsLocks ==
  ASSUME CallsOK, LocksOK, NEW c \in Calls, AcquireStripe(c)
  PROVE  LocksOK'
<1> DEFINE f == call[c].frame
           n == NextStripe(f, Held(c))
<1>1. call[c].pc = "lock" /\ StripesOf(f) \ Held(c) # {} /\ stripes[n] = Nobody
  BY DEF AcquireStripe
<1>2. f \in Frames
  BY <1>1 DEF CallsOK, CallOK
<1>3. n \in StripesOf(f) \ Held(c) /\ \A x \in StripesOf(f) \ Held(c) : n <= x
  BY <1>1, <1>2, NextStripeIsLeast
<1>4. stripes' = [stripes EXCEPT ![n] = c] /\ call' = call
  BY DEF AcquireStripe
<1> HIDE DEF n
<1>5. n \in Stripes /\ StripesOf(f) \in SUBSET (0..63)
  BY <1>2, <1>3, StripesOfFrame
<1>6. \A d \in Calls : Held(d)' = IF d = c THEN Held(c) \cup {n} ELSE Held(d)
  BY <1>1, <1>4, <1>5, ArchiveAssumption DEF LocksOK, Held
<1>7. \A d \in Calls : d # c => LockedRight(d)'
  BY <1>4, <1>6 DEF LocksOK, LockedRight
<1>8. LockedRight(c)'
  <2>1. Held(c) \subseteq StripesOf(f) /\ \A s \in Held(c), x \in StripesOf(f) : x < s => x \in Held(c)
    BY <1>1 DEF LocksOK, LockedRight, InTransaction
  <2>2. \A x \in StripesOf(f) : x < n => x \in Held(c)
    BY <1>3, <1>5
  <2>3. /\ Held(c)' = Held(c) \cup {n}
        /\ call'[c].frame = f /\ call'[c].pc = "lock"
    BY <1>1, <1>4, <1>6
  <2> HIDE DEF f
  <2>4. Held(c)' \subseteq StripesOf(f)
    BY <1>3, <2>1, <2>3
  <2>5. \A s \in Held(c)', x \in StripesOf(f) : x < s => x \in Held(c)'
    BY <2>1, <2>2, <2>3
  <2> QED
    BY <2>3, <2>4, <2>5 DEF LockedRight, InTransaction
<1> QED
  BY <1>4, <1>5, <1>7, <1>8 DEF LocksOK

\* A step of one call that leaves the stripes alone.
LEMMA StepKeepsLocks ==
  ASSUME CallsOK, LocksOK, NEW c \in Calls, Others(c), UNCHANGED stripes, LockedRight(c)'
  PROVE  LocksOK'
BY DEF LocksOK, LockedRight, Others, Held

LEMMA PersistKeepsLocks ==
  ASSUME CallsOK, LocksOK, NEW c \in Calls, Persist(c)
  PROVE  LocksOK'
<1>1. CASE Failure(c) = "none"
  <2>1. /\ Others(c) /\ UNCHANGED stripes
        /\ call'[c].pc = "commit" /\ call'[c].frame = call[c].frame
    BY <1>1, PersistStep
  <2>2. Held(c)' = Held(c)
    BY <2>1 DEF Held
  <2>3. LockedRight(c)'
    BY <2>1, <2>2 DEF Persist, LocksOK, LockedRight, InTransaction
  <2> QED
    BY <2>1, <2>3, StepKeepsLocks
<1>2. CASE Failure(c) # "none"
  BY <1>2, EndKeepsLocks DEF Persist, Failure
<1> QED
  BY <1>1, <1>2

\* Every step keeps the order in which calls take their stripes.
LEMMA NextKeepsLocks ==
  ASSUME CallsOK, LocksOK, Next
  PROVE  LocksOK'
<1>1. ASSUME NEW c \in Calls, NEW f \in Frames, NEW known \in Cutoffs, Normalize(c, f, known)
      PROVE  LocksOK'
  <2>1. Others(c) /\ call'[c].pc = "begin" /\ UNCHANGED stripes /\ call[c].pc = "idle"
    BY <1>1, NormalizeStep DEF Normalize
  <2>2. LockedRight(c)'
    BY <2>1 DEF LocksOK, LockedRight, InTransaction, Held
  <2> QED
    BY <1>1, <2>1, <2>2, StepKeepsLocks
<1>2. ASSUME NEW c \in Calls, RequestLocks(c) PROVE LocksOK'
  <2>1. Others(c) /\ call'[c].pc = "lock" /\ UNCHANGED stripes /\ call[c].pc = "begin"
    BY <1>2, RequestStep DEF RequestLocks
  <2>2. Held(c)' = {}
    BY <2>1 DEF LocksOK, LockedRight, InTransaction, Held
  <2>3. LockedRight(c)'
    BY <2>1, <2>2 DEF LockedRight, InTransaction
  <2> QED
    BY <1>2, <2>1, <2>3, StepKeepsLocks
<1>3. ASSUME NEW c \in Calls, AcquireStripe(c) \/ Persist(c) \/ Commit(c) \/ Crash(c) PROVE LocksOK'
  BY <1>3, AcquireKeepsLocks, PersistKeepsLocks, EndKeepsLocks DEF Commit, Crash
<1>4. CASE \/ \E listing \in Listings, t \in Cutoffs : Ingest(listing, t)
           \/ BeginScan
           \/ ReadPage
  BY <1>4 DEF Ingest, BeginScan, ReadPage, LocksOK, LockedRight, Held
<1> QED
  BY <1>1, <1>2, <1>3, <1>4 DEF Next

\* Every step keeps the calls in their places.
LEMMA NextKeepsCalls ==
  ASSUME CallsOK, Next
  PROVE  CallsOK'
<1>1. ASSUME NEW c \in Calls, Others(c), CallOK(c)' PROVE CallsOK'
  BY <1>1 DEF CallsOK, CallOK, Others
<1>2. ASSUME NEW c \in Calls, NEW f \in Frames, NEW known \in Cutoffs, Normalize(c, f, known)
      PROVE  CallsOK'
  <2>1. call[c].outcome = "none"
    BY <1>2 DEF Normalize, CallsOK, CallOK
  <2>2. /\ Others(c) /\ call'[c].pc = "begin" /\ call'[c].frame = f
        /\ call'[c].known = known /\ call'[c].outcome = "none"
    BY <1>2, <2>1, NormalizeStep
  <2>3. CallOK(c)'
    BY <1>2, <2>2 DEF CallOK, Others, InTransaction
  <2> QED
    BY <1>1, <1>2, <2>2, <2>3
<1>3. ASSUME NEW c \in Calls, RequestLocks(c) PROVE CallsOK'
  <2>1. CallOK(c)'
    BY <1>3, RequestStep DEF RequestLocks, CallsOK, CallOK, Others, InTransaction
  <2> QED
    BY <1>1, <1>3, <2>1, RequestStep
<1>4. ASSUME NEW c \in Calls, NEW outcome, End(c, outcome), outcome # "none", call[c].pc \in InTransaction
      PROVE  CallsOK'
  <2>1. call[c].frame \in Frames /\ call[c].known \in Cutoffs
    BY <1>4 DEF CallsOK, CallOK, InTransaction
  <2>2. CallOK(c)'
    <3>1. CASE outcome = "lost"
      BY <1>4, <2>1, <3>1, EndStep DEF CallOK, Others, InTransaction
    <3>2. CASE outcome # "lost"
      BY <1>4, <2>1, <3>2, EndStep DEF CallOK, Others, InTransaction
    <3> QED
      BY <3>1, <3>2
  <2> QED
    BY <1>1, <1>4, <2>2, EndStep
<1>5. ASSUME NEW c \in Calls, Persist(c) PROVE CallsOK'
  <2>1. CASE Failure(c) = "none"
    <3>1. CallOK(c)'
      BY <1>5, <2>1, PersistStep DEF Persist, CallsOK, CallOK, Others, InTransaction
    <3> QED
      BY <1>1, <1>5, <2>1, <3>1, PersistStep
  <2>2. CASE Failure(c) # "none"
    BY <1>4, <1>5, <2>2 DEF Persist, Failure, InTransaction
  <2> QED
    BY <2>1, <2>2
<1>6. ASSUME NEW c \in Calls, Commit(c) \/ Crash(c) PROVE CallsOK'
  BY <1>4, <1>6 DEF Commit, Crash, InTransaction
<1>7. CASE \/ \E c \in Calls : AcquireStripe(c)
           \/ \E listing \in Listings, t \in Cutoffs : Ingest(listing, t)
           \/ BeginScan
           \/ ReadPage
  BY <1>7 DEF AcquireStripe, Ingest, BeginScan, ReadPage, CallsOK, CallOK
<1> QED
  BY <1>2, <1>3, <1>5, <1>6, <1>7 DEF Next

\* Of the calls of a circle, the one that waits for the highest stripe would wait for
\* one that waits for a higher stripe.
LEMMA AscendingLocksNeverCircle ==
  ASSUME CallsOK, LocksOK
  PROVE  NoCircularWait
<1> DEFINE next(c) == NextStripe(call[c].frame, Held(c))
<1>1. SUFFICES ASSUME NEW W \in SUBSET Calls, W # {}, \A c \in W : \E d \in W : WaitsFor(c, d)
               PROVE  FALSE
  BY DEF NoCircularWait
<1>2. ASSUME NEW c \in W
      PROVE  /\ call[c].frame \in Frames /\ call[c].pc = "lock"
             /\ next(c) \in StripesOf(call[c].frame) \ Held(c)
             /\ next(c) \in 0..63 /\ next(c) \in Stripes
  <2>1. call[c].pc = "lock" /\ ~(StripesOf(call[c].frame) \subseteq Held(c))
    BY <1>1, <1>2 DEF WaitsFor
  <2>2. call[c].frame \in Frames
    BY <2>1, <1>1, <1>2 DEF CallsOK, CallOK
  <2>3. next(c) \in StripesOf(call[c].frame) \ Held(c)
    BY <2>1, <2>2, NextStripeIsLeast
  <2> QED
    BY <2>1, <2>2, <2>3, StripesOfFrame
<1> DEFINE S == {next(c) : c \in W}
<1>3. S \in SUBSET Nat /\ IsFiniteSet(S) /\ S # {}
  <2>1. S \in SUBSET Nat /\ S # {} /\ \A s \in S : s <= 63
    BY <1>1, <1>2
  <2> HIDE DEF S
  <2> QED
    BY <2>1, FS_BoundedSetOfNaturals
<1>4. PICK c \in W : \A d \in W : next(d) <= next(c)
  <2>1. PICK m \in S : \A x \in S : x <= m
    <3> HIDE DEF S
    <3> QED
      BY <1>3, GreatestNatural DEF HasMax
  <2> QED
    BY <2>1
<1>5. PICK d \in W : WaitsFor(c, d)
  BY <1>1, <1>4
<1>6. next(c) \in Held(d)
  BY <1>2, <1>4, <1>5 DEF WaitsFor, Held
<1>7. \A s \in Held(d), x \in StripesOf(call[d].frame) : x < s => x \in Held(d)
  BY <1>1, <1>2, <1>5 DEF LocksOK, LockedRight, InTransaction
<1>8. next(d) \in StripesOf(call[d].frame) /\ next(d) \notin Held(d) /\ next(d) \in 0..63
  BY <1>2, <1>5
<1>9. next(c) \in 0..63 /\ next(d) <= next(c)
  BY <1>2, <1>4, <1>5
<1> HIDE DEF next
<1>10. next(d) # next(c) /\ ~(next(d) < next(c))
  BY <1>6, <1>7, <1>8
<1> QED
  BY <1>8, <1>9, <1>10

-----------------------------------------------------------------------------
(* What normalization makes of a frame                                     *)

\* Tests that raise nothing all pass, when none of them raises "none".
LEMMA NothingFailed ==
  ASSUME NEW tests, NEW n \in Nat, DOMAIN tests = 1..n,
         \A i \in 1..n : tests[i][1] => tests[i][2] # "none",
         FirstFailure(tests) = "none"
  PROVE  \A i \in 1..n : ~tests[i][1]
BY FirstFailureRaises

\* What _adopt_fields requires of a feed.
LEMMA AdoptedFeed ==
  ASSUME NEW feed \in Feeds, NEW kind, AdoptionFailure(feed, kind) = "none"
  PROVE  /\ feed.mode \in AdoptedModes(feed.union)
         /\ feed.union \in FeedUnions
         /\ kind \in AdoptedKinds(feed.union)
         /\ ~(DepthCount(feed) > MaxDepthLevels)
         /\ ~(feed.mode = "full_d5" /\ DepthCount(feed) > 5)
<1> DEFINE tests ==
      << <<feed.mode \notin AdoptedModes(feed.union), "request_mode_union_mismatch">>,
         <<feed.union \notin FeedUnions, "unsupported_feed_union">>,
         <<kind \notin AdoptedKinds(feed.union), "subject_kind_mismatch">>,
         <<feed.union # "ltpc" /\ ~feed.ltpc, "empty_supported_payload">>,
         <<DepthCount(feed) > MaxDepthLevels, "depth_limit_exceeded">>,
         <<feed.mode = "full_d5" /\ DepthCount(feed) > 5, "request_mode_depth_mismatch">>,
         <<feed.value # "valid", feed.value>> >>
<1>1. FirstFailure(tests) = "none"
  BY DEF AdoptionFailure
<1>2. DOMAIN tests = 1..7
  OBVIOUS
<1>4. \A i \in 1..7 : tests[i][1] => tests[i][2] # "none"
  BY DEF Feeds, ValueReasons
<1>5. \A i \in 1..7 : ~tests[i][1]
  <2> HIDE DEF tests
  <2> QED
    BY <1>1, <1>2, <1>4, NothingFailed
<1>6. ~tests[1][1] /\ ~tests[2][1] /\ ~tests[3][1] /\ ~tests[5][1] /\ ~tests[6][1]
  BY <1>5
<1> QED
  BY <1>6

\* What a feed that is adopted is made of passes the validation of the observation.
LEMMA AdoptedQuoteIsValid ==
  ASSUME NEW feed \in Feeds, NEW kind, AdoptionFailure(feed, kind) = "none"
  PROVE  /\ ValidQuote(AdoptedQuote(feed, kind))
         /\ AdoptedQuote(feed, kind).kind = kind /\ AdoptedQuote(feed, kind).union \in FeedUnions
<1> DEFINE n == DepthCount(feed)
<1>1. /\ feed.mode \in AdoptedModes(feed.union) /\ feed.union \in FeedUnions
      /\ kind \in AdoptedKinds(feed.union)
      /\ ~(n > MaxDepthLevels) /\ ~(feed.mode = "full_d5" /\ n > 5)
  BY AdoptedFeed
<1>2. /\ n \in Nat
      /\ feed.union \in {"ltpc", "indexFF"} => n = 0
      /\ feed.union = "firstLevelWithGreeks" => n \in {0, 1}
  BY DEF DepthCount, Feeds
<1> HIDE DEF n
<1>3. AdoptedQuote(feed, kind) =
        [kind |-> kind, mode |-> feed.mode, union |-> feed.union, depth |-> n,
         normalized |-> IF n > 0 THEN 1 ELSE 0]
  BY DEF AdoptedQuote, n
<1>4. CASE feed.union = "ltpc"
  BY <1>1, <1>2, <1>3, <1>4 DEF ValidQuote, AdoptedModes, AdoptedKinds, MaxDepthLevels
<1>5. CASE feed.union = "firstLevelWithGreeks"
  BY <1>1, <1>2, <1>3, <1>5 DEF ValidQuote, AdoptedModes, AdoptedKinds, MaxDepthLevels
<1>6. CASE feed.union = "indexFF"
  BY <1>1, <1>2, <1>3, <1>6 DEF ValidQuote, AdoptedModes, AdoptedKinds, MaxDepthLevels
<1>7. CASE feed.union = "marketFF"
  BY <1>1, <1>2, <1>3, <1>7 DEF ValidQuote, AdoptedModes, AdoptedKinds, MaxDepthLevels
<1> QED
  BY <1>1, <1>4, <1>5, <1>6, <1>7 DEF FeedUnions

\* An injective image of a finite set has as many elements.
LEMMA ImageCount ==
  ASSUME NEW S, IsFiniteSet(S), NEW f, f = [x \in S |-> f[x]],
         \A x, y \in S : f[x] = f[y] => x = y
  PROVE  IsFiniteSet({f[x] : x \in S}) /\ Cardinality({f[x] : x \in S}) = Cardinality(S)
<1> DEFINE T == {f[x] : x \in S}
<1>1. f \in Bijection(S, T)
  BY DEF Bijection, Injection, Surjection, IsInjective
<1>2. ExistsBijection(S, T)
  BY <1>1 DEF ExistsBijection
<1> HIDE DEF T
<1>3. IsFiniteSet(T) /\ Cardinality(T) = Cardinality(S)
  BY <1>2, FS_Bijection
<1> QED
  BY <1>3 DEF T

\* The records a quote is bound to were known at its cutoff, and list its key for
\* its subject.
Provenanced(records, e) ==
  IsQuote(e) =>
    /\ e.provenance # {}
    /\ \A r \in e.provenance :
         r \in records /\ r.recorded_at <= e.known /\ [key |-> e.key, instrument |-> e.subject] \in r.sem

\* The catalogues of an unbranched history: at any cutoff there is one leaf.
CataloguesOK(records) ==
  /\ \A r \in records : r.sem \in Listings /\ r.recorded_at \in Cutoffs
  /\ \A known \in Cutoffs : \A r, s \in LeafAt(records, known) : r = s

LEMMA ResolvedSubject ==
  ASSUME NEW records, CataloguesOK(records), NEW known \in Cutoffs, NEW key,
         SubjectAt(records, key, known).reason = "resolved"
  PROVE  LET s == SubjectAt(records, key, known)
         IN  /\ s.kind \in SubjectKinds
             /\ s.records # {}
             /\ \A r \in s.records :
                  r \in records /\ r.recorded_at <= known /\ [key |-> key, instrument |-> s.instrument] \in r.sem
<1> DEFINE leaf == LeafAt(records, known)
           rows == {row \in UNION {r.sem : r \in leaf} : row.key = key}
           s == SubjectAt(records, key, known)
           row == CHOOSE x \in rows : TRUE
<1>1. CASE rows = {}
  BY <1>1 DEF SubjectAt, Unresolved
<1>2. CASE rows # {}
  <2>1. row \in rows
    BY <1>2
  <2>2. s = [reason |-> "resolved", instrument |-> row.instrument,
             kind |-> KindOf[row.instrument], records |-> leaf]
    BY <1>2 DEF SubjectAt
  <2> HIDE DEF row, s
  <2>3. PICK q \in leaf : row \in q.sem
    BY <2>1
  <2>4. \A r \in leaf : r \in records /\ r.recorded_at <= known /\ r = q
    BY <2>3 DEF CataloguesOK, LeafAt, KnowledgeLeaves, Visible
  <2>5. row \in UNION Listings /\ row.key = key
    BY <2>1, <2>3, <2>4 DEF CataloguesOK
  <2>6. KindOf[row.instrument] \in SubjectKinds /\ row = [key |-> key, instrument |-> row.instrument]
    BY <2>5, ListingsAssumption
  <2> HIDE DEF leaf, rows
  <2>7. s.kind \in SubjectKinds /\ s.records = leaf /\ s.instrument = row.instrument
    BY <2>2, <2>6
  <2> QED
    BY <2>3, <2>4, <2>6, <2>7 DEF s
<1> QED
  BY <1>1, <1>2

\* An event as normalization makes it, and a failure.
EventMade(f, e) ==
  /\ e = [frame |-> e.frame, kind |-> e.kind, subject |-> e.subject, key |-> e.key,
          quote |-> e.quote, provenance |-> e.provenance, known |-> e.known]
  /\ e.frame = f.id
  /\ \/ /\ IsQuote(e) /\ e.key # Null
        /\ ValidQuote(e.quote) /\ e.quote.kind = e.kind /\ e.quote.union \in FeedUnions
        /\ e.provenance # {} /\ e.known \in Cutoffs
     \/ /\ e.kind = "status" /\ e.subject = e.key
        /\ e.quote = Status(e.quote.number)
        /\ e.provenance = {} /\ e.known = 0

FailureMade(x) ==
  /\ x = [scope |-> x.scope, key |-> x.key, reason |-> x.reason, depth |-> x.depth]
  /\ x.scope \in {"frame", "subject"}
  /\ x.scope = "frame" <=> x.key = Null
  /\ x.depth \in Nat

\* A result as normalization makes it of f: what the constraints of the tables and the
\* aggregates that are loaded from them depend on.
Made(f, res) ==
  /\ res.frame = f.id
  /\ res.decoded \in 0..MaxFeeds
  /\ IsFiniteSet(res.events) /\ IsFiniteSet(res.failures)
  /\ \A e \in res.events : EventMade(f, e)
  /\ \A d, e \in res.events : EventId(d) = EventId(e) => d = e
  /\ \A x \in res.failures : FailureMade(x)
  /\ \A x, y \in res.failures : x.key = y.key => x = y
  /\ FrameFailed(res) => res.events = {} /\ Cardinality(res.failures) = 1
  /\ ~FrameFailed(res) => res.decoded = Cardinality(res.events) + Cardinality(res.failures)

LEMMA FailedIsMade ==
  ASSUME NEW f, NEW reason, NEW n \in 0..MaxFeeds
  PROVE  Made(f, Failed(f.id, reason, n))
<1> DEFINE x == [scope |-> "frame", key |-> Null, reason |-> reason, depth |-> 0]
           res == Failed(f.id, reason, n)
<1>1. res.frame = f.id /\ res.decoded = n /\ res.events = {} /\ res.failures = {x}
  BY DEF Failed
<1>2. FrameFailed(res) /\ FailureMade(x)
  BY <1>1 DEF FrameFailed, FailureMade
<1> HIDE DEF x, res
<1>3. IsFiniteSet({}) /\ IsFiniteSet({x}) /\ Cardinality({x}) = 1
  BY FS_EmptySet, FS_Singleton
<1> QED
  BY <1>1, <1>2, <1>3 DEF Made, res

\* The quotes of a message, one for each accepted key.
LEMMA QuotesAreMade ==
  ASSUME NEW f \in Frames, NEW known \in Cutoffs, NEW records, CataloguesOK(records)
  PROVE  LET m == Messages[f.bytes]
             subjects == Subjects(records, m, known)
             accepted == AcceptedKeys(m, subjects)
             events == QuoteEvents(f.id, m, subjects, known)
         IN  /\ \A e \in events : EventMade(f, e) /\ Provenanced(records, e)
             /\ IsFiniteSet(events) /\ Cardinality(events) = Cardinality(accepted)
<1> DEFINE m == Messages[f.bytes]
           subjects == Subjects(records, m, known)
           accepted == AcceptedKeys(m, subjects)
           made == [k \in accepted |-> QuoteEvent(f.id, k, m.feeds[k], subjects[k], known)]
<1>1. /\ IsFiniteSet(DOMAIN m.feeds)
      /\ \A k \in DOMAIN m.feeds : m.feeds[k] \in Feeds /\ k # Null
  BY MessagesAssumption
<1>2. accepted \in SUBSET DOMAIN m.feeds /\ IsFiniteSet(accepted)
  <2>1. accepted \in SUBSET DOMAIN m.feeds
    BY DEF AcceptedKeys
  <2> QED
    BY <1>1, <2>1, FS_Subset
<1>3. ASSUME NEW k \in accepted
      PROVE  EventMade(f, made[k]) /\ Provenanced(records, made[k]) /\ made[k].key = k
  <2> DEFINE sub == SubjectAt(records, k, known)
             quote == AdoptedQuote(m.feeds[k], sub.kind)
  <2>1. k \in DOMAIN m.feeds /\ subjects[k] = sub
    BY <1>2, <1>3 DEF Subjects
  <2>2. EntryFailure(m.feeds[k], subjects[k]) = "none"
    BY <1>3 DEF AcceptedKeys
  <2>3. sub.reason = "resolved" /\ AdoptionFailure(m.feeds[k], sub.kind) = "none"
    <3>1. sub.reason # "none"
      BY DEF SubjectAt, Unresolved
    <3> QED
      BY <2>1, <2>2, <3>1 DEF EntryFailure
  <2>4. ValidQuote(quote) /\ quote.kind = sub.kind /\ quote.union \in FeedUnions
    BY <1>1, <2>1, <2>3, AdoptedQuoteIsValid
  <2>5. /\ sub.kind \in SubjectKinds /\ sub.records # {}
        /\ \A r \in sub.records :
             r \in records /\ r.recorded_at <= known /\ [key |-> k, instrument |-> sub.instrument] \in r.sem
    BY <2>3, ResolvedSubject
  <2>6. made[k] = [frame |-> f.id, kind |-> sub.kind, subject |-> sub.instrument, key |-> k,
                   quote |-> quote, provenance |-> sub.records, known |-> known]
    BY <1>3, <2>1 DEF QuoteEvent
  <2> HIDE DEF made, sub, quote
  <2> QED
    BY <1>1, <2>1, <2>4, <2>5, <2>6 DEF EventMade, Provenanced, IsQuote
<1>4. QuoteEvents(f.id, m, subjects, known) = {made[k] : k \in accepted}
  BY DEF QuoteEvents
<1>5. made = [k \in accepted |-> made[k]] /\ \A j, k \in accepted : made[j] = made[k] => j = k
  BY <1>3
<1> HIDE DEF accepted, made, subjects
<1>6. /\ IsFiniteSet({made[k] : k \in accepted})
      /\ Cardinality({made[k] : k \in accepted}) = Cardinality(accepted)
  BY <1>2, <1>5, ImageCount
<1> QED
  BY <1>3, <1>4, <1>6 DEF accepted, subjects

\* The failures of a message, one for each key that is not accepted.
LEMMA EntryFailuresAreMade ==
  ASSUME NEW f \in Frames, NEW subjects
  PROVE  LET m == Messages[f.bytes]
             rejected == DOMAIN m.feeds \ AcceptedKeys(m, subjects)
             failures == EntryFailures(m, subjects)
         IN  /\ \A x \in failures : FailureMade(x) /\ x.scope # "frame"
             /\ \A x, y \in failures : x.key = y.key => x = y
             /\ IsFiniteSet(failures) /\ Cardinality(failures) = Cardinality(rejected)
<1> DEFINE m == Messages[f.bytes]
           rejected == DOMAIN m.feeds \ AcceptedKeys(m, subjects)
           made == [k \in rejected |->
                      [scope |-> "subject", key |-> k,
                       reason |-> EntryFailure(m.feeds[k], subjects[k]),
                       depth |-> DepthCount(m.feeds[k])]]
<1>1. /\ IsFiniteSet(DOMAIN m.feeds)
      /\ \A k \in DOMAIN m.feeds : m.feeds[k] \in Feeds /\ k # Null
  BY MessagesAssumption
<1>2. rejected \in SUBSET DOMAIN m.feeds /\ IsFiniteSet(rejected)
  <2>1. rejected \in SUBSET DOMAIN m.feeds
    OBVIOUS
  <2> QED
    BY <1>1, <2>1, FS_Subset
<1>3. ASSUME NEW k \in rejected
      PROVE  FailureMade(made[k]) /\ made[k].scope # "frame" /\ made[k].key = k
  <2>1. DepthCount(m.feeds[k]) \in Nat /\ k # Null
    BY <1>1, <1>2, <1>3 DEF DepthCount, Feeds
  <2> DEFINE reason == EntryFailure(m.feeds[k], subjects[k])
             depth == DepthCount(m.feeds[k])
  <2>2. made[k] = [scope |-> "subject", key |-> k, reason |-> reason, depth |-> depth]
    BY <1>3
  <2> HIDE DEF made, reason, depth
  <2> QED
    BY <2>1, <2>2 DEF FailureMade, depth
<1>4. EntryFailures(m, subjects) = {made[k] : k \in rejected}
  BY DEF EntryFailures
<1>5. made = [k \in rejected |-> made[k]] /\ \A j, k \in rejected : made[j] = made[k] => j = k
  BY <1>3
<1> HIDE DEF rejected, made
<1>6. /\ IsFiniteSet({made[k] : k \in rejected})
      /\ Cardinality({made[k] : k \in rejected}) = Cardinality(rejected)
  BY <1>2, <1>5, ImageCount
<1> QED
  BY <1>3, <1>4, <1>6 DEF rejected

\* The statuses of a message, one for each segment.
LEMMA StatusesAreMade ==
  ASSUME NEW f \in Frames
  PROVE  LET m == Messages[f.bytes]
             events == StatusEvents(f.id, m)
         IN  /\ \A e \in events : EventMade(f, e) /\ ~IsQuote(e)
             /\ IsFiniteSet(events) /\ Cardinality(events) = Cardinality(DOMAIN m.segments)
<1> DEFINE m == Messages[f.bytes]
           segments == DOMAIN m.segments
           made == [k \in segments |-> StatusEvent(f.id, k, Status(m.segments[k]))]
<1>1. IsFiniteSet(segments)
  BY MessagesAssumption
<1>2. ASSUME NEW k \in segments
      PROVE  EventMade(f, made[k]) /\ ~IsQuote(made[k]) /\ made[k].key = k
  <2> DEFINE q == Status(m.segments[k])
  <2>1. q = Status(q.number)
    BY DEF Status
  <2>2. made[k] = [frame |-> f.id, kind |-> "status", subject |-> k, key |-> k,
                   quote |-> q, provenance |-> {}, known |-> 0]
    BY <1>2 DEF StatusEvent
  <2> HIDE DEF made, q
  <2> QED
    BY <2>1, <2>2 DEF EventMade, IsQuote, SubjectKinds
<1>3. StatusEvents(f.id, m) = {made[k] : k \in segments}
  BY DEF StatusEvents
<1>4. made = [k \in segments |-> made[k]] /\ \A j, k \in segments : made[j] = made[k] => j = k
  BY <1>2
<1> HIDE DEF segments, made
<1>5. /\ IsFiniteSet({made[k] : k \in segments})
      /\ Cardinality({made[k] : k \in segments}) = Cardinality(segments)
  BY <1>1, <1>4, ImageCount
<1> QED
  BY <1>2, <1>3, <1>5 DEF segments

LEMMA DecodedMessage ==
  ASSUME NEW m, DecodeFailure(m) = "none"
  PROVE  /\ ~(Cardinality(DOMAIN m.feeds) > MaxFeeds)
         /\ ~(Cardinality(DOMAIN m.segments) > MaxStatusSegments)
<1> DEFINE tests ==
      << <<m.response = "none", "protobuf_decode_failed">>,
         <<m.response \notin ResponseTypes, "unsupported_response_type">>,
         <<~m.timed, "missing_provider_timestamp">>,
         <<Cardinality(DOMAIN m.feeds) > MaxFeeds, "too_many_feeds">>,
         <<Cardinality(DOMAIN m.segments) > MaxStatusSegments, "too_many_status_segments">>,
         <<Entries(m) = {}, "empty_primary_payload">> >>
<1>1. FirstFailure(tests) = "none"
  BY DEF DecodeFailure
<1>2. DOMAIN tests = 1..6 /\ \A i \in 1..6 : tests[i][1] => tests[i][2] # "none"
  OBVIOUS
<1>3. \A i \in 1..6 : ~tests[i][1]
  <2> HIDE DEF tests
  <2> QED
    BY <1>1, <1>2, NothingFailed
<1>4. ~tests[4][1] /\ ~tests[5][1]
  BY <1>3
<1> QED
  BY <1>4

\* A result that is not a failed frame's.
LEMMA EntriesAreMade ==
  ASSUME NEW f, NEW events, NEW failures, NEW n \in 0..MaxFeeds,
         IsFiniteSet(events), IsFiniteSet(failures),
         \A e \in events : EventMade(f, e),
         \A d, e \in events : EventId(d) = EventId(e) => d = e,
         \A x \in failures : FailureMade(x) /\ x.scope # "frame",
         \A x, y \in failures : x.key = y.key => x = y,
         n = Cardinality(events) + Cardinality(failures)
  PROVE  Made(f, [frame |-> f.id, events |-> events, decoded |-> n, failures |-> failures])
<1> DEFINE res == [frame |-> f.id, events |-> events, decoded |-> n, failures |-> failures]
<1>1. res.frame = f.id /\ res.events = events /\ res.decoded = n /\ res.failures = failures
  OBVIOUS
<1> HIDE DEF res
<1>2. ~FrameFailed(res)
  BY <1>1 DEF FrameFailed
<1>3. Made(f, res)
  BY <1>1, <1>2 DEF Made
<1> QED
  BY <1>3 DEF res

\* The four results normalization can have.
LEMMA NormalizedCases ==
  ASSUME NEW id, NEW m, NEW subjects, NEW cutoff
  PROVE  LET res == NormalizeFrame(id, m, subjects, cutoff)
             n == Cardinality(Entries(m))
             events == IF m.response = "market_info" THEN StatusEvents(id, m)
                       ELSE QuoteEvents(id, m, subjects, cutoff)
             clash == \E e1, e2 \in events : e1 # e2 /\ EventId(e1) = EventId(e2)
             failures == IF m.response = "market_info" THEN {} ELSE EntryFailures(m, subjects)
         IN  /\ DecodeFailure(m) # "none" => res = Failed(id, DecodeFailure(m), 0)
             /\ DecodeFailure(m) = "none" /\ clash =>
                  res = Failed(id, "duplicate_normalized_identity", n)
             /\ DecodeFailure(m) = "none" /\ ~clash =>
                  res = [frame |-> id, events |-> events, decoded |-> n, failures |-> failures]
<1> DEFINE n == Cardinality(Entries(m))
           events == IF m.response = "market_info" THEN StatusEvents(id, m)
                     ELSE QuoteEvents(id, m, subjects, cutoff)
           clash == \E e1, e2 \in events : e1 # e2 /\ EventId(e1) = EventId(e2)
           failures == IF m.response = "market_info" THEN {} ELSE EntryFailures(m, subjects)
           first == DecodeFailure(m)
           f1 == Failed(id, first, 0)
           f2 == Failed(id, "duplicate_normalized_identity", n)
           full == [frame |-> id, events |-> events, decoded |-> n, failures |-> failures]
<1>1. NormalizeFrame(id, m, subjects, cutoff) =
        IF first # "none" THEN f1 ELSE IF clash THEN f2 ELSE full
  BY DEF NormalizeFrame
<1> HIDE DEF first, f1, f2, full, clash
<1>2. /\ first # "none" => NormalizeFrame(id, m, subjects, cutoff) = f1
      /\ first = "none" /\ clash => NormalizeFrame(id, m, subjects, cutoff) = f2
      /\ first = "none" /\ ~clash => NormalizeFrame(id, m, subjects, cutoff) = full
  BY <1>1
<1> QED
  BY <1>2 DEF first, f1, f2, full, clash

\* Whatever catalogue normalization reads, its result is as the rest requires, and
\* its quotes are bound to records of that catalogue.
LEMMA NormalizedIsMade ==
  ASSUME NEW f \in Frames, NEW known \in Cutoffs, NEW records, CataloguesOK(records)
  PROVE  /\ Made(f, Normalized(records, f, known))
         /\ \A e \in Normalized(records, f, known).events : Provenanced(records, e)
<1> DEFINE m == Messages[f.bytes]
           subjects == Subjects(records, m, known)
           accepted == AcceptedKeys(m, subjects)
           rejected == DOMAIN m.feeds \ accepted
           quotes == QuoteEvents(f.id, m, subjects, known)
           statuses == StatusEvents(f.id, m)
           failing == EntryFailures(m, subjects)
           events == IF m.response = "market_info" THEN statuses ELSE quotes
           failures == IF m.response = "market_info" THEN {} ELSE failing
           n == Cardinality(Entries(m))
           clash == \E e1, e2 \in events : e1 # e2 /\ EventId(e1) = EventId(e2)
           res == Normalized(records, f, known)
           reason == DecodeFailure(m)
           full == [frame |-> f.id, events |-> events, decoded |-> n, failures |-> failures]
<1>1. /\ reason # "none" => res = Failed(f.id, reason, 0)
      /\ reason = "none" /\ clash => res = Failed(f.id, "duplicate_normalized_identity", n)
      /\ reason = "none" /\ ~clash => res = full
  <2>1. res = NormalizeFrame(f.id, m, subjects, known)
    BY DEF Normalized
  <2> HIDE DEF res, m, subjects
  <2> QED
    BY <2>1, NormalizedCases
<1>2. /\ \A e \in quotes : EventMade(f, e) /\ Provenanced(records, e)
      /\ IsFiniteSet(quotes) /\ Cardinality(quotes) = Cardinality(accepted)
  BY QuotesAreMade
<1>3. /\ \A x \in failing : FailureMade(x) /\ x.scope # "frame"
      /\ \A x, y \in failing : x.key = y.key => x = y
      /\ IsFiniteSet(failing) /\ Cardinality(failing) = Cardinality(rejected)
  BY EntryFailuresAreMade
<1>4. /\ \A e \in statuses : EventMade(f, e) /\ ~IsQuote(e)
      /\ IsFiniteSet(statuses) /\ Cardinality(statuses) = Cardinality(DOMAIN m.segments)
  BY StatusesAreMade
<1>5. IsFiniteSet(DOMAIN m.feeds) /\ IsFiniteSet(DOMAIN m.segments)
  BY MessagesAssumption
<1>6. n = IF m.response = "market_info" THEN Cardinality(DOMAIN m.segments)
          ELSE Cardinality(DOMAIN m.feeds)
  BY DEF Entries
<1>7. reason = "none" => n \in 0..MaxFeeds
  <2>1. /\ reason = "none" => /\ ~(Cardinality(DOMAIN m.feeds) > MaxFeeds)
                              /\ ~(Cardinality(DOMAIN m.segments) > MaxStatusSegments)
    BY DecodedMessage
  <2>2. Cardinality(DOMAIN m.feeds) \in Nat /\ Cardinality(DOMAIN m.segments) \in Nat
    BY <1>5, FS_CardinalityType
  <2> DEFINE a == Cardinality(DOMAIN m.feeds)
             b == Cardinality(DOMAIN m.segments)
             one == m.response = "market_info"
  <2>3. n = IF one THEN b ELSE a
    BY <1>6
  <2>4. a \in Nat /\ b \in Nat /\ (reason = "none" => ~(a > 5000) /\ ~(b > 256))
    BY <2>1, <2>2 DEF MaxFeeds, MaxStatusSegments
  <2> HIDE DEF a, b, one, n, m, reason
  <2> QED
    BY <2>3, <2>4 DEF MaxFeeds
<1>8. Cardinality(accepted) + Cardinality(rejected) = Cardinality(DOMAIN m.feeds)
  <2>1. accepted \in SUBSET DOMAIN m.feeds
    BY DEF AcceptedKeys
  <2> HIDE DEF accepted, m
  <2>2. IsFiniteSet(accepted) /\ Cardinality(accepted) \in Nat /\ Cardinality(DOMAIN m.feeds) \in Nat
    BY <1>5, <2>1, FS_Subset, FS_CardinalityType
  <2>3. DOMAIN m.feeds \cap accepted = accepted
    BY <2>1
  <2>4. Cardinality(rejected) = Cardinality(DOMAIN m.feeds) - Cardinality(DOMAIN m.feeds \cap accepted)
    BY <1>5, FS_Difference
  <2> HIDE DEF rejected
  <2> QED
    BY <2>2, <2>3, <2>4
<1>9. IsFiniteSet({}) /\ Cardinality({}) = 0 /\ Cardinality(DOMAIN m.segments) \in Nat
  BY <1>5, FS_EmptySet, FS_CardinalityType
<1> HIDE DEF m, subjects, accepted, rejected, quotes, statuses, failing, n, res, reason
<1>10. CASE reason # "none"
  <2>1. 0 \in 0..MaxFeeds
    BY DEF MaxFeeds
  <2>2. res = Failed(f.id, reason, 0)
    BY <1>1, <1>10
  <2>3. Made(f, res) /\ res.events = {}
    BY <2>1, <2>2, FailedIsMade DEF Failed
  <2> QED
    BY <2>3 DEF res
<1>11. CASE reason = "none" /\ clash
  <2>1. res = Failed(f.id, "duplicate_normalized_identity", n)
    BY <1>1, <1>11
  <2>2. Made(f, res) /\ res.events = {}
    BY <1>7, <1>11, <2>1, FailedIsMade DEF Failed
  <2> QED
    BY <2>2 DEF res
<1>12. CASE reason = "none" /\ ~clash
  <2>1. \A e \in events : EventMade(f, e) /\ Provenanced(records, e)
    BY <1>2, <1>4 DEF Provenanced
  <2>2. \A d, e \in events : EventId(d) = EventId(e) => d = e
    BY <1>12
  <2>3. /\ \A x \in failures : FailureMade(x) /\ x.scope # "frame"
        /\ \A x, y \in failures : x.key = y.key => x = y
    BY <1>3
  <2>4. /\ IsFiniteSet(events) /\ IsFiniteSet(failures)
        /\ n = Cardinality(events) + Cardinality(failures)
    BY <1>2, <1>3, <1>4, <1>6, <1>8, <1>9
  <2>5. n \in 0..MaxFeeds
    BY <1>7, <1>12
  <2> HIDE DEF events, failures
  <2>6. Made(f, full)
    BY <2>1, <2>2, <2>3, <2>4, <2>5, EntriesAreMade
  <2>7. full.events = events
    OBVIOUS
  <2>8. res = full
    BY <1>1, <1>12
  <2> HIDE DEF full
  <2>9. Made(f, res) /\ \A e \in res.events : Provenanced(records, e)
    BY <2>1, <2>6, <2>7, <2>8
  <2> QED
    BY <2>9 DEF res
<1> QED
  BY <1>10, <1>11, <1>12

-----------------------------------------------------------------------------
(* Catalogues and the results that are made of them                        *)

\* A catalogue that supersedes the leaf, recorded after all others, is the only leaf of
\* the cutoffs that see it.
LEMMA IngestKeepsCatalogues ==
  ASSUME CataloguesOK(catalogue), NEW listing \in Listings, NEW t \in Cutoffs, Ingest(listing, t)
  PROVE  CataloguesOK(catalogue')
<1> DEFINE new == TemporalRecord(listing, "catalogue", t, KnowledgeLeaves(catalogue))
<1>1. /\ catalogue' = catalogue \cup {new}
      /\ \A r \in catalogue : r.recorded_at < t
  BY DEF Ingest
<1>2. new.sem = listing /\ new.recorded_at = t /\ new.supersedes = KnowledgeLeaves(catalogue)
  BY DEF TemporalRecord
<1> HIDE DEF new
<1>3. \A r \in catalogue' : r.sem \in Listings /\ r.recorded_at \in Cutoffs
  BY <1>1, <1>2 DEF CataloguesOK
<1>4. Cutoffs \subseteq Nat
  BY ArchiveAssumption
<1>5. ASSUME NEW known \in Cutoffs
      PROVE  \A r, s \in LeafAt(catalogue', known) : r = s
  <2>1. CASE known < t
    <3>1. Visible(catalogue', known) = Visible(catalogue, known)
      BY <1>1, <1>2, <1>4, <2>1 DEF Visible
    <3> QED
      BY <3>1 DEF CataloguesOK, LeafAt
  <2>2. CASE t <= known
    <3>1. Visible(catalogue', known) = catalogue'
      <4>1. \A r \in catalogue' : r.recorded_at \in Nat /\ r.recorded_at <= t
        <5>1. ASSUME NEW r \in catalogue' PROVE r.recorded_at \in Nat /\ r.recorded_at <= t
          <6>1. r.recorded_at \in Nat /\ t \in Nat
            BY <1>3, <1>4
          <6>2. r.recorded_at < t \/ r.recorded_at = t
            BY <1>1, <1>2
          <6> QED
            BY <6>1, <6>2
        <5> QED
          BY <5>1
      <4>2. \A r \in catalogue' : r.recorded_at <= known
        BY <1>4, <2>2, <4>1
      <4> QED
        BY <4>2 DEF Visible
    <3>2. \A r \in KnowledgeLeaves(catalogue') : r = new
      BY <1>1, <1>2 DEF KnowledgeLeaves, Superseded
    <3> QED
      BY <3>1, <3>2 DEF LeafAt
  <2> QED
    BY <1>4, <2>1, <2>2
<1> QED
  BY <1>3, <1>5 DEF CataloguesOK

\* A step of Next keeps the command of a call, or makes it.
Keeps(c) ==
  /\ call'[c].frame = call[c].frame /\ call'[c].result = call[c].result
  /\ call'[c].pc = "idle" <=> call[c].pc = "idle"

LEMMA NextKeepsCommands ==
  ASSUME CallsOK, Next, NEW c \in Calls
  PROVE  Keeps(c) \/ \E f \in Frames, known \in Cutoffs : Normalize(c, f, known)
<1>1. ASSUME NEW d \in Calls, NEW f \in Frames, NEW known \in Cutoffs, Normalize(d, f, known), d # c
      PROVE  Keeps(c)
  BY <1>1, NormalizeStep DEF Others, Keeps
<1>2. ASSUME NEW d \in Calls, RequestLocks(d) PROVE Keeps(c)
  BY <1>2, RequestStep DEF RequestLocks, Others, Keeps
<1>3. ASSUME NEW d \in Calls, NEW outcome, End(d, outcome), call[d].pc # "idle" PROVE Keeps(c)
  BY <1>3, EndStep DEF Others, Keeps
<1>4. ASSUME NEW d \in Calls, Persist(d) PROVE Keeps(c)
  <2>1. CASE Failure(d) = "none"
    BY <1>4, <2>1, PersistStep DEF Persist, Others, Keeps
  <2>2. CASE Failure(d) # "none"
    BY <1>3, <1>4, <2>2 DEF Persist, Failure
  <2> QED
    BY <2>1, <2>2
<1>5. ASSUME NEW d \in Calls, Commit(d) \/ Crash(d) PROVE Keeps(c)
  BY <1>3, <1>5 DEF Commit, Crash
<1>6. CASE \/ \E d \in Calls : AcquireStripe(d)
           \/ \E listing \in Listings, t \in Cutoffs : Ingest(listing, t)
           \/ BeginScan
           \/ ReadPage
  BY <1>6 DEF AcquireStripe, Ingest, BeginScan, ReadPage, Keeps
<1> QED
  BY <1>1, <1>2, <1>4, <1>5, <1>6 DEF Next

\* The catalogue is unbranched, and the command of each caller is a result as
\* normalization makes it, with quotes bound to records that are in the catalogue.
CommandsOK ==
  /\ CataloguesOK(catalogue)
  /\ \A c \in Calls : call[c].pc # "idle" =>
       /\ Made(call[c].frame, call[c].result)
       /\ \A e \in call[c].result.events : Provenanced(catalogue, e)

LEMMA NextKeepsCommandsMade ==
  ASSUME CallsOK, CommandsOK, Next
  PROVE  CommandsOK'
<1>1. /\ CataloguesOK(catalogue') /\ catalogue \subseteq catalogue'
  <2>1. CASE \E listing \in Listings, t \in Cutoffs : Ingest(listing, t)
    BY <2>1, IngestKeepsCatalogues DEF CommandsOK, Ingest
  <2>2. CASE UNCHANGED catalogue
    BY <2>2 DEF CommandsOK
  <2>3. (\E listing \in Listings, t \in Cutoffs : Ingest(listing, t)) \/ UNCHANGED catalogue
    BY DEF Next, RequestLocks, AcquireStripe, Persist, Commit, Crash, Normalize, BeginScan, ReadPage
  <2> QED
    BY <2>1, <2>2, <2>3
<1>2. ASSUME NEW c \in Calls, call'[c].pc # "idle"
      PROVE  /\ Made(call'[c].frame, call'[c].result)
             /\ \A e \in call'[c].result.events : Provenanced(catalogue', e)
  <2>1. CASE Keeps(c)
    <3>1. /\ Made(call[c].frame, call[c].result)
          /\ \A e \in call[c].result.events : Provenanced(catalogue, e)
      BY <1>2, <2>1 DEF CommandsOK, Keeps
    <3> QED
      BY <1>1, <2>1, <3>1 DEF Keeps, Provenanced
  <2>2. ASSUME NEW f \in Frames, NEW known \in Cutoffs, Normalize(c, f, known)
        PROVE  /\ Made(call'[c].frame, call'[c].result)
               /\ \A e \in call'[c].result.events : Provenanced(catalogue', e)
    <3>1. /\ call'[c].frame = f /\ call'[c].result = Normalized(catalogue, f, known)
          /\ catalogue' = catalogue
      <4>1. call'[c].frame = f /\ call'[c].result = Normalized(catalogue, f, known)
        BY <2>2, NormalizeStep
      <4> QED
        BY <2>2, <4>1 DEF Normalize
    <3>2. /\ Made(f, Normalized(catalogue, f, known))
          /\ \A e \in Normalized(catalogue, f, known).events : Provenanced(catalogue, e)
      BY NormalizedIsMade DEF CommandsOK
    <3> QED
      BY <3>1, <3>2
  <2> QED
    BY <2>1, <2>2, NextKeepsCommands
<1> QED
  BY <1>1, <1>2 DEF CommandsOK
BaseInv == CallsOK /\ LocksOK /\ CommandsOK

LEMMA BaseInit == Init => BaseInv
<1> SUFFICES ASSUME Init PROVE BaseInv
  OBVIOUS
<1>1. /\ DOMAIN call = Calls
      /\ \A c \in Calls : call[c] = Idle
  BY DEF Init
<1>2. /\ DOMAIN Idle = CallFields /\ Idle.pc = "idle" /\ Idle.frame = Nobody
      /\ Idle.result = NoResult /\ Idle.outcome = "none"
  BY DEF Idle, CallFields
<1>3. CallsOK
  BY <1>1, <1>2 DEF CallsOK, CallOK, InTransaction
<1>4. \A c \in Calls : Held(c) = {}
  BY ArchiveAssumption DEF Init, Held
<1>5. LocksOK
  BY <1>1, <1>2, <1>4 DEF Init, LocksOK, LockedRight, InTransaction
<1>6. catalogue = {}
  BY DEF Init
<1>7. CataloguesOK(catalogue)
  BY <1>6 DEF CataloguesOK, LeafAt, KnowledgeLeaves, Visible
<1> QED
  BY <1>1, <1>2, <1>3, <1>5, <1>7 DEF BaseInv, CommandsOK

LEMMA BaseStep == BaseInv /\ [Next]_vars => BaseInv'
<1> SUFFICES ASSUME BaseInv, [Next]_vars PROVE BaseInv'
  OBVIOUS
<1>1. CASE Next
  BY <1>1, NextKeepsCalls, NextKeepsLocks, NextKeepsCommandsMade DEF BaseInv
<1>2. CASE UNCHANGED vars
  BY <1>2 DEF vars, BaseInv, CallsOK, CallOK, LocksOK, LockedRight, Held, CommandsOK
<1> QED
  BY <1>1, <1>2

LEMMA BaseHolds == Spec => []BaseInv
<1>1. Init => BaseInv
  BY BaseInit
<1>2. BaseInv /\ [Next]_vars => BaseInv'
  BY BaseStep
<1> QED
  BY <1>1, <1>2, PTL DEF Spec

\* Calls never wait for each other in a circle: all take the stripes of their frame in
\* ascending order (derive_lock_stripes).
THEOREM CallsNeverCircle == Spec => []NoCircularWait
<1>1. BaseInv => NoCircularWait
  BY AscendingLocksNeverCircle DEF BaseInv
<1> QED
  BY <1>1, BaseHolds, PTL

\* What an accepted feed becomes passes the validation of the observation, for every
\* message (_adopt_fields, QuoteObservationV1.__post_init__).
THEOREM QuotesAreValid == Spec => []AcceptedQuotesAreValid
<1>1. ASSUME BaseInv, NEW c \in Calls, NEW e \in call[c].result.events, IsQuote(e)
      PROVE  ValidQuote(e.quote)
  <2>1. call[c].pc # "idle"
    BY <1>1 DEF BaseInv, CallsOK, CallOK, NoResult
  <2>2. EventMade(call[c].frame, e)
    BY <1>1, <2>1 DEF BaseInv, CommandsOK, Made
  <2> QED
    BY <1>1, <2>2 DEF EventMade, IsQuote, SubjectKinds
<1>2. BaseInv => AcceptedQuotesAreValid
  BY <1>1 DEF AcceptedQuotesAreValid
<1> QED
  BY <1>2, BaseHolds, PTL
-----------------------------------------------------------------------------
(* The rows of the results published                                       *)

\* The commands whose rows the tables hold.
Commands(A) ==
  {[frame |-> CHOOSE f \in A.frames : f.id = r.frame, result |-> r.full_hash] : r \in A.results}

\* The tables hold the rows of the commands P, and nothing else.
Holds(A, P) ==
  /\ DOMAIN A = DOMAIN EmptyArchive
  /\ A.frames = {p.frame : p \in P}
  /\ A.results = {ResultRow(p.result) : p \in P}
  /\ A.observations = UNION {{ObservationRow(p.frame, e) : e \in p.result.events} : p \in P}
  /\ A.subtypes = UNION {{SubtypeRow(e) : e \in p.result.events} : p \in P}
  /\ A.event_members = UNION {{EventMember(p.result, e) : e \in p.result.events} : p \in P}
  /\ A.failures = UNION {{FailureRow(p.result, x) : x \in p.result.failures} : p \in P}
  /\ A.failure_members = UNION {{FailureMember(p.result, x) : x \in p.result.failures} : p \in P}

\* A command as normalization makes it beside these records.
MadeCommand(records, p) ==
  /\ p = [frame |-> p.frame, result |-> p.result]
  /\ p.frame \in Frames
  /\ Made(p.frame, p.result)
  /\ \A e \in p.result.events : Provenanced(records, e)

\* No failure counts more levels than the tables take.
Shallow(p) == \A x \in p.result.failures : x.depth <= 30

\* One command for a frame identity.
MadeOnce(records, P) ==
  /\ \A p \in P : MadeCommand(records, p) /\ Shallow(p)
  /\ \A p, q \in P : p.frame.id = q.frame.id => p = q

\* The columns of the rows.
LEMMA ObservationColumns ==
  ASSUME NEW f, NEW e
  PROVE  LET o == ObservationRow(f, e)
         IN  /\ o.event = EventId(e) /\ o.frame = e.frame /\ o.type = e.kind /\ o.subject = e.subject
             /\ o.key = (IF IsQuote(e) THEN e.key ELSE Null)
             /\ o.economic = (IF IsQuote(e) THEN e.subject ELSE Null)
             /\ o.records = e.provenance /\ o.known = e.known
             /\ o.received = f.received /\ o.available = f.available /\ o.recorded = f.recorded
             /\ o.availability = (IF f.basis = "historical_import" THEN f.basis ELSE "received")
BY DEF ObservationRow

LEMMA SubtypeColumns ==
  ASSUME NEW e
  PROVE  LET t == SubtypeRow(e)
         IN  /\ t.event = EventId(e) /\ t.type = e.kind /\ t.subject = e.subject
             /\ t.segment = (IF IsQuote(e) THEN Null ELSE e.key) /\ t.values = e.quote
BY DEF SubtypeRow

LEMMA ResultColumns ==
  ASSUME NEW result
  PROVE  LET r == ResultRow(result)
         IN  /\ r.result = result.frame /\ r.frame = result.frame /\ r.status = ResultStatus(result)
             /\ r.decoded = result.decoded /\ r.accepted = Cardinality(result.events)
             /\ r.failed = Cardinality(FailedKeys(result)) /\ r.frame_failure = FrameFailed(result)
             /\ r.full_hash = result
BY DEF ResultRow, ResultId

LEMMA FailureColumns ==
  ASSUME NEW result, NEW x
  PROVE  LET y == FailureRow(result, x)
             m == FailureMember(result, x)
         IN  /\ y.failure = <<result.frame, x>> /\ y.result = result.frame /\ y.frame = result.frame
             /\ y.scope = x.scope /\ y.key = x.key /\ y.reason = x.reason /\ y.depth = x.depth
             /\ m.result = result.frame /\ m.frame = result.frame /\ m.failure = <<result.frame, x>>
             /\ m.role = (IF x.scope = "frame" THEN "frame" ELSE "entry")
BY DEF FailureRow, FailureMember, ResultId

LEMMA MemberColumns ==
  ASSUME NEW result, NEW e
  PROVE  LET m == EventMember(result, e)
         IN  m.result = result.frame /\ m.frame = result.frame /\ m.event = EventId(e)
BY DEF EventMember, ResultId

LEMMA EventIdFields ==
  ASSUME NEW d, NEW e, EventId(d) = EventId(e)
  PROVE  d.frame = e.frame /\ d.kind = e.kind /\ d.subject = e.subject
<1>1. /\ EventId(d).frame = d.frame /\ EventId(d).kind = d.kind /\ EventId(d).subject = d.subject
      /\ EventId(e).frame = e.frame /\ EventId(e).kind = e.kind /\ EventId(e).subject = e.subject
  BY DEF EventId
<1> QED
  BY <1>1

\* Inserting the rows of a command.
LEMMA InsertHolds ==
  ASSUME NEW A, NEW P, Holds(A, P), NEW p
  PROVE  Holds(Inserted(A, RowsOf(p.frame, p.result)), P \cup {p})
<1> DEFINE B == Inserted(A, RowsOf(p.frame, p.result))
           Q == P \cup {p}
<1>1. /\ DOMAIN B = DOMAIN EmptyArchive
      /\ B.frames = A.frames \cup {p.frame}
      /\ B.results = A.results \cup {ResultRow(p.result)}
      /\ B.observations = A.observations \cup {ObservationRow(p.frame, e) : e \in p.result.events}
      /\ B.subtypes = A.subtypes \cup {SubtypeRow(e) : e \in p.result.events}
      /\ B.event_members = A.event_members \cup {EventMember(p.result, e) : e \in p.result.events}
      /\ B.failures = A.failures \cup {FailureRow(p.result, x) : x \in p.result.failures}
      /\ B.failure_members = A.failure_members \cup {FailureMember(p.result, x) : x \in p.result.failures}
  BY DEF Holds, Inserted, RowsOf, EmptyArchive
<1> HIDE DEF B
<1>2. B.frames = {q.frame : q \in Q} /\ B.results = {ResultRow(q.result) : q \in Q}
  BY <1>1 DEF Holds
<1>3. B.observations = UNION {{ObservationRow(q.frame, e) : e \in q.result.events} : q \in Q}
  BY <1>1 DEF Holds
<1>4. B.subtypes = UNION {{SubtypeRow(e) : e \in q.result.events} : q \in Q}
  BY <1>1 DEF Holds
<1>5. B.event_members = UNION {{EventMember(q.result, e) : e \in q.result.events} : q \in Q}
  BY <1>1 DEF Holds
<1>6. B.failures = UNION {{FailureRow(q.result, x) : x \in q.result.failures} : q \in Q}
  BY <1>1 DEF Holds
<1>7. B.failure_members = UNION {{FailureMember(q.result, x) : x \in q.result.failures} : q \in Q}
  BY <1>1 DEF Holds
<1> QED
  BY <1>1, <1>2, <1>3, <1>4, <1>5, <1>6, <1>7 DEF Holds, B

\* The commands are those whose rows the tables hold.
LEMMA HeldCommands ==
  ASSUME NEW A, NEW P, Holds(A, P), NEW records, MadeOnce(records, P)
  PROVE  Commands(A) = P
<1>1. ASSUME NEW p \in P
      PROVE  [frame |-> CHOOSE f \in A.frames : f.id = ResultRow(p.result).frame,
              result |-> ResultRow(p.result).full_hash] = p
  <2>1. /\ ResultRow(p.result).frame = p.frame.id /\ ResultRow(p.result).full_hash = p.result
        /\ p = [frame |-> p.frame, result |-> p.result]
    BY <1>1, ResultColumns DEF MadeOnce, MadeCommand, Made
  <2>2. p.frame \in A.frames /\ \A f \in A.frames : f.id = p.frame.id => f = p.frame
    BY <1>1 DEF Holds, MadeOnce
  <2>3. (CHOOSE f \in A.frames : f.id = p.frame.id) = p.frame
    BY <2>2
  <2> QED
    BY <2>1, <2>3
<1> DEFINE made(r) == [frame |-> CHOOSE f \in A.frames : f.id = r.frame, result |-> r.full_hash]
<1>2. \A p \in P : ResultRow(p.result) \in A.results /\ made(ResultRow(p.result)) = p
  BY <1>1 DEF Holds
<1>3. \A r \in A.results : \E p \in P : r = ResultRow(p.result)
  BY DEF Holds
<1>4. Commands(A) = {made(r) : r \in A.results}
  BY DEF Commands
<1> HIDE DEF made
<1> QED
  BY <1>2, <1>3, <1>4
\* The counts of a result that is as normalization makes it.
LEMMA MadeCounts ==
  ASSUME NEW f, NEW res, Made(f, res)
  PROVE  /\ Cardinality(res.events) \in Nat /\ Cardinality(res.failures) \in Nat
         /\ Cardinality(res.events) = 0 <=> res.events = {}
         /\ Cardinality(res.failures) = 0 <=> res.failures = {}
         /\ Cardinality({EventId(e) : e \in res.events}) = Cardinality(res.events)
         /\ Cardinality(FailedKeys(res)) = IF FrameFailed(res) THEN 0 ELSE Cardinality(res.failures)
<1> DEFINE ids == [e \in res.events |-> EventId(e)]
           keys == [x \in res.failures |-> x.key]
<1>1. /\ IsFiniteSet(res.events) /\ IsFiniteSet(res.failures)
      /\ \A d, e \in res.events : EventId(d) = EventId(e) => d = e
      /\ \A x, y \in res.failures : x.key = y.key => x = y
  BY DEF Made
<1>2. /\ Cardinality(res.events) \in Nat /\ Cardinality(res.failures) \in Nat
      /\ Cardinality(res.events) = 0 <=> res.events = {}
      /\ Cardinality(res.failures) = 0 <=> res.failures = {}
  BY <1>1, FS_CardinalityType, FS_EmptySet
<1>3. Cardinality({EventId(e) : e \in res.events}) = Cardinality(res.events)
  <2>1. /\ ids = [e \in res.events |-> ids[e]]
        /\ \A d, e \in res.events : ids[d] = ids[e] => d = e
    BY <1>1
  <2>2. {EventId(e) : e \in res.events} = {ids[e] : e \in res.events}
    OBVIOUS
  <2> HIDE DEF ids
  <2>3. Cardinality({ids[e] : e \in res.events}) = Cardinality(res.events)
    BY <1>1, <2>1, ImageCount
  <2> QED
    BY <2>2, <2>3
<1>4. CASE FrameFailed(res)
  <2>1. PICK x : res.failures = {x}
    BY <1>1, <1>4, FS_Singleton DEF Made
  <2>2. FailedKeys(res) = {}
    BY <1>4, <2>1 DEF FrameFailed, FailedKeys
  <2> QED
    BY <1>2, <1>3, <1>4, <2>2, FS_EmptySet
<1>5. CASE ~FrameFailed(res)
  <2>1. /\ keys = [x \in res.failures |-> keys[x]]
        /\ \A x, y \in res.failures : keys[x] = keys[y] => x = y
    BY <1>1
  <2>2. FailedKeys(res) = {keys[x] : x \in res.failures}
    BY <1>5 DEF FrameFailed, FailedKeys
  <2> HIDE DEF keys
  <2>3. Cardinality(FailedKeys(res)) = Cardinality(res.failures)
    <3> DEFINE S == res.failures
    <3>1. IsFiniteSet(S) /\ keys = [x \in S |-> keys[x]] /\ \A x, y \in S : keys[x] = keys[y] => x = y
      BY <1>1, <2>1
    <3> HIDE DEF S
    <3>2. Cardinality({keys[x] : x \in S}) = Cardinality(S)
      BY <3>1, ImageCount
    <3> QED
      BY <2>2, <3>2 DEF S
  <2>4. Cardinality(FailedKeys(res)) = IF FrameFailed(res) THEN 0 ELSE Cardinality(res.failures)
    BY <1>5, <2>3
  <2> QED
    BY <1>2, <1>3, <2>4
<1> QED
  BY <1>4, <1>5

LEMMA SumInRange ==
  ASSUME NEW a \in Nat, NEW b \in Nat, NEW n \in Nat, a + b \in 0..n
  PROVE  a \in 0..n /\ b \in 0..n
OBVIOUS

\* The row of a result passes status_shape.
LEMMA MadeResultRow ==
  ASSUME NEW f, NEW res, Made(f, res)
  PROVE  ResultRowOK(ResultRow(res))
<1> DEFINE r == ResultRow(res)
           a == Cardinality(res.events)
           b == Cardinality(res.failures)
           k == Cardinality(FailedKeys(res))
<1> SUFFICES ResultRowOK(r)
  OBVIOUS
<1>1. /\ r.status = ResultStatus(res) /\ r.decoded = res.decoded /\ r.accepted = a
      /\ r.failed = k /\ r.frame_failure = FrameFailed(res)
  BY ResultColumns
<1>2. /\ a \in Nat /\ b \in Nat /\ (a = 0 <=> res.events = {}) /\ (b = 0 <=> res.failures = {})
      /\ k = IF FrameFailed(res) THEN 0 ELSE b
  BY MadeCounts
<1> DEFINE n == MaxCount
<1>3. /\ n \in Nat /\ res.decoded \in 0..n
      /\ FrameFailed(res) => a = 0 /\ res.events = {}
      /\ ~FrameFailed(res) => res.decoded = a + b
  <2>1. n \in Nat
    BY DEF MaxCount
  <2>2. res.decoded \in 0..n
    <3>1. MaxCount = MaxFeeds
      BY DEF MaxCount, MaxFeeds
    <3> HIDE DEF MaxCount
    <3> QED
      BY <3>1 DEF Made
  <2>3. ~FrameFailed(res) => res.decoded = a + b
    BY DEF Made
  <2>4. FrameFailed(res) => res.events = {}
    BY DEF Made
  <2> HIDE DEF a, n
  <2> QED
    BY <1>2, <2>1, <2>2, <2>3, <2>4
<1> HIDE DEF a, b, k, n
<1>4. a \in 0..n /\ k \in 0..n
  <2>1. CASE FrameFailed(res)
    BY <1>2, <1>3, <2>1
  <2>2. CASE ~FrameFailed(res)
    <3>1. res.decoded = a + b /\ k = b
      BY <1>2, <1>3, <2>2
    <3> QED
      BY <1>2, <1>3, <3>1, SumInRange
  <2> QED
    BY <2>1, <2>2
<1>5. {r.decoded, r.accepted, r.failed} \subseteq 0..n
  <2>1. {r.decoded, r.accepted, r.failed} = {res.decoded, a, k}
    BY <1>1
  <2> HIDE DEF r
  <2> QED
    BY <1>3, <1>4, <2>1
<1>6. r.status \in {"complete", "partial", "failed"}
  BY <1>1 DEF ResultStatus
<1>7. IF r.frame_failure THEN r.status = "failed" /\ r.accepted = 0 /\ r.failed = 0
      ELSE r.decoded = r.accepted + r.failed /\ r.status = IF r.accepted = 0 THEN "failed" ELSE
                                                           IF r.failed = 0 THEN "complete" ELSE "partial"
  <2>1. CASE FrameFailed(res)
    <3>1. r.frame_failure /\ k = 0 /\ a = 0 /\ res.events = {}
      BY <1>1, <1>2, <1>3, <2>1
    <3>2. r.status = "failed" /\ r.accepted = 0 /\ r.failed = 0
      BY <1>1, <3>1 DEF ResultStatus
    <3> HIDE DEF r
    <3> QED
      BY <3>1, <3>2
  <2>2. CASE ~FrameFailed(res)
    <3>1. ~r.frame_failure
      BY <1>1, <2>2
    <3>2. k = b /\ res.decoded = a + b
      BY <1>2, <1>3, <2>2
    <3>3. r.accepted = a /\ r.failed = b /\ r.decoded = a + b
      BY <1>1, <3>2
    <3>4. r.status = IF a = 0 THEN "failed" ELSE IF b = 0 THEN "complete" ELSE "partial"
      BY <1>1, <1>2 DEF ResultStatus
    <3> HIDE DEF r
    <3> QED
      BY <3>1, <3>3, <3>4
  <2> HIDE DEF r
  <2> QED
    BY <2>1, <2>2
<1> HIDE DEF r
<1>8. {r.decoded, r.accepted, r.failed} \subseteq 0..MaxCount
  BY <1>5 DEF n
<1> QED
  BY <1>6, <1>7, <1>8 DEF ResultRowOK

\* An event belongs to one command.
LEMMA OneCommand ==
  ASSUME NEW records, NEW P, MadeOnce(records, P), NEW p \in P, NEW q \in P,
         NEW d \in p.result.events, NEW e \in q.result.events, EventId(d) = EventId(e)
  PROVE  p = q /\ d = e
<1>1. d.frame = p.frame.id /\ e.frame = q.frame.id
  BY DEF MadeOnce, MadeCommand, Made, EventMade
<1>2. p = q
  BY <1>1, EventIdFields DEF MadeOnce
<1> QED
  BY <1>2 DEF MadeOnce, MadeCommand, Made

\* The typed row of a quote passes the checks of the table of its kind.
LEMMA ValidQuoteShape ==
  ASSUME NEW q, NEW kind \in SubjectKinds, ValidQuote(q), q.kind = kind, q.union \in FeedUnions
  PROVE  /\ q.depth \in 0..30 /\ q.normalized \in {0, 1} /\ q.depth - q.normalized \in 0..30
         /\ FeedShape(kind, q)
<1>1. q.depth \in 0..30 /\ q.normalized \in {0, 1}
  BY DEF ValidQuote, MaxDepthLevels
<1>2. CASE q.union = "ltpc"
  <2>1. q.mode = "ltpc" /\ q.depth = 0 /\ q.normalized = 0
    BY <1>2 DEF ValidQuote
  <2>2. FeedShape(kind, q)
    <3>1. CASE kind = "underlying"
      BY <1>2, <2>1, <3>1 DEF FeedShape
    <3>2. CASE kind = "future"
      BY <1>2, <2>1, <3>2 DEF FeedShape
    <3>3. CASE kind = "option"
      BY <1>2, <2>1, <3>3 DEF FeedShape
    <3> QED
      BY <3>1, <3>2, <3>3 DEF SubjectKinds
  <2>3. q.depth - q.normalized \in 0..30
    BY <2>1
  <2> QED
    BY <1>1, <2>2, <2>3
<1>3. CASE q.union = "indexFF"
  <2>1. q.mode \in {"full_d5", "full_d30"} /\ kind = "underlying" /\ q.depth = 0 /\ q.normalized = 0
    BY <1>3 DEF ValidQuote
  <2> QED
    BY <1>1, <1>3, <2>1 DEF FeedShape, SubjectKinds
<1>4. CASE q.union = "marketFF"
  <2>1. /\ q.mode \in {"full_d5", "full_d30"} /\ kind \in {"future", "option"}
        /\ q.normalized = IF q.depth > 0 THEN 1 ELSE 0
        /\ q.depth <= IF q.mode = "full_d5" THEN 5 ELSE 30
    BY <1>4 DEF ValidQuote, MaxDepthLevels
  <2>2. q.depth - q.normalized \in 0..30
    BY <1>1, <2>1
  <2>3. \/ q.mode = "full_d5" /\ q.depth <= 5
        \/ q.mode = "full_d30" /\ q.depth <= 30
    BY <1>1, <2>1
  <2>4. FeedShape(kind, q)
    <3>1. CASE kind = "future"
      BY <1>4, <2>1, <2>3, <3>1 DEF FeedShape
    <3>2. CASE kind = "option"
      BY <1>4, <2>1, <2>3, <3>2 DEF FeedShape
    <3> QED
      BY <2>1, <3>1, <3>2
  <2> QED
    BY <1>1, <2>2, <2>4
<1>5. CASE q.union = "firstLevelWithGreeks"
  <2>1. /\ q.mode = "option_greeks" /\ kind = "option"
        /\ q.depth \in {0, 1} /\ q.normalized = q.depth
    BY <1>5 DEF ValidQuote
  <2> QED
    BY <1>1, <1>5, <2>1 DEF FeedShape
<1> QED
  BY <1>2, <1>3, <1>4, <1>5 DEF FeedUnions
\* The tables accept the rows of made commands: frames and results,
LEMMA FramesAndResultsAdmitted ==
  ASSUME NEW A, NEW P, Holds(A, P), NEW records, MadeOnce(records, P)
  PROVE  FramesOK(A) /\ ResultsOK(A)
<1>1. \A f \in A.frames : \E p \in P : f = p.frame
  BY DEF Holds
<1>2. \A r \in A.results : \E p \in P : r = ResultRow(p.result)
  BY DEF Holds
<1>3. \A f, g \in A.frames : f.id = g.id => f = g
  BY <1>1 DEF MadeOnce
<1>4. ASSUME NEW f \in A.frames PROVE FrameRowOK(f)
  <2>1. f \in Frames
    BY <1>1, <1>4 DEF MadeOnce, MadeCommand
  <2>2. ValidCapture(f) /\ f.received \in Nat /\ f.available \in Nat /\ f.recorded \in Nat
    BY <2>1, ArchiveAssumption
  <2> QED
    BY <2>2 DEF ValidCapture, FrameRowOK, NoTime
<1>5. FramesOK(A)
  BY <1>3, <1>4 DEF FramesOK, IsKey
<1>6. ASSUME NEW p \in P
      PROVE  LET r == ResultRow(p.result)
             IN  /\ r.result = p.frame.id /\ r.frame = p.frame.id
                 /\ p.frame \in A.frames /\ ResultRowOK(r)
  <2>1. Made(p.frame, p.result) /\ p.result.frame = p.frame.id
    BY <1>6 DEF MadeOnce, MadeCommand, Made
  <2>2. ResultRowOK(ResultRow(p.result))
    BY <2>1, MadeResultRow
  <2>3. p.frame \in A.frames
    BY <1>6 DEF Holds
  <2> QED
    BY <2>1, <2>2, <2>3, ResultColumns
<1>7. \A r \in A.results : (\E f \in A.frames : f.id = r.frame) /\ ResultRowOK(r)
  BY <1>2, <1>6
<1>8. \A r, s \in A.results : r.result = s.result \/ r.frame = s.frame => r = s
  BY <1>2, <1>6 DEF MadeOnce
<1>9. ResultsOK(A)
  BY <1>7, <1>8 DEF ResultsOK, IsKey
<1> QED
  BY <1>5, <1>9

\* observations and their memberships,
LEMMA ObservationsAdmitted ==
  ASSUME NEW A, NEW P, Holds(A, P), NEW records, MadeOnce(records, P)
  PROVE  ObservationsOK(A, records) /\ EventMembersOK(A)
<1>1. \A o \in A.observations : \E p \in P : \E e \in p.result.events : o = ObservationRow(p.frame, e)
  BY DEF Holds
<1>2. ASSUME NEW p \in P, NEW e \in p.result.events
      PROVE  LET o == ObservationRow(p.frame, e)
             IN  /\ o.event = EventId(e) /\ o.frame = p.frame.id /\ p.frame \in A.frames
                 /\ o.records \subseteq records
                 /\ ObservationRowOK(o) /\ AvailabilityOK(o)
  <2> DEFINE o == ObservationRow(p.frame, e)
             f == p.frame
  <2>1. /\ f \in Frames /\ EventMade(f, e) /\ Provenanced(records, e)
    BY <1>2 DEF MadeOnce, MadeCommand, Made
  <2>2. /\ o.event = EventId(e) /\ o.frame = e.frame /\ o.type = e.kind /\ o.subject = e.subject
        /\ o.key = (IF IsQuote(e) THEN e.key ELSE Null)
        /\ o.economic = (IF IsQuote(e) THEN e.subject ELSE Null)
        /\ o.records = e.provenance /\ o.known = e.known
        /\ o.received = f.received /\ o.available = f.available /\ o.recorded = f.recorded
        /\ o.availability = (IF f.basis = "historical_import" THEN f.basis ELSE "received")
    BY ObservationColumns
  <2>3. p.frame \in A.frames
    BY <1>2 DEF Holds
  <2>4. ValidCapture(f) /\ f.received \in Nat /\ f.available \in Nat /\ f.recorded \in Nat
    BY <2>1, ArchiveAssumption
  <2> HIDE DEF o, f
  <2>5. AvailabilityOK(o)
    BY <2>2, <2>4 DEF ValidCapture, AvailabilityOK, NoTime
  <2>6. ObservationRowOK(o) /\ o.records \subseteq records
    <3>1. CASE IsQuote(e)
      <4>1. e.known # 0
        BY <2>1, <3>1, ArchiveAssumption DEF EventMade, IsQuote, SubjectKinds
      <4>2. e.kind \in SubjectKinds /\ e.key # Null /\ e.provenance # {} /\ e.provenance \subseteq records
        BY <2>1, <3>1 DEF EventMade, Provenanced, IsQuote, SubjectKinds
      <4> QED
        BY <2>2, <3>1, <4>1, <4>2 DEF ObservationRowOK, NoTime
    <3>2. CASE ~IsQuote(e)
      <4>1. e.kind = "status" /\ e.provenance = {} /\ e.known = 0
        BY <2>1, <3>2 DEF EventMade
      <4> QED
        BY <2>2, <3>2, <4>1 DEF ObservationRowOK, NoTime
    <3> QED
      BY <3>1, <3>2
  <2> QED
    BY <2>1, <2>2, <2>3, <2>5, <2>6 DEF o, f, EventMade
<1>3. \A o, n \in A.observations : o.event = n.event => o = n
  BY <1>1, <1>2, OneCommand
<1>4. ObservationsOK(A, records)
  BY <1>1, <1>2, <1>3 DEF ObservationsOK, IsKey
<1>5. ASSUME NEW m \in A.event_members
      PROVE  /\ \E r \in A.results : r.result = m.result /\ r.frame = m.frame
             /\ \E o \in A.observations : o.event = m.event /\ o.frame = m.frame
  <2>1. PICK p \in P : \E e \in p.result.events : m = EventMember(p.result, e)
    BY <1>5 DEF Holds
  <2>2. PICK e \in p.result.events : m = EventMember(p.result, e)
    BY <2>1
  <2>3. p.result.frame = p.frame.id
    BY DEF MadeOnce, MadeCommand, Made
  <2>4. m.result = p.frame.id /\ m.frame = p.frame.id /\ m.event = EventId(e)
    BY <2>2, <2>3, MemberColumns
  <2>5. ResultRow(p.result) \in A.results /\ ObservationRow(p.frame, e) \in A.observations
    BY DEF Holds
  <2>6. ResultRow(p.result).result = p.frame.id /\ ResultRow(p.result).frame = p.frame.id
    BY <2>3, ResultColumns
  <2> QED
    BY <1>2, <2>4, <2>5, <2>6
<1>6. EventMembersOK(A)
  BY <1>5 DEF EventMembersOK
<1> QED
  BY <1>4, <1>6
\* failures and their memberships,
LEMMA FailuresAdmitted ==
  ASSUME NEW A, NEW P, Holds(A, P), NEW records, MadeOnce(records, P)
  PROVE  FailuresOK(A) /\ FailureMembersOK(A)
<1>1. \A y \in A.failures : \E p \in P : \E x \in p.result.failures : y = FailureRow(p.result, x)
  BY DEF Holds
<1>2. \A m \in A.failure_members : \E p \in P : \E x \in p.result.failures : m = FailureMember(p.result, x)
  BY DEF Holds
<1>3. ASSUME NEW p \in P, NEW x \in p.result.failures
      PROVE  LET y == FailureRow(p.result, x)
                 m == FailureMember(p.result, x)
             IN  /\ y \in A.failures /\ y.failure = <<p.frame.id, x>>
                 /\ y.result = p.frame.id /\ y.frame = p.frame.id /\ FailureRowOK(y)
                 /\ m.failure = <<p.frame.id, x>> /\ m.result = p.frame.id /\ m.frame = p.frame.id
                 /\ m.role = "frame" => x.key = Null
  <2>1. /\ p.result.frame = p.frame.id /\ FailureMade(x) /\ x.depth <= 30
    BY <1>3 DEF MadeOnce, MadeCommand, Made, Shallow
  <2>2. FailureRow(p.result, x) \in A.failures
    BY <1>3 DEF Holds
  <2>3. FailureRowOK(FailureRow(p.result, x))
    BY <2>1, FailureColumns DEF FailureMade, FailureRowOK
  <2>4. FailureMember(p.result, x).role = "frame" => x.key = Null
    BY <2>1, FailureColumns DEF FailureMade
  <2> QED
    BY <2>1, <2>2, <2>3, <2>4, FailureColumns
<1>4. \A p \in P : \E r \in A.results : r.result = p.frame.id /\ r.frame = p.frame.id
  <2>1. ASSUME NEW p \in P PROVE \E r \in A.results : r.result = p.frame.id /\ r.frame = p.frame.id
    <3>1. p.result.frame = p.frame.id /\ ResultRow(p.result) \in A.results
      BY DEF MadeOnce, MadeCommand, Made, Holds
    <3> QED
      BY <3>1, ResultColumns
  <2> QED
    BY <2>1
<1>5. ASSUME NEW y \in A.failures, NEW z \in A.failures, y.failure = z.failure PROVE y = z
  <2>1. PICK p \in P : \E x \in p.result.failures : y = FailureRow(p.result, x)
    BY <1>1
  <2>2. PICK x \in p.result.failures : y = FailureRow(p.result, x)
    BY <2>1
  <2>3. PICK q \in P : \E w \in q.result.failures : z = FailureRow(q.result, w)
    BY <1>1
  <2>4. PICK w \in q.result.failures : z = FailureRow(q.result, w)
    BY <2>3
  <2>5. p.frame.id = q.frame.id /\ x = w
    BY <1>3, <1>5, <2>2, <2>4
  <2>6. p = q
    BY <2>5 DEF MadeOnce
  <2> QED
    BY <2>2, <2>4, <2>5, <2>6
<1>6. \A y \in A.failures : (\E r \in A.results : r.result = y.result /\ r.frame = y.frame) /\ FailureRowOK(y)
  BY <1>1, <1>3, <1>4
<1>7. FailuresOK(A)
  BY <1>5, <1>6 DEF FailuresOK, IsKey
<1>8. \A m \in A.failure_members :
        \E y \in A.failures : y.failure = m.failure /\ y.result = m.result /\ y.frame = m.frame
  BY <1>2, <1>3
<1>9. ASSUME NEW m \in A.failure_members, NEW n \in A.failure_members,
             m.role = "frame", n.role = "frame", m.result = n.result
      PROVE  m = n
  <2>1. PICK p \in P : \E x \in p.result.failures : m = FailureMember(p.result, x)
    BY <1>2
  <2>2. PICK x \in p.result.failures : m = FailureMember(p.result, x)
    BY <2>1
  <2>3. PICK q \in P : \E w \in q.result.failures : n = FailureMember(q.result, w)
    BY <1>2
  <2>4. PICK w \in q.result.failures : n = FailureMember(q.result, w)
    BY <2>3
  <2>5. p.frame.id = q.frame.id /\ x.key = Null /\ w.key = Null
    BY <1>3, <1>9, <2>2, <2>4
  <2>6. p = q
    BY <2>5 DEF MadeOnce
  <2>7. x = w
    BY <2>5, <2>6 DEF MadeOnce, MadeCommand, Made
  <2> QED
    BY <2>2, <2>4, <2>6, <2>7
<1>10. FailureMembersOK(A)
  BY <1>8, <1>9 DEF FailureMembersOK
<1> QED
  BY <1>7, <1>10

\* and typed rows.
LEMMA SubtypesAdmitted ==
  ASSUME NEW A, NEW P, Holds(A, P), NEW records, MadeOnce(records, P)
  PROVE  QuotesOK(A) /\ StatusesOK(A)
<1>1. \A t \in A.subtypes : \E p \in P : \E e \in p.result.events : t = SubtypeRow(e)
  BY DEF Holds
<1>2. ASSUME NEW p \in P, NEW e \in p.result.events
      PROVE  LET t == SubtypeRow(e)
             IN  /\ t.event = EventId(e)
                 /\ t \in A.subtypes => \E o \in A.observations : t \in SubtypesOf(A, o)
                 /\ t.type # "status" => QuoteRowOK(t)
                 /\ t.type = "status" => StatusRowOK(t)
  <2> DEFINE t == SubtypeRow(e)
             o == ObservationRow(p.frame, e)
  <2>1. /\ t.event = EventId(e) /\ t.type = e.kind /\ t.subject = e.subject /\ t.values = e.quote
    BY SubtypeColumns
  <2>2. o \in A.observations /\ o.event = EventId(e) /\ o.type = e.kind /\ o.subject = e.subject
    BY ObservationColumns DEF Holds
  <2>3. EventMade(p.frame, e)
    BY DEF MadeOnce, MadeCommand, Made
  <2> HIDE DEF t, o
  <2>4. t \in A.subtypes => t \in SubtypesOf(A, o)
    BY <2>1, <2>2 DEF SubtypesOf
  <2>5. t.type # "status" => QuoteRowOK(t)
    <3>1. SUFFICES ASSUME t.type # "status" PROVE QuoteRowOK(t)
      OBVIOUS
    <3>2. /\ t.type \in SubjectKinds /\ ValidQuote(t.values)
          /\ t.values.kind = t.type /\ t.values.union \in FeedUnions
      BY <2>1, <2>3, <3>1 DEF EventMade, IsQuote
    <3>3. /\ t.values.depth \in 0..30 /\ t.values.normalized \in {0, 1}
          /\ t.values.depth - t.values.normalized \in 0..30
          /\ FeedShape(t.type, t.values)
      BY <3>2, ValidQuoteShape
    <3> QED
      BY <3>3 DEF QuoteRowOK
  <2>6. t.type = "status" => StatusRowOK(t)
    BY <2>1, <2>3 DEF EventMade, IsQuote, SubjectKinds, StatusRowOK
  <2> QED
    BY <2>1, <2>2, <2>4, <2>5, <2>6 DEF t
<1>3. ASSUME NEW t \in A.subtypes, NEW u \in A.subtypes, <<t.type, t.event>> = <<u.type, u.event>>
      PROVE  t = u
  <2>1. t.event = u.event
    BY <1>3
  <2>2. PICK p \in P : \E d \in p.result.events : t = SubtypeRow(d)
    BY <1>1
  <2>3. PICK d \in p.result.events : t = SubtypeRow(d)
    BY <2>2
  <2>4. PICK q \in P : \E e \in q.result.events : u = SubtypeRow(e)
    BY <1>1
  <2>5. PICK e \in q.result.events : u = SubtypeRow(e)
    BY <2>4
  <2>6. EventId(d) = EventId(e)
    BY <1>2, <2>1, <2>3, <2>5
  <2>7. d = e
    BY <2>6, OneCommand
  <2> QED
    BY <2>3, <2>5, <2>7
<1>4. QuotesOK(A)
  BY <1>1, <1>2, <1>3 DEF QuotesOK, IsKey
<1>5. StatusesOK(A)
  BY <1>1, <1>2 DEF StatusesOK
<1> QED
  BY <1>4, <1>5

LEMMA CommandsAdmitted ==
  ASSUME NEW A, NEW P, Holds(A, P), NEW records, MadeOnce(records, P)
  PROVE  Admitted(A, records)
BY FramesAndResultsAdmitted, ObservationsAdmitted, FailuresAdmitted, SubtypesAdmitted DEF Admitted
\* What is loaded for a result is what its rows were made of.
LEMMA EventsLoad ==
  ASSUME NEW A, NEW P, Holds(A, P), NEW records, MadeOnce(records, P), NEW p \in P
  PROVE  LoadedEvents(A, ResultRow(p.result)) = p.result.events
<1> DEFINE r == ResultRow(p.result)
           members == {o \in A.observations : \E m \in A.event_members :
                                               m.result = r.result /\ m.event = o.event}
           own(e) == ObservationRow(p.frame, e)
<1>1. r.result = p.frame.id /\ p.result.frame = p.frame.id
  BY ResultColumns DEF MadeOnce, MadeCommand, Made
<1>2. ASSUME NEW e \in p.result.events
      PROVE  /\ own(e) \in members
             /\ SubtypeRow(e) \in SubtypesOf(A, own(e))
             /\ \A t \in SubtypesOf(A, own(e)) : t = SubtypeRow(e)
             /\ LoadedEvent(own(e), SubtypeRow(e)) = e
  <2> DEFINE o == own(e)
             t == SubtypeRow(e)
             m == EventMember(p.result, e)
  <2>1. /\ o.event = EventId(e) /\ o.frame = e.frame /\ o.type = e.kind /\ o.subject = e.subject
        /\ o.key = (IF IsQuote(e) THEN e.key ELSE Null)
        /\ o.records = e.provenance /\ o.known = e.known
    BY ObservationColumns
  <2>2. /\ t.event = EventId(e) /\ t.type = e.kind /\ t.subject = e.subject
        /\ t.segment = (IF IsQuote(e) THEN Null ELSE e.key) /\ t.values = e.quote
    BY SubtypeColumns
  <2>3. m.result = p.result.frame /\ m.event = EventId(e)
    BY MemberColumns
  <2>4. o \in A.observations /\ t \in A.subtypes /\ m \in A.event_members
    BY DEF Holds
  <2>5. EventMade(p.frame, e)
    BY DEF MadeOnce, MadeCommand, Made
  <2> HIDE DEF own, o, t, m, r
  <2>6. o \in members
    BY <1>1, <2>1, <2>3, <2>4
  <2>7. t \in SubtypesOf(A, o)
    BY <2>1, <2>2, <2>4 DEF SubtypesOf
  <2>8. ASSUME NEW u \in SubtypesOf(A, o) PROVE u = t
    <3>1. u \in A.subtypes /\ u.event = EventId(e)
      BY <2>1, <2>8 DEF SubtypesOf
    <3>2. PICK q \in P : \E d \in q.result.events : u = SubtypeRow(d)
      BY <3>1 DEF Holds
    <3>3. PICK d \in q.result.events : u = SubtypeRow(d)
      BY <3>2
    <3>4. EventId(d) = EventId(e)
      BY <3>1, <3>3, SubtypeColumns
    <3>5. d = e
      BY <3>4, OneCommand
    <3> QED
      BY <3>3, <3>5 DEF t
  <2>9. LoadedEvent(o, t) = e
    <3>1. (IF o.key = Null THEN t.segment ELSE o.key) = e.key
      BY <2>1, <2>2, <2>5 DEF EventMade
    <3>2. e = [frame |-> e.frame, kind |-> e.kind, subject |-> e.subject, key |-> e.key,
               quote |-> e.quote, provenance |-> e.provenance, known |-> e.known]
      BY <2>5 DEF EventMade
    <3> QED
      BY <2>1, <2>2, <3>1, <3>2 DEF LoadedEvent
  <2> QED
    BY <2>6, <2>7, <2>8, <2>9 DEF o, t
<1>3. ASSUME NEW o \in members
      PROVE  \E e \in p.result.events : o = own(e)
  <2>1. o \in A.observations
    OBVIOUS
  <2>2. PICK m \in A.event_members : m.result = r.result /\ m.event = o.event
    OBVIOUS
  <2>3. PICK q \in P : \E e \in q.result.events : m = EventMember(q.result, e)
    BY DEF Holds
  <2>4. PICK e \in q.result.events : m = EventMember(q.result, e)
    BY <2>3
  <2>5. m.result = q.frame.id /\ m.event = EventId(e)
    BY <2>4, MemberColumns DEF MadeOnce, MadeCommand, Made
  <2> HIDE DEF r
  <2>6. q = p
    BY <1>1, <2>2, <2>5 DEF MadeOnce
  <2>7. PICK n \in P : \E d \in n.result.events : o = ObservationRow(n.frame, d)
    BY <2>1 DEF Holds
  <2>8. PICK d \in n.result.events : o = ObservationRow(n.frame, d)
    BY <2>7
  <2>9. EventId(d) = EventId(e)
    <3>1. ObservationRow(n.frame, d).event = EventId(d)
      BY ObservationColumns
    <3>2. o.event = EventId(e)
      BY <2>2, <2>5
    <3> QED
      BY <2>8, <3>1, <3>2
  <2>10. n = q /\ d = e
    BY <2>9, OneCommand
  <2> QED
    BY <2>6, <2>8, <2>10
<1>4. LoadedEvents(A, r) = UNION {{LoadedEvent(o, t) : t \in SubtypesOf(A, o)} : o \in members}
  BY DEF LoadedEvents
<1> HIDE DEF members, own, r
<1>5. p.result.events \subseteq LoadedEvents(A, r)
  <2>1. ASSUME NEW e \in p.result.events PROVE e \in LoadedEvents(A, r)
    BY <1>2, <1>4
  <2> QED
    BY <2>1
<1>6. LoadedEvents(A, r) \subseteq p.result.events
  <2>1. ASSUME NEW o \in members, NEW t \in SubtypesOf(A, o)
        PROVE  LoadedEvent(o, t) \in p.result.events
    BY <1>2, <1>3
  <2> QED
    BY <1>4, <2>1
<1> QED
  BY <1>5, <1>6 DEF r

LEMMA FailuresLoad ==
  ASSUME NEW A, NEW P, Holds(A, P), NEW records, MadeOnce(records, P), NEW p \in P
  PROVE  LoadedFailures(A, ResultRow(p.result)) = p.result.failures
<1> DEFINE r == ResultRow(p.result)
           members == {x \in A.failures : \E m \in A.failure_members :
                                           m.result = r.result /\ m.failure = x.failure}
           own(x) == FailureRow(p.result, x)
           loaded(y) == [scope |-> y.scope, key |-> y.key, reason |-> y.reason, depth |-> y.depth]
<1>1. r.result = p.frame.id /\ p.result.frame = p.frame.id
  BY ResultColumns DEF MadeOnce, MadeCommand, Made
<1>2. ASSUME NEW x \in p.result.failures
      PROVE  own(x) \in members /\ loaded(own(x)) = x
  <2> DEFINE y == own(x)
             m == FailureMember(p.result, x)
  <2>1. /\ y.failure = <<p.result.frame, x>> /\ y.scope = x.scope /\ y.key = x.key
        /\ y.reason = x.reason /\ y.depth = x.depth
        /\ m.result = p.result.frame /\ m.failure = <<p.result.frame, x>>
    BY FailureColumns
  <2>2. y \in A.failures /\ m \in A.failure_members
    BY DEF Holds
  <2>3. x = [scope |-> x.scope, key |-> x.key, reason |-> x.reason, depth |-> x.depth]
    BY DEF MadeOnce, MadeCommand, Made, FailureMade
  <2> HIDE DEF own, y, m, r
  <2>4. y \in members
    BY <1>1, <2>1, <2>2
  <2>5. loaded(y) = x
    BY <2>1, <2>3
  <2> QED
    BY <2>4, <2>5 DEF y
<1>3. ASSUME NEW y \in members
      PROVE  \E x \in p.result.failures : y = own(x)
  <2>1. y \in A.failures
    OBVIOUS
  <2>2. PICK m \in A.failure_members : m.result = r.result /\ m.failure = y.failure
    OBVIOUS
  <2>3. PICK q \in P : \E x \in q.result.failures : m = FailureMember(q.result, x)
    BY DEF Holds
  <2>4. PICK n \in P : \E x \in n.result.failures : y = FailureRow(n.result, x)
    BY <2>1 DEF Holds
  <2>5. PICK x \in n.result.failures : y = FailureRow(n.result, x)
    BY <2>4
  <2>6. PICK z \in q.result.failures : m = FailureMember(q.result, z)
    BY <2>3
  <2>7. y.failure = <<n.frame.id, x>> /\ m.failure = <<q.frame.id, z>> /\ m.result = q.frame.id
    BY <2>5, <2>6, FailureColumns DEF MadeOnce, MadeCommand, Made
  <2> HIDE DEF r
  <2>8. n.frame.id = p.frame.id
    BY <1>1, <2>2, <2>7
  <2>9. n = p
    BY <2>8 DEF MadeOnce
  <2> QED
    BY <2>5, <2>9
<1>4. LoadedFailures(A, r) = {loaded(y) : y \in members}
  BY DEF LoadedFailures
<1> HIDE DEF members, own, r, loaded
<1> QED
  BY <1>2, <1>3, <1>4 DEF r
\* Every result loads, and reconciles.
LEMMA CommandsLoad ==
  ASSUME NEW P, Holds(archive, P), NEW records, MadeOnce(records, P)
  PROVE  AggregatesLoad
<1>1. ASSUME NEW r \in archive.results
      PROVE  /\ \E f \in archive.frames : f.id = r.frame
             /\ LoadedEvents(archive, r) = r.full_hash.events
             /\ LoadedFailures(archive, r) = r.full_hash.failures
             /\ Cardinality(LoadedFailures(archive, r)) = r.failed + (IF r.frame_failure THEN 1 ELSE 0)
             /\ Reconciled(r.full_hash)
  <2>1. PICK p \in P : r = ResultRow(p.result)
    BY DEF Holds
  <2> DEFINE res == p.result
             b == Cardinality(res.failures)
             k == Cardinality(FailedKeys(res))
  <2>2. Made(p.frame, res) /\ res.frame = p.frame.id /\ p.frame \in archive.frames
    BY DEF MadeOnce, MadeCommand, Made, Holds
  <2>3. /\ r.frame = res.frame /\ r.full_hash = res /\ r.failed = k
        /\ r.frame_failure = FrameFailed(res)
    BY <2>1, ResultColumns
  <2>4. LoadedEvents(archive, r) = res.events /\ LoadedFailures(archive, r) = res.failures
    BY <2>1, EventsLoad, FailuresLoad
  <2>5. /\ b \in Nat /\ k = IF FrameFailed(res) THEN 0 ELSE b
        /\ Cardinality({EventId(e) : e \in res.events}) = Cardinality(res.events)
    BY <2>2, MadeCounts
  <2>6. /\ FrameFailed(res) => res.events = {} /\ b = 1
        /\ ~FrameFailed(res) => res.decoded = Cardinality(res.events) + b
    BY <2>2 DEF Made
  <2>7. Reconciled(res)
    BY <2>5, <2>6 DEF Reconciled
  <2> HIDE DEF b, k
  <2>8. b = r.failed + (IF r.frame_failure THEN 1 ELSE 0)
    <3>1. CASE FrameFailed(res)
      BY <2>3, <2>5, <2>6, <3>1
    <3>2. CASE ~FrameFailed(res)
      BY <2>3, <2>5, <3>2
    <3> QED
      BY <3>1, <3>2
  <2> QED
    BY <2>2, <2>3, <2>4, <2>7, <2>8 DEF b
<1> QED
  BY <1>1 DEF AggregatesLoad

\* The mapping of the quotes: what was known at the cutoff of each, and is in the records.
LEMMA CommandsProvenanced ==
  ASSUME NEW P, Holds(archive, P), MadeOnce(catalogue, P)
  PROVE  ProvenanceHolds
<1>1. ASSUME NEW o \in archive.observations, o.type \in SubjectKinds
      PROVE  /\ o.records # {}
             /\ \A r \in o.records : /\ r \in catalogue
                                     /\ r.recorded_at <= o.known
                                     /\ [key |-> o.key, instrument |-> o.subject] \in r.sem
  <2>1. PICK p \in P : \E e \in p.result.events : o = ObservationRow(p.frame, e)
    BY DEF Holds
  <2>2. PICK e \in p.result.events : o = ObservationRow(p.frame, e)
    BY <2>1
  <2>3. Provenanced(catalogue, e)
    BY DEF MadeOnce, MadeCommand
  <2>4. /\ o.type = e.kind /\ o.subject = e.subject /\ o.records = e.provenance /\ o.known = e.known
        /\ o.key = (IF IsQuote(e) THEN e.key ELSE Null)
    BY <2>2, ObservationColumns
  <2>5. IsQuote(e)
    BY <1>1, <2>4 DEF IsQuote
  <2> QED
    BY <2>3, <2>4, <2>5 DEF Provenanced
<1> QED
  BY <1>1 DEF ProvenanceHolds
-----------------------------------------------------------------------------
(* The statements of a transaction                                         *)

LEMMA AllPass ==
  ASSUME NEW tests, \A i \in DOMAIN tests : ~tests[i][1]
  PROVE  FirstFailure(tests) = "none"
BY DEF FirstFailure

LEMMA OneTest ==
  ASSUME NEW a, NEW x
  PROVE  FirstFailure(<< <<a, x>> >>) = IF a THEN x ELSE "none"
<1> DEFINE tests == << <<a, x>> >>
<1>1. DOMAIN tests = {1} /\ tests[1][1] = a /\ tests[1][2] = x
  OBVIOUS
<1> HIDE DEF tests
<1>2. CASE a
  <2>1. \E i \in DOMAIN tests : tests[i][1]
    BY <1>1, <1>2
  <2>2. (CHOOSE i \in DOMAIN tests : tests[i][1] /\ \A j \in DOMAIN tests : tests[j][1] => i <= j) = 1
    BY <1>1, <1>2
  <2> QED
    BY <1>1, <1>2, <2>1, <2>2 DEF FirstFailure, tests
<1>3. CASE ~a
  <2>1. \A i \in DOMAIN tests : ~tests[i][1]
    BY <1>1, <1>3
  <2> QED
    BY <1>3, <2>1, AllPass DEF tests
<1> QED
  BY <1>2, <1>3

LEMMA TwoTests ==
  ASSUME NEW a, NEW x, NEW b, NEW y
  PROVE  FirstFailure(<< <<a, x>>, <<b, y>> >>) = IF a THEN x ELSE IF b THEN y ELSE "none"
<1> DEFINE tests == << <<a, x>>, <<b, y>> >>
<1>1. /\ DOMAIN tests = 1..2
      /\ tests[1][1] = a /\ tests[1][2] = x /\ tests[2][1] = b /\ tests[2][2] = y
  OBVIOUS
<1> HIDE DEF tests
<1>2. CASE a \/ b
  <2>1. \E i \in 1..2 : tests[i][1]
    BY <1>1, <1>2
  <2>2. PICK i \in 1..2 : /\ tests[i][1] /\ FirstFailure(tests) = tests[i][2]
                          /\ \A j \in 1..2 : j < i => ~tests[j][1]
    BY <1>1, <2>1, FirstFailureRaises
  <2>3. CASE i = 1
    BY <1>1, <2>2, <2>3 DEF tests
  <2>4. CASE i = 2
    BY <1>1, <2>2, <2>4 DEF tests
  <2> QED
    BY <2>3, <2>4
<1>3. CASE ~a /\ ~b
  <2>1. \A i \in DOMAIN tests : ~tests[i][1]
    BY <1>1, <1>3
  <2> QED
    BY <1>3, <2>1, AllPass DEF tests
<1> QED
  BY <1>2, <1>3

LEMMA SixPass ==
  ASSUME NEW a, NEW b, NEW c, NEW d, NEW e, NEW f, ~a, ~b, ~c, ~d, ~e, ~f,
         NEW u, NEW v, NEW w, NEW x, NEW y, NEW z
  PROVE  FirstFailure(<< <<a, u>>, <<b, v>>, <<c, w>>, <<d, x>>, <<e, y>>, <<f, z>> >>) = "none"
<1> DEFINE tests == << <<a, u>>, <<b, v>>, <<c, w>>, <<d, x>>, <<e, y>>, <<f, z>> >>
<1>1. /\ DOMAIN tests = 1..6
      /\ ~tests[1][1] /\ ~tests[2][1] /\ ~tests[3][1] /\ ~tests[4][1] /\ ~tests[5][1] /\ ~tests[6][1]
  OBVIOUS
<1> HIDE DEF tests
<1>2. \A i \in DOMAIN tests : ~tests[i][1]
  BY <1>1
<1> QED
  BY <1>2, AllPass DEF tests

\* The first of seven answers that is one.
LEMMA SevenTests ==
  ASSUME NEW t1, NEW t2, NEW t3, NEW t4, NEW t5, NEW t6, NEW t7
  PROVE  LET tests == <<t1, t2, t3, t4, t5, t6, t7>>
         IN  FirstFailure([i \in DOMAIN tests |-> <<tests[i] # "none", tests[i]>>]) =
               IF t1 # "none" THEN t1 ELSE IF t2 # "none" THEN t2 ELSE IF t3 # "none" THEN t3
               ELSE IF t4 # "none" THEN t4 ELSE IF t5 # "none" THEN t5 ELSE IF t6 # "none" THEN t6
               ELSE t7
<1> DEFINE tests == <<t1, t2, t3, t4, t5, t6, t7>>
           raised == [i \in DOMAIN tests |-> <<tests[i] # "none", tests[i]>>]
<1>1. /\ DOMAIN tests = 1..7
      /\ tests[1] = t1 /\ tests[2] = t2 /\ tests[3] = t3 /\ tests[4] = t4
      /\ tests[5] = t5 /\ tests[6] = t6 /\ tests[7] = t7
  OBVIOUS
<1> HIDE DEF tests
<1>2. DOMAIN raised = 1..7 /\ \A i \in 1..7 : (raised[i][1] <=> tests[i] # "none") /\ raised[i][2] = tests[i]
  BY <1>1
<1> HIDE DEF raised
<1>3. CASE \E i \in 1..7 : tests[i] # "none"
  <2>1. PICK i \in 1..7 : /\ tests[i] # "none" /\ FirstFailure(raised) = tests[i]
                          /\ \A j \in 1..7 : j < i => tests[j] = "none"
    <3>1. \E i \in 1..7 : raised[i][1]
      BY <1>2, <1>3
    <3>2. PICK i \in 1..7 : /\ raised[i][1] /\ FirstFailure(raised) = raised[i][2]
                            /\ \A j \in 1..7 : j < i => ~raised[j][1]
      BY <1>2, <3>1, FirstFailureRaises
    <3> QED
      BY <1>2, <3>2
  <2> QED
    BY <1>1, <2>1 DEF raised, tests
<1>4. CASE \A i \in 1..7 : tests[i] = "none"
  <2>1. \A i \in DOMAIN raised : ~raised[i][1]
    BY <1>2, <1>4
  <2>2. FirstFailure(raised) = "none"
    BY <2>1, AllPass
  <2>3. /\ t1 = "none" /\ t2 = "none" /\ t3 = "none" /\ t4 = "none"
        /\ t5 = "none" /\ t6 = "none" /\ t7 = "none"
    BY <1>1, <1>4
  <2> QED
    BY <2>2, <2>3 DEF raised, tests
<1> QED
  BY <1>3, <1>4
\* The rows of one command.
LEMMA RowsColumns ==
  ASSUME NEW p
  PROVE  LET rows == RowsOf(p.frame, p.result)
         IN  /\ rows.frames = {p.frame}
             /\ rows.results = {ResultRow(p.result)}
             /\ rows.observations = {ObservationRow(p.frame, e) : e \in p.result.events}
             /\ rows.subtypes = {SubtypeRow(e) : e \in p.result.events}
             /\ rows.event_members = {EventMember(p.result, e) : e \in p.result.events}
             /\ rows.failures = {FailureRow(p.result, x) : x \in p.result.failures}
             /\ rows.failure_members = {FailureMember(p.result, x) : x \in p.result.failures}
BY DEF RowsOf

HasId(P, id) == \E q \in P : q.frame.id = id

\* A stored frame or result under the identities of a command is that of a command.
LEMMA StoredIdentities ==
  ASSUME NEW A, NEW P, Holds(A, P), NEW records, MadeOnce(records, P),
         NEW p, MadeCommand(records, p)
  PROVE  LET rows == RowsOf(p.frame, p.result)
         IN  /\ FramesStored(A, p.frame) = {q.frame : q \in {q \in P : q.frame.id = p.frame.id}}
             /\ SameResult(A, rows) = {ResultRow(q.result) : q \in {q \in P : q.frame.id = p.frame.id}}
             /\ SameResult(A, rows) = {} <=> ~HasId(P, p.frame.id)
             /\ FramesStored(A, p.frame) = {} <=> ~HasId(P, p.frame.id)
<1> DEFINE rows == RowsOf(p.frame, p.result)
           same == {q \in P : q.frame.id = p.frame.id}
<1>1. FramesStored(A, p.frame) = {q.frame : q \in same}
  BY DEF FramesStored, Holds
<1>2. rows.results = {ResultRow(p.result)} /\ ResultRow(p.result).result = p.frame.id
  BY RowsColumns, ResultColumns DEF MadeCommand, Made
<1>3. \A q \in P : ResultRow(q.result).result = q.frame.id
  BY ResultColumns DEF MadeOnce, MadeCommand, Made
<1>4. A.results = {ResultRow(q.result) : q \in P}
  BY DEF Holds
<1> HIDE DEF rows
<1>5. SameResult(A, rows) = {r \in A.results : r.result = p.frame.id}
  BY <1>2 DEF SameResult
<1>6. SameResult(A, rows) = {ResultRow(q.result) : q \in same}
  BY <1>3, <1>4, <1>5
<1>7. same = {} <=> ~HasId(P, p.frame.id)
  BY DEF HasId
<1> QED
  BY <1>1, <1>6, <1>7 DEF rows

\* When the frame and the result that are read do not differ from those of a command, it
\* finds its own events and failures, or none of them.
LEMMA EventsNeverConflict ==
  ASSUME NEW S, NEW Q, Holds(S, Q), NEW records, MadeOnce(records, Q),
         NEW p, MadeCommand(records, p), p \in Q \/ ~HasId(Q, p.frame.id)
  PROVE  EventFailure(S, RowsOf(p.frame, p.result)) = "none"
<1> DEFINE rows == RowsOf(p.frame, p.result)
           new == SameResult(S, rows) = {}
           stored == {o.event : o \in S.observations}
           events == {o.event : o \in rows.observations}
           typed == {t.event : t \in S.subtypes}
           a == \E o \in S.observations : o.event \in events /\ o \notin rows.observations
           b == new /\ events \cap stored # {}
           c == ~new /\ ~(events \subseteq stored)
           d == \E e \in events : (e \in typed) # (e \in stored)
           h == \E t \in S.subtypes : t.event \in events /\ t \notin rows.subtypes
           g == ~new /\ OfResult(S.event_members, rows) # rows.event_members
<1>0. EventFailure(S, rows) = FirstFailure(
        << <<a, "event_conflict">>, <<b, "durable_corruption">>, <<c, "durable_corruption">>,
           <<d, "durable_corruption">>, <<h, "event_conflict">>, <<g, "result_conflict">> >>)
  BY DEF EventFailure
<1>1. /\ rows.results = {ResultRow(p.result)}
      /\ rows.observations = {ObservationRow(p.frame, e) : e \in p.result.events}
      /\ rows.subtypes = {SubtypeRow(e) : e \in p.result.events}
      /\ rows.event_members = {EventMember(p.result, e) : e \in p.result.events}
  BY RowsColumns
<1>2. new <=> ~HasId(Q, p.frame.id)
  BY StoredIdentities
<1>3. /\ ResultRow(p.result).result = p.frame.id
      /\ \A e \in p.result.events : EventId(e).frame = p.frame.id
  BY ResultColumns DEF MadeCommand, Made, EventMade, EventId
<1>4. events = {EventId(e) : e \in p.result.events}
  BY <1>1, ObservationColumns
<1>5. /\ \A o \in S.observations : \E q \in Q : \E k \in q.result.events :
           o = ObservationRow(q.frame, k) /\ o.event = EventId(k)
      /\ \A t \in S.subtypes : \E q \in Q : \E k \in q.result.events :
           t = SubtypeRow(k) /\ t.event = EventId(k)
      /\ \A m \in S.event_members : \E q \in Q : \E k \in q.result.events :
           m = EventMember(q.result, k) /\ m.result = q.frame.id
  <2>1. \A q \in Q : q.result.frame = q.frame.id
    BY DEF MadeOnce, MadeCommand, Made
  <2> QED
    BY <2>1, ObservationColumns, SubtypeColumns, MemberColumns DEF Holds
<1>6. \A q \in Q : \A k \in q.result.events : EventId(k).frame = q.frame.id
  BY DEF MadeOnce, MadeCommand, Made, EventMade, EventId
<1> HIDE DEF rows, new, stored, events, typed
<1>7. CASE p \in Q
  <2>1. HasId(Q, p.frame.id) /\ ~new
    BY <1>2, <1>7 DEF HasId
  <2>2. \A q \in Q : \A k \in q.result.events, e \in p.result.events :
          EventId(k) = EventId(e) => q = p /\ k = e
    BY <1>7, OneCommand
  <2>3. ~(\E o \in S.observations : o.event \in events /\ o \notin rows.observations)
    BY <1>1, <1>4, <1>5, <2>2
  <2>4. ~(\E t \in S.subtypes : t.event \in events /\ t \notin rows.subtypes)
    BY <1>1, <1>4, <1>5, <2>2
  <2>5. /\ \A e \in p.result.events : ObservationRow(p.frame, e) \in S.observations
        /\ \A e \in p.result.events : SubtypeRow(e) \in S.subtypes
        /\ \A e \in p.result.events : EventMember(p.result, e) \in S.event_members
    BY <1>7 DEF Holds
  <2>6. events \subseteq stored
    BY <1>4, <2>5, ObservationColumns DEF stored
  <2>7. events \subseteq typed
    BY <1>4, <2>5, SubtypeColumns DEF typed
  <2>8. \A m \in S.event_members : (\E s \in rows.results : m.result = s.result) <=> m \in rows.event_members
    <3>1. ASSUME NEW m \in S.event_members, m.result = p.frame.id PROVE m \in rows.event_members
      <4>1. PICK q \in Q : \E k \in q.result.events : m = EventMember(q.result, k) /\ m.result = q.frame.id
        BY <1>5
      <4>2. q = p
        BY <1>7, <3>1, <4>1 DEF MadeOnce
      <4> QED
        BY <1>1, <4>1, <4>2
    <3>2. ASSUME NEW m \in rows.event_members PROVE m.result = p.frame.id
      BY <1>1, <3>2, MemberColumns DEF MadeCommand, Made
    <3> QED
      BY <1>1, <1>3, <3>1, <3>2
  <2>9. OfResult(S.event_members, rows) = rows.event_members
    BY <1>1, <2>5, <2>8 DEF OfResult
  <2>10. ~(\E e \in events : (e \in typed) # (e \in stored))
    BY <2>6, <2>7
  <2>11. ~a /\ ~b /\ ~c /\ ~d /\ ~h /\ ~g
    BY <2>1, <2>3, <2>4, <2>6, <2>9, <2>10
  <2> HIDE DEF a, b, c, d, h, g
  <2> QED
    BY <1>0, <2>11, SixPass DEF rows
<1>8. CASE ~HasId(Q, p.frame.id)
  <2>1. new
    BY <1>2, <1>8
  <2>2. \A q \in Q : \A k \in q.result.events, e \in p.result.events : EventId(k) # EventId(e)
    BY <1>3, <1>6, <1>8 DEF HasId
  <2>3. \A o \in S.observations : o.event \notin events
    BY <1>4, <1>5, <2>2
  <2>4. \A t \in S.subtypes : t.event \notin events
    BY <1>4, <1>5, <2>2
  <2>5. events \cap stored = {} /\ events \cap typed = {}
    BY <2>3, <2>4 DEF stored, typed
  <2>6. ~(\E e \in events : (e \in typed) # (e \in stored))
    BY <2>5
  <2>7. ~a /\ ~b /\ ~c /\ ~d /\ ~h /\ ~g
    BY <2>1, <2>3, <2>4, <2>5, <2>6
  <2> HIDE DEF a, b, c, d, h, g
  <2> QED
    BY <1>0, <2>7, SixPass DEF rows
<1> QED
  BY <1>7, <1>8
LEMMA FailuresNeverConflict ==
  ASSUME NEW S, NEW Q, Holds(S, Q), NEW records, MadeOnce(records, Q),
         NEW p, MadeCommand(records, p), p \in Q \/ ~HasId(Q, p.frame.id)
  PROVE  FailureConflict(S, RowsOf(p.frame, p.result)) = "none"
<1> DEFINE rows == RowsOf(p.frame, p.result)
           new == SameResult(S, rows) = {}
           a == new /\ S.failures \cap rows.failures # {}
           b == ~new /\ OfResult(S.failure_members, rows) # rows.failure_members
<1>1. FailureConflict(S, rows) = FirstFailure(<< <<a, "durable_corruption">>, <<b, "result_conflict">> >>)
  BY DEF FailureConflict
<1>2. /\ rows.results = {ResultRow(p.result)}
      /\ rows.failures = {FailureRow(p.result, x) : x \in p.result.failures}
      /\ rows.failure_members = {FailureMember(p.result, x) : x \in p.result.failures}
      /\ ResultRow(p.result).result = p.frame.id
  BY RowsColumns, ResultColumns DEF MadeCommand, Made
<1>3. new <=> ~HasId(Q, p.frame.id)
  BY StoredIdentities
<1>4. \A q \in Q : q.result.frame = q.frame.id
  BY DEF MadeOnce, MadeCommand, Made
<1>5. p.result.frame = p.frame.id
  BY DEF MadeCommand, Made
<1> HIDE DEF rows, new
<1>6. ~a
  <2>1. CASE HasId(Q, p.frame.id)
    BY <1>3, <2>1
  <2>2. CASE ~HasId(Q, p.frame.id)
    <3>1. \A y \in S.failures : \E q \in Q : y.frame = q.frame.id
      BY <1>4, FailureColumns DEF Holds
    <3>2. \A y \in rows.failures : y.frame = p.frame.id
      BY <1>2, <1>5, FailureColumns
    <3> QED
      BY <2>2, <3>1, <3>2 DEF HasId
  <2> QED
    BY <2>1, <2>2
<1>7. ~b
  <2>1. CASE ~HasId(Q, p.frame.id)
    BY <1>3, <2>1
  <2>2. CASE p \in Q
    <3>1. \A x \in p.result.failures : FailureMember(p.result, x) \in S.failure_members
      BY <2>2 DEF Holds
    <3>2. ASSUME NEW m \in S.failure_members, m.result = p.frame.id PROVE m \in rows.failure_members
      <4>1. PICK q \in Q : \E x \in q.result.failures : m = FailureMember(q.result, x)
        BY DEF Holds
      <4>2. m.result = q.frame.id
        BY <1>4, <4>1, FailureColumns
      <4>3. q = p
        BY <2>2, <3>2, <4>2 DEF MadeOnce
      <4> QED
        BY <1>2, <4>1, <4>3
    <3>3. \A m \in rows.failure_members : m.result = p.frame.id
      BY <1>2, <1>5, FailureColumns
    <3>4. OfResult(S.failure_members, rows) = rows.failure_members
      BY <1>2, <3>1, <3>2, <3>3 DEF OfResult
    <3> QED
      BY <3>4
  <2> QED
    BY <2>1, <2>2
<1> HIDE DEF a, b
<1> QED
  BY <1>1, <1>6, <1>7, TwoTests DEF rows

\* A record of a call that has read S when the committed rows are those of P.
Command(k) == [frame |-> k.frame, result |-> k.result]

\* What each answer of the statements of a transaction says of the commands published.
LEMMA PersistAnswers ==
  ASSUME NEW S, NEW Q, Holds(S, Q), NEW A, NEW P, Holds(A, P), Q \subseteq P,
         MadeOnce(catalogue, P), NEW k, MadeCommand(catalogue, Command(k)), NEW records
  PROVE  LET p == Command(k)
             failure == PersistFailure(S, records, A, k)
         IN  \/ /\ failure = "none"
                /\ p \in Q \/ (~HasId(P, p.frame.id) /\ Shallow(p))
             \/ /\ failure \in {"frame_content_mismatch", "capture_identity_conflict"}
                /\ \E q \in P : q.frame.id = p.frame.id /\ q.frame # p.frame
             \/ failure = "integrity_error" /\ HasId(P, p.frame.id)
             \/ /\ failure = "result_conflict"
                /\ \E q \in P : q.frame.id = p.frame.id /\ q.result # p.result
             \/ failure \in {"provenance_missing", "provenance_conflict"}
             \/ failure = "check_violation" /\ ~HasId(P, p.frame.id) /\ ~Shallow(p)
<1> DEFINE p == Command(k)
           rows == RowsOf(p.frame, p.result)
           id == p.frame.id
           t1 == FrameFailure(S, p.frame)
           t2 == IF UniqueViolation(S, A, rows) THEN "integrity_error" ELSE "none"
           t3 == ResultFailure(S, rows)
           t4 == ProvenanceFailure(records, k.result, k.known)
           t5 == EventFailure(S, rows)
           t6 == FailureConflict(S, rows)
           t7 == IF Admitted(Inserted(A, rows), catalogue) THEN "none" ELSE "check_violation"
           failure == PersistFailure(S, records, A, k)
<1>1. p.frame = k.frame /\ p.result = k.result
  BY DEF Command
<1>2. failure = IF t1 # "none" THEN t1 ELSE IF t2 # "none" THEN t2 ELSE IF t3 # "none" THEN t3
                ELSE IF t4 # "none" THEN t4 ELSE IF t5 # "none" THEN t5 ELSE IF t6 # "none" THEN t6
                ELSE t7
  <2> DEFINE tests == <<t1, t2, t3, t4, t5, t6, t7>>
  <2>1. failure = FirstFailure([i \in DOMAIN tests |-> <<tests[i] # "none", tests[i]>>])
    BY <1>1 DEF PersistFailure
  <2> HIDE DEF t1, t2, t3, t4, t5, t6, t7, failure
  <2> QED
    BY <2>1, SevenTests
<1>3. MadeOnce(catalogue, Q)
  BY DEF MadeOnce
<1>4. MadeCommand(catalogue, p)
  OBVIOUS
<1>5. /\ FramesStored(S, p.frame) = {q.frame : q \in {q \in Q : q.frame.id = id}}
      /\ SameResult(S, rows) = {ResultRow(q.result) : q \in {q \in Q : q.frame.id = id}}
      /\ SameResult(S, rows) = {} <=> ~HasId(Q, id)
      /\ FramesStored(S, p.frame) = {} <=> ~HasId(Q, id)
  BY <1>3, <1>4, StoredIdentities
<1>6. /\ SameResult(A, rows) = {} <=> ~HasId(P, id)
      /\ FramesStored(A, p.frame) = {} <=> ~HasId(P, id)
  BY <1>4, StoredIdentities
<1>7. rows.frames = {p.frame} /\ rows.results = {ResultRow(p.result)}
  BY RowsColumns
<1> HIDE DEF p, rows
<1>8. /\ t1 \in {"none", "frame_content_mismatch", "capture_identity_conflict"}
      /\ t1 = "none" <=> \A q \in Q : q.frame.id = id => q.frame = p.frame
  <2> DEFINE a == \E f \in FramesStored(S, p.frame) : f.bytes # p.frame.bytes
             b == \E f \in FramesStored(S, p.frame) : f # p.frame
  <2>1. t1 = FirstFailure(<< <<a, "frame_content_mismatch">>, <<b, "capture_identity_conflict">> >>)
    BY DEF FrameFailure
  <2>2. (~a /\ ~b) <=> \A q \in Q : q.frame.id = id => q.frame = p.frame
    BY <1>5
  <2> HIDE DEF a, b, t1
  <2>3. t1 = IF a THEN "frame_content_mismatch" ELSE IF b THEN "capture_identity_conflict" ELSE "none"
    BY <2>1, TwoTests
  <2> QED
    BY <2>2, <2>3
<1>9. /\ t2 # "none" => HasId(P, id) /\ t2 = "integrity_error"
      /\ t2 = "none" => (HasId(P, id) => HasId(Q, id))
  BY <1>5, <1>6, <1>7 DEF UniqueViolation
<1>10. /\ t3 \in {"none", "result_conflict"}
       /\ t3 = "none" <=> \A q \in Q : q.frame.id = id => q.result = p.result
  <2> DEFINE a == \E r \in SameResult(S, rows) : r \notin rows.results
  <2>1. t3 = FirstFailure(<< <<a, "result_conflict">> >>)
    BY DEF ResultFailure
  <2>2. \A q \in Q : ResultRow(q.result) = ResultRow(p.result) <=> q.result = p.result
    BY ResultColumns
  <2>3. ~a <=> \A q \in Q : q.frame.id = id => q.result = p.result
    BY <1>5, <1>7, <2>2
  <2> HIDE DEF a, t3
  <2>4. t3 = IF a THEN "result_conflict" ELSE "none"
    BY <2>1, OneTest
  <2> QED
    BY <2>3, <2>4
<1>11. t4 \in {"none", "provenance_missing", "provenance_conflict"}
  BY TwoTests DEF ProvenanceFailure
<1>12. t1 = "none" /\ t3 = "none" => p \in Q \/ ~HasId(Q, id)
  <2>1. \A q \in Q : q = [frame |-> q.frame, result |-> q.result]
    BY <1>3 DEF MadeOnce, MadeCommand
  <2>2. p = [frame |-> p.frame, result |-> p.result]
    BY <1>4 DEF MadeCommand
  <2>3. \A q \in Q : q.frame = p.frame /\ q.result = p.result => q = p
    BY <2>1, <2>2
  <2> QED
    BY <1>8, <1>10, <2>3 DEF HasId
<1>13. t1 = "none" /\ t3 = "none" => t5 = "none" /\ t6 = "none"
  BY <1>3, <1>4, <1>12, EventsNeverConflict, FailuresNeverConflict DEF rows
<1>14. t7 \in {"none", "check_violation"}
  OBVIOUS
<1>15. p \in Q \/ (~HasId(P, id) /\ Shallow(p)) => t7 = "none"
  <2>1. SUFFICES ASSUME p \in Q \/ (~HasId(P, id) /\ Shallow(p)) PROVE Admitted(Inserted(A, rows), catalogue)
    OBVIOUS
  <2>2. MadeOnce(catalogue, P \cup {p})
    <3>1. \A q \in P \cup {p} : MadeCommand(catalogue, q) /\ Shallow(q)
      BY <1>4, <2>1 DEF MadeOnce
    <3>2. \A q, r \in P \cup {p} : q.frame.id = r.frame.id => q = r
      BY <2>1 DEF MadeOnce, HasId
    <3> QED
      BY <3>1, <3>2 DEF MadeOnce
  <2>3. Holds(Inserted(A, rows), P \cup {p})
    BY InsertHolds DEF rows
  <2> QED
    BY <2>2, <2>3, CommandsAdmitted
<1>16. t7 = "none" => Shallow(p)
  <2>1. SUFFICES ASSUME Admitted(Inserted(A, rows), catalogue) PROVE Shallow(p)
    OBVIOUS
  <2>2. Holds(Inserted(A, rows), P \cup {p})
    BY InsertHolds DEF rows
  <2>3. ASSUME NEW x \in p.result.failures PROVE x.depth <= 30
    <3>1. FailureRow(p.result, x) \in Inserted(A, rows).failures
      BY <2>2 DEF Holds
    <3>2. FailureRowOK(FailureRow(p.result, x))
      BY <2>1, <3>1 DEF Admitted, FailuresOK
    <3>3. FailureRow(p.result, x).depth \in 0..30
      BY <3>2 DEF FailureRowOK
    <3> QED
      BY <3>3, FailureColumns
  <2> QED
    BY <2>3 DEF Shallow
<1> HIDE DEF t1, t2, t3, t4, t5, t6, t7, failure
<1>17. CASE t1 # "none"
  BY <1>2, <1>8, <1>17 DEF p, failure
<1>18. CASE t1 = "none" /\ t2 # "none"
  BY <1>2, <1>9, <1>18 DEF p, failure
<1>19. CASE t1 = "none" /\ t2 = "none" /\ t3 # "none"
  BY <1>2, <1>10, <1>19 DEF p, failure
<1>20. CASE t1 = "none" /\ t2 = "none" /\ t3 = "none" /\ t4 # "none"
  BY <1>2, <1>11, <1>20 DEF failure
<1>21. CASE t1 = "none" /\ t2 = "none" /\ t3 = "none" /\ t4 = "none"
  <2>1. failure = t7
    BY <1>2, <1>13, <1>21
  <2>2. p \in Q \/ ~HasId(P, id)
    BY <1>9, <1>12, <1>21
  <2>3. CASE t7 = "none"
    <3>1. failure = "none" /\ (p \in Q \/ (~HasId(P, id) /\ Shallow(p)))
      BY <1>16, <2>1, <2>2, <2>3
    <3> QED
      BY <3>1 DEF p, failure
  <2>4. CASE t7 # "none"
    <3>1. failure = "check_violation" /\ ~HasId(P, id) /\ ~Shallow(p)
      BY <1>14, <1>15, <2>1, <2>2, <2>4
    <3> QED
      BY <3>1 DEF p, failure
  <2> QED
    BY <2>3, <2>4
<1> QED
  BY <1>17, <1>18, <1>19, <1>20, <1>21
-----------------------------------------------------------------------------
(* The invariant                                                           *)

\* The tables hold the rows of made commands, one for a frame identity.
ArchiveOK ==
  /\ Holds(archive, Commands(archive))
  /\ MadeOnce(catalogue, Commands(archive))

\* A transaction reads commands that were published and still are.
ReadsOK(c) ==
  call[c].pc \in InTransaction =>
    /\ Holds(call[c].seen, Commands(call[c].seen))
    /\ Commands(call[c].seen) \subseteq Commands(archive)

\* A call that waits for its commit repeats what it has read, or is the first for its
\* frame: it holds the stripes that any other call for the frame needs.
CommitsOK(c) ==
  call[c].pc = "commit" =>
    \/ CommandOf(c) \in Commands(call[c].seen)
    \/ ~HasId(Commands(archive), call[c].frame.id) /\ Shallow(CommandOf(c))

ArchiveInv ==
  /\ BaseInv
  /\ ArchiveOK
  /\ \A c \in Calls : ReadsOK(c) /\ CommitsOK(c)
  /\ SchemaAdmits
LEMMA CommandIsMade ==
  ASSUME BaseInv, NEW c \in Calls, call[c].pc # "idle"
  PROVE  MadeCommand(catalogue, CommandOf(c))
<1>1. /\ CommandOf(c) = [frame |-> CommandOf(c).frame, result |-> CommandOf(c).result]
      /\ CommandOf(c).frame = call[c].frame /\ CommandOf(c).result = call[c].result
  BY DEF CommandOf
<1>2. call[c].frame \in Frames
  BY DEF BaseInv, CallsOK, CallOK
<1>3. Made(call[c].frame, call[c].result) /\ \A e \in call[c].result.events : Provenanced(catalogue, e)
  BY DEF BaseInv, CommandsOK
<1> QED
  BY <1>1, <1>2, <1>3 DEF MadeCommand

\* The answer of a failing call, with what it says of the commands published.
LEMMA PersistMeans ==
  ASSUME ArchiveInv, NEW c \in Calls, call[c].pc \in InTransaction
  PROVE  LET P == Commands(archive)
             p == CommandOf(c)
             failure == Failure(c)
         IN  \/ /\ failure = "none"
                /\ p \in Commands(call[c].seen) \/ (~HasId(P, p.frame.id) /\ Shallow(p))
             \/ /\ failure \in {"frame_content_mismatch", "capture_identity_conflict"}
                /\ \E q \in P : q.frame.id = p.frame.id /\ q.frame # p.frame
             \/ failure = "integrity_error" /\ HasId(P, p.frame.id)
             \/ /\ failure = "result_conflict"
                /\ \E q \in P : q.frame.id = p.frame.id /\ q.result # p.result
             \/ failure \in {"provenance_missing", "provenance_conflict"}
             \/ failure = "check_violation" /\ ~HasId(P, p.frame.id) /\ ~Shallow(p)
<1>1. /\ Holds(call[c].seen, Commands(call[c].seen))
      /\ Commands(call[c].seen) \subseteq Commands(archive)
      /\ Holds(archive, Commands(archive)) /\ MadeOnce(catalogue, Commands(archive))
  BY DEF ArchiveInv, ReadsOK, ArchiveOK
<1>2. CommandOf(c) = Command(call[c])
  BY DEF CommandOf, Command
<1>3. MadeCommand(catalogue, Command(call[c]))
  BY <1>2, CommandIsMade DEF ArchiveInv, InTransaction
<1> DEFINE S == call[c].seen
           Q == Commands(S)
           P == Commands(archive)
           k == call[c]
           records == call[c].records
<1>4. Failure(c) = PersistFailure(S, records, archive, k)
  BY DEF Failure
<1> HIDE DEF S, Q, P, k, records
<1>5. /\ Holds(S, Q) /\ Holds(archive, P) /\ Q \subseteq P /\ MadeOnce(catalogue, P)
      /\ MadeCommand(catalogue, Command(k))
  BY <1>1, <1>3 DEF S, Q, P, k
<1> QED
  BY <1>2, <1>4, <1>5, PersistAnswers DEF P, Q, S, k

\* A step of one call that inserts nothing.
LEMMA QuietStep ==
  ASSUME ArchiveInv, BaseInv', NEW c \in Calls, Others(c), UNCHANGED <<catalogue, archive>>,
         ReadsOK(c)', CommitsOK(c)',
         call'[c].outcome = "check_violation" =>
           \/ call[c].outcome = "check_violation" /\ call'[c].result = call[c].result
           \/ call'[c].pc # "idle" /\ ~Shallow(CommandOf(c)')
  PROVE  ArchiveInv'
<1>1. \A d \in Calls : d # c => call'[d] = call[d]
  BY DEF Others
<1>2. ArchiveOK'
  BY DEF ArchiveInv, ArchiveOK
<1>3. \A d \in Calls : ReadsOK(d)' /\ CommitsOK(d)'
  BY <1>1 DEF ArchiveInv, ReadsOK, CommitsOK, CommandOf
<1>4. ASSUME call'[c].pc # "idle", ~Shallow(CommandOf(c)')
      PROVE  \E x \in call'[c].result.failures : x.depth > MaxDepthLevels
  <2>1. CommandOf(c)'.result = call'[c].result
    BY DEF CommandOf
  <2>2. PICK x \in call'[c].result.failures : ~(x.depth <= 30)
    BY <1>4, <2>1 DEF Shallow
  <2>3. x.depth \in Nat
    BY <1>4, <2>2 DEF BaseInv, CommandsOK, Made, FailureMade
  <2> QED
    BY <2>2, <2>3 DEF MaxDepthLevels
<1>5. SchemaAdmits'
  BY <1>1, <1>4 DEF ArchiveInv, SchemaAdmits
<1> QED
  BY <1>2, <1>3, <1>5 DEF ArchiveInv
LEMMA NormalizeKeeps ==
  ASSUME ArchiveInv, BaseInv', NEW c \in Calls, NEW f \in Frames, NEW known \in Cutoffs,
         Normalize(c, f, known)
  PROVE  ArchiveInv'
<1>1. CallsOK
  BY DEF ArchiveInv, BaseInv
<1>2. /\ Others(c) /\ call'[c].pc = "begin" /\ call'[c].outcome = call[c].outcome
  BY <1>1, NormalizeStep
<1>3. call[c].outcome = "none" /\ UNCHANGED <<catalogue, archive>>
  BY <1>1 DEF Normalize, CallsOK, CallOK
<1>4. ReadsOK(c)' /\ CommitsOK(c)'
  BY <1>2 DEF ReadsOK, CommitsOK, InTransaction
<1> QED
  BY <1>2, <1>3, <1>4, QuietStep

LEMMA RequestKeeps ==
  ASSUME ArchiveInv, BaseInv', NEW c \in Calls, RequestLocks(c)
  PROVE  ArchiveInv'
<1>1. CallsOK
  BY DEF ArchiveInv, BaseInv
<1>2. /\ Others(c) /\ call'[c].pc = "lock" /\ call'[c].seen = archive
      /\ call'[c].result = call[c].result /\ call'[c].outcome = call[c].outcome
  BY <1>1, RequestStep
<1>3. UNCHANGED <<catalogue, archive>>
  BY DEF RequestLocks
<1>4. ReadsOK(c)' /\ CommitsOK(c)'
  BY <1>2, <1>3 DEF ReadsOK, CommitsOK, ArchiveInv, ArchiveOK
<1> QED
  BY <1>2, <1>3, <1>4, QuietStep

\* A call that ends without a commit.
LEMMA EndKeeps ==
  ASSUME ArchiveInv, BaseInv', NEW c \in Calls, NEW outcome, End(c, outcome),
         UNCHANGED <<catalogue, archive>>, call[c].pc \in InTransaction,
         outcome = "check_violation" => ~Shallow(CommandOf(c))
  PROVE  ArchiveInv'
<1>1. CallsOK
  BY DEF ArchiveInv, BaseInv
<1>2. /\ Others(c) /\ call'[c].pc \in {"begin", "ended"} /\ call'[c].outcome = outcome
      /\ call'[c].frame = call[c].frame /\ call'[c].result = call[c].result
  BY <1>1, EndStep
<1>3. ReadsOK(c)' /\ CommitsOK(c)'
  BY <1>2 DEF ReadsOK, CommitsOK, InTransaction
<1>4. CommandOf(c)' = CommandOf(c)
  BY <1>2 DEF CommandOf
<1> QED
  BY <1>2, <1>3, <1>4, QuietStep

LEMMA PersistKeeps ==
  ASSUME ArchiveInv, BaseInv', NEW c \in Calls, Persist(c)
  PROVE  ArchiveInv'
<1>1. CallsOK /\ call[c].pc \in InTransaction /\ UNCHANGED <<catalogue, archive>>
  BY DEF ArchiveInv, BaseInv, Persist, InTransaction
<1>2. CASE Failure(c) = "none"
  <2>1. /\ Others(c) /\ call'[c].pc = "commit" /\ call'[c].seen = call[c].seen
        /\ call'[c].frame = call[c].frame /\ call'[c].result = call[c].result
        /\ call'[c].outcome = call[c].outcome
    BY <1>1, <1>2, PersistStep
  <2>2. \/ CommandOf(c) \in Commands(call[c].seen)
        \/ ~HasId(Commands(archive), CommandOf(c).frame.id) /\ Shallow(CommandOf(c))
    BY <1>1, <1>2, PersistMeans
  <2>3. CommandOf(c)' = CommandOf(c) /\ CommandOf(c).frame = call[c].frame
    BY <2>1 DEF CommandOf
  <2>4. ReadsOK(c)'
    BY <1>1, <2>1 DEF ArchiveInv, ReadsOK
  <2>5. CommitsOK(c)'
    BY <1>1, <2>1, <2>2, <2>3 DEF CommitsOK
  <2> QED
    BY <1>1, <2>1, <2>4, <2>5, QuietStep
<1>3. CASE Failure(c) # "none"
  <2>1. End(c, Failure(c))
    BY <1>3 DEF Persist, Failure
  <2>2. Failure(c) = "check_violation" => ~Shallow(CommandOf(c))
    BY <1>1, PersistMeans
  <2> QED
    BY <1>1, <2>1, <2>2, EndKeeps
<1> QED
  BY <1>2, <1>3

\* Two calls that wait for their commits are for different frames.
LEMMA CommitsApart ==
  ASSUME BaseInv, NEW c \in Calls, NEW d \in Calls, c # d,
         call[c].pc = "commit", call[d].pc = "commit"
  PROVE  call[c].frame.id # call[d].frame.id
<1>1. /\ call[c].frame \in Frames /\ call[d].frame \in Frames
      /\ StripesOf(call[c].frame) \subseteq Held(c) /\ StripesOf(call[d].frame) \subseteq Held(d)
  BY DEF BaseInv, CallsOK, CallOK, LocksOK, LockedRight, InTransaction
<1>2. PICK s \in StripesOf(call[c].frame) : TRUE
  BY <1>1, StripesOfFrame
<1>3. stripes[s] = c
  BY <1>1 DEF Held
<1>4. SUFFICES ASSUME call[c].frame.id = call[d].frame.id PROVE FALSE
  OBVIOUS
<1>5. StripesOf(call[d].frame) = StripesOf(call[c].frame)
  BY <1>4 DEF StripesOf
<1>6. stripes[s] = d
  BY <1>1, <1>5 DEF Held
<1> QED
  BY <1>3, <1>6

\* What a commit publishes: the command of the call, beside what is published.
LEMMA CommitPublishes ==
  ASSUME ArchiveInv, NEW c \in Calls, Commit(c)
  PROVE  LET P == Commands(archive)
             p == CommandOf(c)
         IN  /\ p \in P \/ ~HasId(P, p.frame.id)
             /\ Holds(archive', P \cup {p}) /\ MadeOnce(catalogue, P \cup {p})
             /\ Commands(archive') = P \cup {p}
<1> DEFINE P == Commands(archive)
           p == CommandOf(c)
<1>1. /\ call[c].pc = "commit" /\ archive' = Inserted(archive, RowsOf(p.frame, p.result))
      /\ p.frame = call[c].frame
  BY DEF Commit, CommandOf
<1>2. MadeCommand(catalogue, p)
  BY <1>1, CommandIsMade DEF ArchiveInv
<1>3. p \in P \/ (~HasId(P, p.frame.id) /\ Shallow(p))
  BY <1>1 DEF ArchiveInv, ReadsOK, CommitsOK, InTransaction
<1>4. Holds(archive, P) /\ MadeOnce(catalogue, P)
  BY DEF ArchiveInv, ArchiveOK
<1> HIDE DEF P, p
<1>5. Holds(archive', P \cup {p})
  BY <1>1, <1>4, InsertHolds
<1>6. MadeOnce(catalogue, P \cup {p})
  BY <1>2, <1>3, <1>4 DEF MadeOnce, HasId
<1>7. Commands(archive') = P \cup {p}
  BY <1>5, <1>6, HeldCommands
<1> QED
  BY <1>3, <1>5, <1>6, <1>7 DEF P, p

LEMMA CommitKeeps ==
  ASSUME ArchiveInv, BaseInv', NEW c \in Calls, Commit(c)
  PROVE  ArchiveInv'
<1> DEFINE P == Commands(archive)
           p == CommandOf(c)
<1>1. /\ Holds(archive', P \cup {p}) /\ MadeOnce(catalogue, P \cup {p})
      /\ Commands(archive') = P \cup {p}
  BY CommitPublishes
<1>2. UNCHANGED catalogue /\ call[c].pc = "commit" /\ p.frame = call[c].frame
  BY DEF Commit, CommandOf
<1>3. PICK outcome \in {"inserted", "replayed", "lost"} : End(c, outcome)
  BY DEF Commit
<1>4. /\ Others(c) /\ call'[c].pc \in {"begin", "ended"} /\ call'[c].outcome = outcome
      /\ call'[c].result = call[c].result
  BY <1>3, EndStep DEF ArchiveInv, BaseInv
<1>5. ArchiveOK'
  BY <1>1, <1>2 DEF ArchiveOK
<1>6. ReadsOK(c)' /\ CommitsOK(c)'
  BY <1>4 DEF ReadsOK, CommitsOK, InTransaction
<1>7. ASSUME NEW d \in Calls, d # c PROVE ReadsOK(d)' /\ CommitsOK(d)'
  <2>1. call'[d] = call[d] /\ CommandOf(d)' = CommandOf(d)
    BY <1>4, <1>7 DEF Others, CommandOf
  <2>2. ReadsOK(d)'
    BY <1>1, <2>1 DEF ArchiveInv, ReadsOK
  <2>3. call[d].pc = "commit" => call[d].frame.id # p.frame.id
    BY <1>2, <1>7, CommitsApart DEF ArchiveInv
  <2>4. CommitsOK(d)'
    <3> HIDE DEF p, P
    <3>1. call[d].pc = "commit" /\ ~HasId(P, call[d].frame.id) => ~HasId(P \cup {p}, call[d].frame.id)
      BY <2>3 DEF HasId
    <3>2. CommitsOK(d)
      BY DEF ArchiveInv
    <3> QED
      BY <1>1, <2>1, <3>1, <3>2 DEF CommitsOK, P
  <2> QED
    BY <2>2, <2>4
<1>8. SchemaAdmits'
  BY <1>3, <1>4 DEF ArchiveInv, SchemaAdmits, Others
<1> QED
  BY <1>5, <1>6, <1>7, <1>8 DEF ArchiveInv

LEMMA IngestKeeps ==
  ASSUME ArchiveInv, BaseInv', NEW listing \in Listings, NEW t \in Cutoffs, Ingest(listing, t)
  PROVE  ArchiveInv'
<1>1. catalogue \subseteq catalogue' /\ UNCHANGED <<archive, call>>
  BY DEF Ingest
<1>2. MadeOnce(catalogue', Commands(archive))
  BY <1>1 DEF ArchiveInv, ArchiveOK, MadeOnce, MadeCommand, Provenanced
<1> QED
  BY <1>1, <1>2 DEF ArchiveInv, ArchiveOK, ReadsOK, CommitsOK, CommandOf, SchemaAdmits

LEMMA ArchiveStep == ArchiveInv /\ [Next]_vars => ArchiveInv'
<1> SUFFICES ASSUME ArchiveInv, [Next]_vars PROVE ArchiveInv'
  OBVIOUS
<1>1. BaseInv'
  BY BaseStep DEF ArchiveInv
<1>2. CASE UNCHANGED <<catalogue, archive, call>>
  BY <1>1, <1>2 DEF ArchiveInv, ArchiveOK, ReadsOK, CommitsOK, CommandOf, SchemaAdmits
<1>3. ASSUME NEW c \in Calls, AcquireStripe(c) PROVE ArchiveInv'
  BY <1>2, <1>3 DEF AcquireStripe
<1>4. ASSUME NEW c \in Calls, Crash(c) PROVE ArchiveInv'
  BY <1>1, <1>4, EndKeeps DEF Crash, InTransaction
<1>5. CASE UNCHANGED vars \/ BeginScan \/ ReadPage
  BY <1>2, <1>5 DEF vars, BeginScan, ReadPage
<1> QED
  BY <1>1, <1>3, <1>4, <1>5, NormalizeKeeps, RequestKeeps, PersistKeeps, CommitKeeps, IngestKeeps
  DEF Next
-----------------------------------------------------------------------------
(* The reader                                                              *)

PagesRead == UNION {scan.read[i] : i \in DOMAIN scan.read}

\* The reader has read what was there when it began up to its cursor, and nothing
\* beyond it.
ScanInv ==
  /\ IsFiniteSet(archive.results)
  /\ DOMAIN scan = {"pc", "cursor", "read", "before"}
  /\ scan.pc \in {"idle", "scanning", "ended"}
  /\ scan.cursor \in Nat
  /\ scan.read \in Seq(SUBSET archive.results)
  /\ \A i \in DOMAIN scan.read : \A r \in scan.read[i] : r.frame <= scan.cursor
  /\ \A i, j \in DOMAIN scan.read : i # j => scan.read[i] \cap scan.read[j] = {}
  /\ scan.before \subseteq archive.results
  /\ \A r \in scan.before : r.frame <= scan.cursor => r \in PagesRead
  /\ scan.pc = "ended" => scan.before \subseteq PagesRead

\* A page holds the results after the cursor up to its last, and all of them when it is
\* not full.
LEMMA PageOfRest ==
  ASSUME NEW R, IsFiniteSet(R), \A r \in R : r.frame \in Nat
  PROVE  LET page == {r \in R : Cardinality({x \in R : x.frame < r.frame}) < PageLimit}
         IN  /\ \A q \in page, r \in R : r.frame <= q.frame => r \in page
             /\ Cardinality(page) < PageLimit => page = R
<1> DEFINE below(r) == {x \in R : x.frame < r.frame}
           page == {r \in R : Cardinality(below(r)) < PageLimit}
<1>1. PageLimit \in Nat
  BY ArchiveAssumption
<1>2. \A r \in R : IsFiniteSet(below(r)) /\ Cardinality(below(r)) \in Nat
  <2>1. ASSUME NEW r \in R PROVE IsFiniteSet(below(r)) /\ Cardinality(below(r)) \in Nat
    <3>1. below(r) \in SUBSET R
      OBVIOUS
    <3> HIDE DEF below
    <3> QED
      BY <3>1, FS_Subset, FS_CardinalityType
  <2> QED
    BY <2>1
<1>3. ASSUME NEW q \in page, NEW r \in R, r.frame <= q.frame PROVE r \in page
  <2>1. below(r) \in SUBSET below(q)
    BY <1>3
  <2>2. Cardinality(below(r)) <= Cardinality(below(q))
    <3> HIDE DEF below
    <3> QED
      BY <1>2, <2>1, FS_Subset
  <2>3. Cardinality(below(q)) < PageLimit
    OBVIOUS
  <2> HIDE DEF below
  <2>4. Cardinality(below(r)) < PageLimit
    BY <1>1, <1>2, <2>2, <2>3
  <2> QED
    BY <2>4
<1>4. ASSUME Cardinality(page) < PageLimit, page # R PROVE FALSE
  <2> DEFINE left == {r.frame : r \in R \ page}
  <2>1. PICK r \in R \ page : \A x \in R \ page : r.frame <= x.frame
    <3>1. left \in SUBSET Nat /\ left # {}
      BY <1>4
    <3>2. PICK n \in left : \A x \in left : n <= x
      <4> HIDE DEF left
      <4> QED
        BY <3>1, LeastNatural
    <3> HIDE DEF page
    <3> QED
      BY <3>2
  <2>2. page \in SUBSET R
    OBVIOUS
  <2>3. below(r) \in SUBSET page
    <3> HIDE DEF page
    <3> QED
      BY <2>1
  <2>4. ~(Cardinality(below(r)) < PageLimit)
    BY <2>1
  <2> HIDE DEF below, page
  <2>5. IsFiniteSet(page) /\ Cardinality(page) \in Nat
    BY <2>2, FS_Subset, FS_CardinalityType
  <2>6. Cardinality(below(r)) <= Cardinality(page)
    BY <2>3, <2>5, FS_Subset
  <2>7. Cardinality(below(r)) \in Nat
    BY <1>2, <2>1
  <2> QED
    BY <1>1, <1>4, <2>4, <2>5, <2>6, <2>7
<1> QED
  BY <1>3, <1>4

\* A page that is read.
LEMMA ReadPageStep ==
  ASSUME ScanInv, \A r \in archive.results : r.frame \in Nat, ReadPage
  PROVE  ScanInv'
<1> DEFINE R == After(archive, scan.cursor)
           page == Page(archive, scan.cursor)
           frames == {r.frame : r \in page}
           last == Max(frames \cup {scan.cursor})
           place == IF Cardinality(page) < PageLimit THEN "ended" ELSE "scanning"
<1>1. /\ scan' = [scan EXCEPT !.pc = place, !.cursor = last, !.read = Append(scan.read, page)]
      /\ UNCHANGED archive /\ scan.pc = "scanning"
  BY DEF ReadPage
<1>2. IsFiniteSet(R) /\ R \in SUBSET archive.results
  <2>1. R \in SUBSET archive.results
    BY DEF After
  <2> HIDE DEF R
  <2> QED
    BY <2>1, FS_Subset DEF ScanInv
<1>3. /\ \A q \in page, r \in R : r.frame <= q.frame => r \in page
      /\ Cardinality(page) < PageLimit => page = R
      /\ page \in SUBSET R
  <2>1. page = {r \in R : Cardinality({x \in R : x.frame < r.frame}) < PageLimit}
    BY DEF Page
  <2>2. \A r \in R : r.frame \in Nat
    BY <1>2
  <2> HIDE DEF R, page
  <2>3. page \in SUBSET R
    BY <2>1
  <2> QED
    BY <1>2, <2>1, <2>2, <2>3, PageOfRest
<1>4. /\ \A r \in R : r.frame \in Nat /\ r.frame > scan.cursor
      /\ \A r \in archive.results : r.frame <= scan.cursor \/ r \in R
  BY DEF After, ScanInv
<1> HIDE DEF R, page
<1>5. /\ last \in Nat /\ scan.cursor <= last /\ \A r \in page : r.frame <= last
      /\ last = scan.cursor \/ \E r \in page : r.frame = last
  <2> DEFINE all == frames \cup {scan.cursor}
             make == [r \in page |-> r.frame]
  <2>1. IsFiniteSet(frames)
    <3>1. IsFiniteSet(page)
      BY <1>2, <1>3, FS_Subset
    <3>2. make \in Surjection(page, frames)
      BY DEF Surjection
    <3> HIDE DEF make, frames
    <3> QED
      BY <3>1, <3>2, FS_Surjection
  <2>2. frames \in SUBSET Nat /\ scan.cursor \in Nat
    BY <1>3, <1>4 DEF ScanInv
  <2>3. IsFiniteSet(all) /\ all \in SUBSET Nat /\ all # {}
    <3> HIDE DEF frames
    <3> QED
      BY <2>1, <2>2, FS_AddElement
  <2> HIDE DEF all
  <2>4. Max(all) \in all /\ \A x \in all : x <= Max(all)
    BY <2>3, MaxIsGreatest
  <2>5. last = Max(all) /\ scan.cursor \in all /\ \A r \in page : r.frame \in all
    BY DEF all
  <2>6. \A x \in all : x = scan.cursor \/ \E r \in page : r.frame = x
    BY DEF all
  <2> HIDE DEF last
  <2> QED
    BY <2>3, <2>4, <2>5, <2>6
<1> HIDE DEF last, place
<1> DEFINE n == Len(scan.read)
<1>6. /\ scan'.pc = place /\ scan'.cursor = last /\ scan'.read = Append(scan.read, page)
      /\ scan'.before = scan.before /\ DOMAIN scan' = DOMAIN scan
  BY <1>1 DEF ScanInv
<1>7. /\ scan.read \in Seq(SUBSET archive.results) /\ n \in Nat /\ DOMAIN scan.read = 1..n
      /\ page \in SUBSET archive.results
  BY <1>2, <1>3 DEF ScanInv
<1>8. /\ scan'.read \in Seq(SUBSET archive.results) /\ DOMAIN scan'.read = 1..(n + 1)
      /\ \A i \in 1..n : scan'.read[i] = scan.read[i]
      /\ scan'.read[n + 1] = page
  <2> DEFINE s == scan.read
             X == SUBSET archive.results
             t == Append(s, page)
  <2>1. s \in Seq(X) /\ page \in X
    BY <1>7
  <2> HIDE DEF s, X, page
  <2>2. t \in Seq(X) /\ Len(t) = Len(s) + 1 /\ DOMAIN t = 1..Len(t)
    BY <2>1
  <2>3. \A i \in 1..Len(s) : t[i] = s[i]
    BY <2>1
  <2>4. t[Len(s) + 1] = page
    BY <2>1
  <2>5. scan'.read = t /\ n = Len(s)
    BY <1>6 DEF s
  <2> HIDE DEF n, t
  <2> QED
    BY <2>2, <2>3, <2>4, <2>5 DEF s, X
<1> HIDE DEF n
<1>9. \A i \in DOMAIN scan'.read : i = n + 1 \/ i \in 1..n
  BY <1>7, <1>8
<1>10. PagesRead' = PagesRead \cup page
  <2>1. \A i \in 1..n : i \in DOMAIN scan'.read
    BY <1>7, <1>8
  <2>2. n + 1 \in DOMAIN scan'.read
    BY <1>7, <1>8
  <2> QED
    BY <1>7, <1>8, <1>9, <2>1, <2>2 DEF PagesRead
<1>11. \A i \in 1..n : \A r \in scan.read[i] : r \in archive.results /\ r.frame <= scan.cursor
  BY <1>7 DEF ScanInv
<1>12. \A i \in DOMAIN scan'.read : \A r \in scan'.read[i] : r.frame <= scan'.cursor
  <2>1. ASSUME NEW i \in 1..n, NEW r \in scan.read[i] PROVE r.frame <= last
    <3>1. r.frame \in Nat /\ r.frame <= scan.cursor /\ scan.cursor \in Nat
      BY <1>11, <2>1 DEF ScanInv
    <3> QED
      BY <1>5, <3>1
  <2> QED
    BY <1>5, <1>6, <1>8, <1>9, <2>1
<1>13. \A i, j \in DOMAIN scan'.read : i # j => scan'.read[i] \cap scan'.read[j] = {}
  <2>1. \A i \in 1..n : scan.read[i] \cap page = {}
    <3>1. ASSUME NEW i \in 1..n, NEW r \in scan.read[i], r \in page PROVE FALSE
      <4>1. r.frame <= scan.cursor /\ r.frame > scan.cursor /\ r.frame \in Nat /\ scan.cursor \in Nat
        BY <1>3, <1>4, <1>11, <3>1 DEF ScanInv
      <4> QED
        BY <4>1
    <3> QED
      BY <3>1
  <2>2. \A i, j \in 1..n : i # j => scan.read[i] \cap scan.read[j] = {}
    BY <1>7 DEF ScanInv
  <2> QED
    BY <1>8, <1>9, <2>1, <2>2
<1>14. \A r \in scan'.before : r.frame <= scan'.cursor => r \in PagesRead'
  <2>1. ASSUME NEW r \in scan.before, r.frame <= last PROVE r \in PagesRead \cup page
    <3>1. r \in archive.results /\ r.frame \in Nat /\ scan.cursor \in Nat
      BY <2>1 DEF ScanInv
    <3>2. CASE r.frame <= scan.cursor
      BY <2>1, <3>2 DEF ScanInv
    <3>3. CASE ~(r.frame <= scan.cursor)
      <4>1. r \in R
        BY <1>4, <3>1, <3>3
      <4>2. last # scan.cursor
        BY <2>1, <3>3
      <4>3. PICK q \in page : q.frame = last
        BY <1>5, <4>2
      <4> QED
        BY <1>3, <2>1, <4>1, <4>3
    <3> QED
      BY <3>2, <3>3
  <2> QED
    BY <1>6, <1>10, <2>1
<1>15. scan'.pc = "ended" => scan'.before \subseteq PagesRead'
  <2>1. SUFFICES ASSUME place = "ended" PROVE scan.before \subseteq PagesRead \cup page
    BY <1>6, <1>10
  <2>2. page = R
    BY <1>3, <2>1 DEF place
  <2> QED
    BY <1>4, <2>2 DEF ScanInv
<1>16. scan'.pc \in {"idle", "scanning", "ended"} /\ scan'.cursor \in Nat
  BY <1>5, <1>6 DEF place
<1>17. /\ IsFiniteSet(archive'.results) /\ DOMAIN scan' = {"pc", "cursor", "read", "before"}
       /\ scan'.before \subseteq archive'.results
       /\ scan'.read \in Seq(SUBSET archive'.results)
  BY <1>1, <1>6, <1>8 DEF ScanInv
<1> QED
  BY <1>12, <1>13, <1>14, <1>15, <1>16, <1>17 DEF ScanInv

LEMMA BeginScanStep ==
  ASSUME ScanInv, \A r \in archive.results : r.frame \in Nat \ {0}, BeginScan
  PROVE  ScanInv'
<1>1. scan' = [pc |-> "scanning", cursor |-> 0, read |-> <<>>, before |-> archive.results]
      /\ UNCHANGED archive
  BY DEF BeginScan
<1>2. /\ scan'.pc = "scanning" /\ scan'.cursor = 0 /\ scan'.read = <<>> /\ scan'.before = archive.results
      /\ DOMAIN scan' = {"pc", "cursor", "read", "before"}
  BY <1>1
<1>3. DOMAIN scan'.read = {} /\ scan'.read \in Seq(SUBSET archive.results)
  BY <1>2
<1>4. \A r \in scan'.before : ~(r.frame <= scan'.cursor)
  BY <1>2
<1> QED
  BY <1>1, <1>2, <1>3, <1>4 DEF ScanInv

\* Results that are committed meanwhile.
LEMMA CommitStep ==
  ASSUME ScanInv, NEW c \in Calls, Commit(c), DOMAIN archive = DOMAIN EmptyArchive
  PROVE  ScanInv'
<1>1. archive' = Inserted(archive, RowsOf(call[c].frame, call[c].result)) /\ UNCHANGED scan
  BY DEF Commit
<1>2. archive'.results = archive.results \cup {ResultRow(call[c].result)}
  BY <1>1 DEF Inserted, RowsOf, EmptyArchive
<1> DEFINE R == archive.results
           new == archive'.results
<1>3. IsFiniteSet(R)
  BY DEF ScanInv
<1>4. IsFiniteSet(new) /\ R \subseteq new
  BY <1>2, <1>3, FS_AddElement
<1> HIDE DEF R, new
<1>5. \A s \in Seq(SUBSET R) : s \in Seq(SUBSET new)
  BY <1>4
<1>6. scan.read \in Seq(SUBSET new) /\ scan.before \subseteq new
  BY <1>4, <1>5 DEF ScanInv, R
<1> QED
  BY <1>1, <1>4, <1>6 DEF ScanInv, PagesRead, new

\* The committed results are of frame identities.
LEMMA ResultFrames ==
  ASSUME ArchiveInv
  PROVE  (\A r \in archive.results : r.frame \in Nat \ {0}) /\ DOMAIN archive = DOMAIN EmptyArchive
<1>1. Holds(archive, Commands(archive)) /\ MadeOnce(catalogue, Commands(archive))
  BY DEF ArchiveInv, ArchiveOK
<1>2. ASSUME NEW r \in archive.results PROVE r.frame \in Nat \ {0}
  <2>1. PICK p \in Commands(archive) : r = ResultRow(p.result)
    BY <1>1 DEF Holds
  <2>2. p.frame \in Frames /\ p.result.frame = p.frame.id
    BY <1>1 DEF MadeOnce, MadeCommand, Made
  <2>3. r.frame = p.frame.id
    BY <2>1, <2>2, ResultColumns
  <2> QED
    BY <2>2, <2>3, ArchiveAssumption DEF FrameIds
<1> QED
  BY <1>1, <1>2 DEF Holds

LEMMA ScanStep == ArchiveInv /\ ScanInv /\ [Next]_vars => ScanInv'
<1> SUFFICES ASSUME ArchiveInv, ScanInv, [Next]_vars PROVE ScanInv'
  OBVIOUS
<1>1. CASE UNCHANGED <<archive, scan>>
  BY <1>1 DEF ScanInv, PagesRead
<1>2. ASSUME NEW c \in Calls, RequestLocks(c) \/ AcquireStripe(c) \/ Persist(c) \/ Crash(c) PROVE ScanInv'
  BY <1>1, <1>2 DEF RequestLocks, AcquireStripe, Persist, Crash
<1>3. ASSUME NEW c \in Calls, Commit(c) PROVE ScanInv'
  BY <1>3, CommitStep, ResultFrames
<1>4. CASE \/ UNCHANGED vars
           \/ \E c \in Calls, f \in Frames, known \in Cutoffs : Normalize(c, f, known)
           \/ \E listing \in Listings, t \in Cutoffs : Ingest(listing, t)
  BY <1>1, <1>4 DEF vars, Normalize, Ingest
<1>5. CASE BeginScan
  BY <1>5, BeginScanStep, ResultFrames
<1>6. CASE ReadPage
  BY <1>6, ReadPageStep, ResultFrames
<1> QED
  BY <1>2, <1>3, <1>4, <1>5, <1>6 DEF Next

-----------------------------------------------------------------------------
(* The theorems                                                            *)

LEMMA ArchiveInit == Init => ArchiveInv /\ ScanInv
<1> SUFFICES ASSUME Init PROVE ArchiveInv /\ ScanInv
  OBVIOUS
<1>1. archive = EmptyArchive /\ \A c \in Calls : call[c] = Idle
  BY DEF Init
<1>2. Commands(archive) = {}
  BY <1>1 DEF Commands, EmptyArchive
<1>3. Holds(archive, {})
  BY <1>1 DEF Holds, EmptyArchive
<1>4. ArchiveOK
  BY <1>2, <1>3 DEF ArchiveOK, MadeOnce
<1>5. Idle.pc = "idle" /\ Idle.outcome = "none"
  BY DEF Idle
<1>6. ArchiveInv
  BY <1>1, <1>4, <1>5, BaseInit DEF ArchiveInv, ReadsOK, CommitsOK, SchemaAdmits, InTransaction
<1>7. /\ scan.pc = "idle" /\ scan.cursor = 0 /\ scan.read = <<>> /\ scan.before = {}
      /\ DOMAIN scan = {"pc", "cursor", "read", "before"}
  BY DEF Init
<1>8. archive.results = {} /\ IsFiniteSet({})
  BY <1>1, FS_EmptySet DEF EmptyArchive
<1>9. ScanInv
  BY <1>7, <1>8 DEF ScanInv, PagesRead
<1> QED
  BY <1>6, <1>9

LEMMA ArchiveHolds == Spec => [](ArchiveInv /\ ScanInv)
<1>1. Init => ArchiveInv /\ ScanInv
  BY ArchiveInit
<1>2. (ArchiveInv /\ ScanInv) /\ [Next]_vars => (ArchiveInv /\ ScanInv)'
  BY ArchiveStep, ScanStep
<1> QED
  BY <1>1, <1>2, PTL DEF Spec

\* Every committed result is read back from its rows as the one they were made of
\* (load_result_aggregate).
THEOREM ResultsLoad == Spec => []AggregatesLoad
<1>1. ArchiveInv => AggregatesLoad
  BY CommandsLoad DEF ArchiveInv, ArchiveOK
<1> QED
  BY <1>1, ArchiveHolds, PTL

\* Every stored quote names records that were known at its cutoff and list its key for
\* its subject (_resolve_quote_provenance).
THEOREM QuotesAreProvenanced == Spec => []ProvenanceHolds
<1>1. ArchiveInv => ProvenanceHolds
  BY CommandsProvenanced DEF ArchiveInv, ArchiveOK
<1> QED
  BY <1>1, ArchiveHolds, PTL

\* The tables refuse no result that normalization makes, but for the depth of a feed that
\* has too many levels (the row checks of models.py).
THEOREM TablesAdmit == Spec => []SchemaAdmits
<1>1. ArchiveInv => SchemaAdmits
  BY DEF ArchiveInv
<1> QED
  BY <1>1, ArchiveHolds, PTL

\* A reader of pages misses no result that was there when it began, and meets none twice
\* (scan_normalization_results).
THEOREM ScansAreComplete == Spec => []ScanIsComplete
<1>1. ScanInv => ScanIsComplete
  BY DEF ScanInv, ScanIsComplete, PagesRead
<1> QED
  BY <1>1, ArchiveHolds, PTL

\* The tables accept what is in them, and a call outside a transaction holds no lock.
THEOREM ArchiveTyped == Spec => []TypeOK
<1>1. ASSUME ArchiveInv, ScanInv PROVE TypeOK
  <2>1. Holds(archive, Commands(archive)) /\ MadeOnce(catalogue, Commands(archive))
    BY <1>1 DEF ArchiveInv, ArchiveOK
  <2>2. Admitted(archive, catalogue)
    BY <2>1, CommandsAdmitted
  <2>3. archive.frames \subseteq Frames
    BY <2>1 DEF Holds, MadeOnce, MadeCommand
  <2>4. \A r \in catalogue : r.sem \in Listings /\ r.recorded_at \in Cutoffs
    BY <1>1 DEF ArchiveInv, BaseInv, CommandsOK, CataloguesOK
  <2>5. CallsOK /\ LocksOK
    BY <1>1 DEF ArchiveInv, BaseInv
  <2>6. ASSUME NEW c \in Calls
        PROVE  /\ call[c].pc \in {"idle", "begin", "lock", "commit", "ended"}
               /\ call[c].frame \in Frames \cup {Nobody}
               /\ call[c].pc \notin {"lock", "commit"} => Held(c) = {}
    BY <2>5 DEF CallsOK, CallOK, LocksOK, LockedRight, InTransaction
  <2> QED
    BY <1>1, <2>2, <2>3, <2>4, <2>5, <2>6 DEF TypeOK, LocksOK, ScanInv
<1> QED
  BY <1>1, ArchiveHolds, PTL

-----------------------------------------------------------------------------
(* The archive implements EventArchive                                     *)

\* What is published by the rows A, what the callers have asked and what they were told.
PublishedBy(A) ==
  [id \in {r.frame : r \in A.results} |->
     [frame |-> CHOOSE f \in A.frames : f.id = id,
      result |-> (CHOOSE r \in A.results : r.frame = id).full_hash]]

Asked == [c \in Calls |-> CommandOf(c)]
Told == [c \in Calls |-> IF call[c].pc = "ended" THEN call[c].outcome ELSE "none"]

LEMMA PublishedCommands ==
  ASSUME NEW A, NEW P, Holds(A, P), NEW records, MadeOnce(records, P)
  PROVE  /\ DOMAIN PublishedBy(A) = {p.frame.id : p \in P}
         /\ \A p \in P : PublishedBy(A)[p.frame.id] = p
         /\ PublishedBy(A) = [id \in {p.frame.id : p \in P} |-> PublishedBy(A)[id]]
<1>1. \A p \in P : /\ p = [frame |-> p.frame, result |-> p.result]
                   /\ ResultRow(p.result).frame = p.frame.id
                   /\ ResultRow(p.result).full_hash = p.result
  BY ResultColumns DEF MadeOnce, MadeCommand, Made
<1>2. {r.frame : r \in A.results} = {p.frame.id : p \in P}
  BY <1>1 DEF Holds
<1>3. ASSUME NEW p \in P
      PROVE  PublishedBy(A)[p.frame.id] = p
  <2> DEFINE f == CHOOSE f \in A.frames : f.id = p.frame.id
             r == CHOOSE r \in A.results : r.frame = p.frame.id
  <2>1. f = p.frame
    <3>1. p.frame \in A.frames /\ \A g \in A.frames : g.id = p.frame.id => g = p.frame
      BY DEF Holds, MadeOnce
    <3> QED
      BY <3>1
  <2>2. r = ResultRow(p.result)
    <3>1. ResultRow(p.result) \in A.results
      BY DEF Holds
    <3>2. \A s \in A.results : s.frame = p.frame.id => s = ResultRow(p.result)
      BY <1>1 DEF Holds, MadeOnce
    <3> QED
      BY <1>1, <3>1, <3>2
  <2>3. PublishedBy(A)[p.frame.id] = [frame |-> f, result |-> r.full_hash]
    BY <1>2, <1>3 DEF PublishedBy
  <2> HIDE DEF f, r
  <2> QED
    BY <1>1, <1>3, <2>1, <2>2, <2>3
<1>4. DOMAIN PublishedBy(A) = {r.frame : r \in A.results}
  BY DEF PublishedBy
<1>5. PublishedBy(A) = [id \in {r.frame : r \in A.results} |-> PublishedBy(A)[id]]
  BY DEF PublishedBy
<1> QED
  BY <1>2, <1>3, <1>4, <1>5

\* A step that leaves the commands published leaves what is published.
LEMMA PublishedSame ==
  ASSUME NEW A, NEW B, NEW P, Holds(A, P), Holds(B, P), NEW records, MadeOnce(records, P)
  PROVE  PublishedBy(A) = PublishedBy(B)
<1> DEFINE ids == {p.frame.id : p \in P}
           a == PublishedBy(A)
           b == PublishedBy(B)
<1>1. a = [id \in ids |-> a[id]] /\ \A p \in P : a[p.frame.id] = p
  BY PublishedCommands
<1>2. b = [id \in ids |-> b[id]] /\ \A p \in P : b[p.frame.id] = p
  BY PublishedCommands
<1>3. \A id \in ids : a[id] = b[id]
  BY <1>1, <1>2
<1> HIDE DEF ids, a, b
<1> QED
  BY <1>1, <1>2, <1>3 DEF a, b

\* A step that publishes a command.
Publishing(a, p) ==
  [id \in DOMAIN a \cup {p.frame.id} |-> IF id = p.frame.id THEN p ELSE a[id]]

LEMMA PublishedMore ==
  ASSUME NEW A, NEW B, NEW P, NEW p, Holds(A, P), Holds(B, P \cup {p}), NEW records,
         MadeOnce(records, P), MadeOnce(records, P \cup {p}), ~HasId(P, p.frame.id)
  PROVE  LET a == PublishedBy(A)
             b == PublishedBy(B)
         IN  /\ p.frame.id \in DOMAIN b \ DOMAIN a
             /\ b = Publishing(a, p)
<1> DEFINE ids == {q.frame.id : q \in P}
           more == {q.frame.id : q \in P \cup {p}}
           a == PublishedBy(A)
           b == PublishedBy(B)
<1>1. DOMAIN a = ids /\ \A q \in P : a[q.frame.id] = q
  BY PublishedCommands
<1>2. /\ DOMAIN b = more /\ b = [id \in more |-> b[id]]
      /\ \A q \in P \cup {p} : b[q.frame.id] = q
  BY PublishedCommands
<1>3. more = ids \cup {p.frame.id} /\ p.frame.id \notin ids
  BY DEF HasId
<1>4. \A id \in ids : b[id] = a[id]
  BY <1>1, <1>2
<1>5. b[p.frame.id] = p
  BY <1>2
<1> HIDE DEF ids, more, a, b
<1>6. b = [id \in ids \cup {p.frame.id} |-> IF id = p.frame.id THEN p ELSE a[id]]
  BY <1>2, <1>3, <1>4, <1>5
<1> QED
  BY <1>1, <1>2, <1>3, <1>6 DEF a, b, Publishing

\* What a step of a call makes of the commands and the answers.
LEMMA AnswerStep ==
  ASSUME CallsOK, NEW c \in Calls, Others(c), call[c].pc \in InTransaction,
         call'[c].frame = call[c].frame, call'[c].result = call[c].result
  PROVE  /\ Asked' = Asked
         /\ Asked[c] = CommandOf(c) /\ Told[c] = "none" /\ CommandOf(c) # NoCommand
         /\ call'[c].pc # "ended" => Told' = Told
         /\ call'[c].pc = "ended" => /\ Told' = [Told EXCEPT ![c] = call'[c].outcome]
                                     /\ Told'[c] = call'[c].outcome
<1>1. \A d \in Calls : d # c => call'[d] = call[d]
  BY DEF Others
<1>2. \A d \in Calls : CommandOf(d)' = CommandOf(d)
  BY <1>1 DEF CommandOf
<1>3. Asked' = Asked
  BY <1>2 DEF Asked
<1>4. CommandOf(c) # NoCommand
  <2>1. CommandOf(c).frame \in Frames /\ NoCommand.frame = Nobody
    BY DEF CallsOK, CallOK, InTransaction, CommandOf, NoCommand
  <2> QED
    BY <2>1, ArchiveAssumption
<1>5. Asked[c] = CommandOf(c) /\ Told[c] = "none"
  BY DEF Asked, Told, InTransaction
<1>6. call'[c].pc # "ended" => Told' = Told
  BY <1>1 DEF Told, InTransaction
<1>7. call'[c].pc = "ended" => Told' = [Told EXCEPT ![c] = call'[c].outcome]
  BY <1>1 DEF Told
<1>8. call'[c].pc = "ended" => Told'[c] = call'[c].outcome
  BY DEF Told
<1> QED
  BY <1>3, <1>4, <1>5, <1>6, <1>7, <1>8

\* The three variables of EventArchive, in terms of those of this module.
LEMMA AbstractStutter ==
  ASSUME PublishedBy(archive') = PublishedBy(archive), Asked' = Asked, Told' = Told
  PROVE  UNCHANGED Archive!vars
BY DEF Archive!vars, Published, PublishedBy, Asked, Told

LEMMA AbstractAsk ==
  ASSUME NEW c \in Calls, Asked[c] = NoCommand, Asked'[c] # NoCommand,
         Asked' = [Asked EXCEPT ![c] = Asked'[c]],
         PublishedBy(archive') = PublishedBy(archive), Told' = Told
  PROVE  Archive!Ask(c)
BY DEF Archive!Ask, Published, PublishedBy, Asked, Told

LEMMA AbstractPublish ==
  ASSUME NEW c \in Calls, Asked[c] # NoCommand, Told[c] = "none",
         Asked[c].frame.id \in DOMAIN PublishedBy(archive') \ DOMAIN PublishedBy(archive),
         PublishedBy(archive') = Publishing(PublishedBy(archive), Asked[c]),
         Told' = [Told EXCEPT ![c] = "inserted"] \/ Told' = Told,
         Asked' = Asked
  PROVE  Archive!Publish(c)
BY DEF Archive!Publish, Archive!Waiting, Archive!Id, Published, PublishedBy, Publishing, Asked, Told

LEMMA AbstractConfirm ==
  ASSUME NEW c \in Calls, Asked[c] # NoCommand, Told[c] = "none",
         Told' = [Told EXCEPT ![c] = "replayed"],
         Asked[c].frame.id \in DOMAIN PublishedBy(archive),
         PublishedBy(archive)[Asked[c].frame.id] = Asked[c],
         PublishedBy(archive') = PublishedBy(archive), Asked' = Asked
  PROVE  Archive!Confirm(c)
BY DEF Archive!Confirm, Archive!Waiting, Archive!Id, Published, PublishedBy, Asked, Told

LEMMA AbstractRefuse ==
  ASSUME NEW c \in Calls, Asked[c] # NoCommand, Told[c] = "none", Told'[c] # "none",
         Told' = [Told EXCEPT ![c] = Told'[c]],
         Archive!MayRefuse(c, Told'[c]),
         PublishedBy(archive') = PublishedBy(archive), Asked' = Asked
  PROVE  Archive!Refuse(c)
BY DEF Archive!Refuse, Archive!Waiting, Published, PublishedBy, Asked, Told

LEMMA AbstractReasons ==
  ASSUME NEW c \in Calls, NEW reason,
         LET a == PublishedBy(archive)
             id == Asked[c].frame.id
         IN  \/ /\ reason \in {"frame_content_mismatch", "capture_identity_conflict"}
                /\ id \in DOMAIN a /\ a[id].frame # Asked[c].frame
             \/ /\ reason \in {"result_conflict", "event_conflict"}
                /\ id \in DOMAIN a /\ a[id].result # Asked[c].result
             \/ reason = "integrity_error" /\ id \in DOMAIN a
             \/ reason = "provenance_missing" \/ reason = "provenance_conflict"
             \/ reason = "check_violation" /\ id \notin DOMAIN a
  PROVE  Archive!MayRefuse(c, reason)
BY DEF Archive!MayRefuse, Archive!Id, Published, PublishedBy, Asked

\* A step that leaves the rows alone publishes nothing.
LEMMA NormalizeAsks ==
  ASSUME ArchiveInv, NEW c \in Calls, NEW f \in Frames, NEW known \in Cutoffs,
         Normalize(c, f, known)
  PROVE  Archive!Ask(c)
<1>1. CallsOK /\ UNCHANGED archive /\ call[c].pc = "idle"
  BY DEF ArchiveInv, BaseInv, Normalize
<1>2. Others(c) /\ call'[c].pc = "begin" /\ call'[c].frame = f
  BY <1>1, NormalizeStep
<1>3. \A d \in Calls : d # c => call'[d] = call[d]
  BY <1>2 DEF Others
<1>4. Asked[c] = NoCommand
  BY <1>1 DEF CallsOK, CallOK, Asked, CommandOf, NoCommand
<1>5. Asked'[c] # NoCommand
  <2>1. Asked'[c].frame = f /\ NoCommand.frame = Nobody
    BY <1>2 DEF Asked, CommandOf, NoCommand
  <2> QED
    BY <2>1, ArchiveAssumption
<1>6. Asked' = [Asked EXCEPT ![c] = Asked'[c]]
  <2>1. \A d \in Calls : d # c => CommandOf(d)' = CommandOf(d)
    BY <1>3 DEF CommandOf
  <2> QED
    BY <2>1 DEF Asked
<1>7. Told' = Told
  BY <1>1, <1>2, <1>3 DEF Told
<1>8. PublishedBy(archive') = PublishedBy(archive)
  BY <1>1
<1> QED
  BY <1>4, <1>5, <1>6, <1>7, <1>8, AbstractAsk

\* A transaction that has not ended, or whose end its caller does not learn, says nothing.
LEMMA SilentStep ==
  ASSUME ArchiveInv, NEW c \in Calls,
         RequestLocks(c) \/ AcquireStripe(c) \/ Crash(c) \/ (Persist(c) /\ Failure(c) = "none")
  PROVE  UNCHANGED Archive!vars
<1>1. CallsOK /\ UNCHANGED archive
  BY DEF ArchiveInv, BaseInv, RequestLocks, AcquireStripe, Crash, Persist
<1>2. CASE AcquireStripe(c)
  <2>1. call' = call
    BY <1>2 DEF AcquireStripe
  <2>2. Asked' = Asked /\ Told' = Told
    BY <2>1 DEF Asked, Told, CommandOf
  <2> QED
    BY <1>1, <2>2, AbstractStutter
<1>3. CASE ~AcquireStripe(c)
  <2>1. /\ Others(c) /\ call'[c].pc # "ended" /\ call[c].pc # "ended"
        /\ call'[c].frame = call[c].frame /\ call'[c].result = call[c].result
    <3>1. CASE RequestLocks(c)
      BY <1>1, <3>1, RequestStep DEF RequestLocks
    <3>2. CASE Crash(c)
      <4>1. End(c, "lost") /\ call[c].pc \in {"lock", "commit"}
        BY <3>2 DEF Crash
      <4> QED
        BY <1>1, <4>1, EndStep
    <3>3. CASE Persist(c) /\ Failure(c) = "none"
      BY <1>1, <3>3, PersistStep DEF Persist
    <3> QED
      BY <1>3, <3>1, <3>2, <3>3
  <2>2. \A d \in Calls : d # c => call'[d] = call[d]
    BY <2>1 DEF Others
  <2>3. \A d \in Calls : CommandOf(d)' = CommandOf(d)
    BY <2>1, <2>2 DEF CommandOf
  <2>4. Asked' = Asked
    BY <2>3 DEF Asked
  <2>5. Told' = Told
    BY <2>1, <2>2 DEF Told
  <2> QED
    BY <1>1, <2>4, <2>5, AbstractStutter
<1> QED
  BY <1>2, <1>3

\* What a caller is told when its transaction raises is true of what is published.
LEMMA PersistRefuses ==
  ASSUME ArchiveInv, NEW c \in Calls, Persist(c), Failure(c) # "none"
  PROVE  Archive!Refuse(c)
<1> DEFINE P == Commands(archive)
           p == CommandOf(c)
           a == PublishedBy(archive)
           failure == Failure(c)
<1>1. CallsOK /\ UNCHANGED archive /\ call[c].pc \in InTransaction /\ End(c, failure)
  BY DEF ArchiveInv, BaseInv, Persist, Failure, InTransaction
<1>2. DOMAIN a = {q.frame.id : q \in P} /\ \A q \in P : a[q.frame.id] = q
  BY PublishedCommands DEF ArchiveInv, ArchiveOK
<1>3. \/ /\ failure \in {"frame_content_mismatch", "capture_identity_conflict"}
         /\ \E q \in P : q.frame.id = p.frame.id /\ q.frame # p.frame
      \/ failure = "integrity_error" /\ HasId(P, p.frame.id)
      \/ /\ failure = "result_conflict"
         /\ \E q \in P : q.frame.id = p.frame.id /\ q.result # p.result
      \/ failure \in {"provenance_missing", "provenance_conflict"}
      \/ failure = "check_violation" /\ ~HasId(P, p.frame.id) /\ ~Shallow(p)
  BY <1>1, PersistMeans
<1> HIDE DEF failure
<1>4. failure # "lost" /\ failure # "none"
  BY <1>3
<1>5. /\ Others(c) /\ call'[c].pc = "ended" /\ call'[c].outcome = failure
      /\ call'[c].frame = call[c].frame /\ call'[c].result = call[c].result
  BY <1>1, <1>4, EndStep
<1>6. /\ Asked' = Asked /\ Asked[c] = p /\ Told[c] = "none" /\ p # NoCommand
      /\ Told' = [Told EXCEPT ![c] = failure] /\ Told'[c] = failure
  BY <1>1, <1>5, AnswerStep
<1> HIDE DEF P, p, a
<1>7. \/ /\ failure \in {"frame_content_mismatch", "capture_identity_conflict"}
         /\ p.frame.id \in DOMAIN a /\ a[p.frame.id].frame # p.frame
      \/ failure = "integrity_error" /\ p.frame.id \in DOMAIN a
      \/ /\ failure = "result_conflict"
         /\ p.frame.id \in DOMAIN a /\ a[p.frame.id].result # p.result
      \/ failure \in {"provenance_missing", "provenance_conflict"}
      \/ failure = "check_violation" /\ p.frame.id \notin DOMAIN a
  BY <1>2, <1>3 DEF HasId
<1>8. Archive!MayRefuse(c, failure)
  BY <1>6, <1>7, AbstractReasons DEF a
<1> QED
  BY <1>1, <1>4, <1>6, <1>8, AbstractRefuse DEF P, p, a

\* A commit publishes a command whose frame had none, or finds that it was published.
LEMMA CommitAnswers ==
  ASSUME ArchiveInv, NEW c \in Calls, Commit(c)
  PROVE  Archive!Publish(c) \/ Archive!Confirm(c) \/ UNCHANGED Archive!vars
<1> DEFINE P == Commands(archive)
           p == CommandOf(c)
           a == PublishedBy(archive)
           b == PublishedBy(archive')
           again == SameResult(call[c].seen, RowsOf(call[c].frame, call[c].result))
           answer == IF again = {} THEN "inserted" ELSE "replayed"
<1>1. CallsOK /\ call[c].pc \in InTransaction /\ call[c].pc = "commit"
  BY DEF ArchiveInv, BaseInv, Commit, InTransaction
<1>2. /\ p \in P \/ ~HasId(P, p.frame.id)
      /\ Holds(archive', P \cup {p}) /\ MadeOnce(catalogue, P \cup {p})
      /\ Holds(archive, P) /\ MadeOnce(catalogue, P)
  BY CommitPublishes DEF ArchiveInv, ArchiveOK
<1>3. again = {} <=> ~(p \in P)
  <2> DEFINE S == Commands(call[c].seen)
  <2>1. Holds(call[c].seen, S) /\ S \subseteq P
    BY <1>1 DEF ArchiveInv, ReadsOK
  <2>2. MadeOnce(catalogue, S)
    BY <1>2, <2>1 DEF MadeOnce
  <2>3. MadeCommand(catalogue, p)
    BY <1>1, CommandIsMade DEF ArchiveInv, InTransaction
  <2>4. p.frame = call[c].frame /\ p.result = call[c].result
    BY DEF CommandOf
  <2>5. again = {} <=> ~HasId(S, p.frame.id)
    <3> HIDE DEF S, p
    <3>1. SameResult(call[c].seen, RowsOf(p.frame, p.result)) = {} <=> ~HasId(S, p.frame.id)
      BY <2>1, <2>2, <2>3, StoredIdentities
    <3> QED
      BY <2>4, <3>1
  <2>6. p \in S \/ ~HasId(P, p.frame.id)
    BY <1>1, <2>4 DEF ArchiveInv, CommitsOK
  <2> HIDE DEF S, P, p, again
  <2>7. CASE p \in S
    BY <2>1, <2>5, <2>7 DEF HasId
  <2>8. CASE ~HasId(P, p.frame.id)
    BY <2>1, <2>5, <2>8 DEF HasId
  <2> QED
    BY <2>6, <2>7, <2>8
<1>4. End(c, answer) \/ End(c, "lost")
  BY DEF Commit
<1>5. answer \in {"inserted", "replayed"}
  OBVIOUS
<1> HIDE DEF again
<1>6. /\ Asked' = Asked /\ Asked[c] = p /\ Told[c] = "none" /\ p # NoCommand
      /\ Told' = [Told EXCEPT ![c] = answer] \/ Told' = Told
  <2> HIDE DEF answer
  <2>1. CASE End(c, answer)
    <3>1. /\ Others(c) /\ call'[c].pc = "ended" /\ call'[c].outcome = answer
          /\ call'[c].frame = call[c].frame /\ call'[c].result = call[c].result
      BY <1>1, <1>5, <2>1, EndStep
    <3> QED
      BY <1>1, <3>1, AnswerStep
  <2>2. CASE End(c, "lost")
    <3>1. /\ Others(c) /\ call'[c].pc = "begin"
          /\ call'[c].frame = call[c].frame /\ call'[c].result = call[c].result
      BY <1>1, <2>2, EndStep
    <3> QED
      BY <1>1, <3>1, AnswerStep
  <2> QED
    BY <1>4, <2>1, <2>2
<1>7. CASE p \in P
  <2>1. P \cup {p} = P
    BY <1>7
  <2>2. b = a
    BY <1>2, <2>1, PublishedSame
  <2>3. p.frame.id \in DOMAIN a /\ a[p.frame.id] = p
    <3>1. DOMAIN a = {q.frame.id : q \in P} /\ \A q \in P : a[q.frame.id] = q
      BY PublishedCommands DEF ArchiveInv, ArchiveOK
    <3> HIDE DEF P, p, a
    <3> QED
      BY <1>7, <3>1
  <2>4. answer = "replayed"
    BY <1>3, <1>7
  <2> HIDE DEF answer, p
  <2> QED
    BY <1>6, <2>2, <2>3, <2>4, AbstractConfirm, AbstractStutter
<1>8. CASE p \notin P
  <2>1. /\ p.frame.id \in DOMAIN b \ DOMAIN a
        /\ b = Publishing(a, p)
    <3> HIDE DEF P, p
    <3> QED
      BY <1>2, <1>8, PublishedMore
  <2>2. answer = "inserted"
    <3> HIDE DEF P, p
    <3> QED
      BY <1>3, <1>8
  <2> HIDE DEF answer, p
  <2> QED
    BY <1>6, <2>1, <2>2, AbstractPublish
<1> QED
  BY <1>7, <1>8

LEMMA ArchiveAnswers == ArchiveInv /\ [Next]_vars => [Archive!Next]_(Archive!vars)
<1> SUFFICES ASSUME ArchiveInv, [Next]_vars PROVE Archive!Next \/ UNCHANGED Archive!vars
  OBVIOUS
<1>1. ASSUME NEW c \in Calls,
             Archive!Ask(c) \/ Archive!Publish(c) \/ Archive!Confirm(c) \/ Archive!Refuse(c)
      PROVE  Archive!Next
  BY <1>1 DEF Archive!Next
<1>2. CASE UNCHANGED <<archive, call>>
  <2>1. Asked' = Asked /\ Told' = Told
    BY <1>2 DEF Asked, Told, CommandOf
  <2> QED
    BY <1>2, <2>1, AbstractStutter
<1>3. ASSUME NEW c \in Calls,
             RequestLocks(c) \/ AcquireStripe(c) \/ Persist(c) \/ Commit(c) \/ Crash(c)
      PROVE  Archive!Next \/ UNCHANGED Archive!vars
  BY <1>1, <1>3, SilentStep, PersistRefuses, CommitAnswers
<1>4. ASSUME NEW c \in Calls, NEW f \in Frames, NEW known \in Cutoffs, Normalize(c, f, known)
      PROVE  Archive!Next
  BY <1>1, <1>4, NormalizeAsks
<1>5. UNCHANGED <<archive, call>> \/ \E c \in Calls :
        \/ RequestLocks(c) \/ AcquireStripe(c) \/ Persist(c) \/ Commit(c) \/ Crash(c)
        \/ \E f \in Frames, known \in Cutoffs : Normalize(c, f, known)
  BY DEF Next, vars, Ingest, BeginScan, ReadPage
<1> QED
  BY <1>2, <1>3, <1>4, <1>5

LEMMA ArchiveBegins == Init => Archive!Init
<1> SUFFICES ASSUME Init PROVE Archive!Init
  OBVIOUS
<1>1. archive = EmptyArchive /\ \A c \in Calls : call[c] = Idle
  BY DEF Init
<1>2. Published = [id \in {} |-> NoCommand]
  BY <1>1 DEF Published, EmptyArchive
<1>3. \A c \in Calls : CommandOf(c) = NoCommand /\ call[c].pc # "ended"
  BY <1>1 DEF CommandOf, NoCommand, Idle
<1> QED
  BY <1>2, <1>3 DEF Archive!Init

\* The archive keeps its promise to its callers: with its locks, snapshots, crashes,
\* lost answers and retries it is the write-once map of EventArchive.
THEOREM ArchiveKeepsPromise == Spec => ArchivePromise
<1>1. ArchiveInv /\ [Next]_vars => [Archive!Next]_(Archive!vars)
  BY ArchiveAnswers
<1>2. Init => Archive!Init
  BY ArchiveBegins
<1>3. Spec => []ArchiveInv
  BY ArchiveHolds, PTL
<1> QED
  BY <1>1, <1>2, <1>3, PTL DEF Spec, ArchivePromise, Archive!Spec
=============================================================================
