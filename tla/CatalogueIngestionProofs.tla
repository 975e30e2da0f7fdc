----------------------- MODULE CatalogueIngestionProofs -----------------------
(***************************************************************************)
(* Theorems about CatalogueIngestion and MarketSubjects, for every set of invocations, keys,  *)
(* artifacts, catalogues, intervals and clock values.                      *)
(***************************************************************************)
EXTENDS MarketSubjects, TemporalRecordsProofs

Catalogues(D) == D.records["catalogue_version"]

\* What holds of the committed rows, and of every snapshot of them.
DatabaseInv(D) ==
  /\ \A k \in Kinds : \A r \in D.records[k] : r.recorded_at \in Times
  /\ \A k \in Kinds : \A s \in {r.scope : r \in D.records[k]} : History(OfScope(D.records[k], s))
  /\ \A r \in Catalogues(D) : r.scope = Profile
  /\ Underlying \in D.instruments <=> Catalogues(D) # {}
  /\ \A k \in Kinds : \A r \in D.records[k] : \E c \in Catalogues(D) : c.recorded_at = r.recorded_at

\* S is a snapshot taken before the last commits of D, if there were any.
Behind(S, D) ==
  /\ Catalogues(S) \subseteq Catalogues(D)
  /\ \A r \in Catalogues(S), s \in Catalogues(D) \ Catalogues(S) : r.recorded_at < s.recorded_at

InTransaction == {"waiting", "locked", "writing"}

InvocationInv(i) ==
  /\ DatabaseInv(snapshot[i])
  /\ Behind(snapshot[i], db)
  /\ pc[i] \in InTransaction => /\ startedAt[i] \in Times
                                /\ snapshot[i] = db \/ Catalogues(snapshot[i]) # Catalogues(db)
  /\ pc[i] \in {"locked", "writing"} => lock = i
  /\ pc[i] = "writing" => /\ recordedAt[i] \in Times
                          /\ ~PlanRejected(snapshot[i], command[i])

\* The inductive invariant.
IInv ==
  /\ TypeOK
  /\ snapshot = [i \in Invocations |-> snapshot[i]]
  /\ command = [i \in Invocations |-> command[i]]
  /\ DatabaseInv(db)
  /\ \A i \in Invocations : InvocationInv(i)

-----------------------------------------------------------------------------
(* One commit                                                              *)

\* The failures that a successful commit has not met.
LEMMA WritableFacts ==
  ASSUME NEW S, NEW D, NEW c, NEW t, Writable(S, D, c, t)
  PROVE  /\ ~SupersessionConflict(S, D, "catalogue_version", CatalogueRecord(c, t))
         /\ CatalogueRecord(c, t) \notin Catalogues(D) \ Catalogues(S)
         /\ PlannedInstruments(c) \cap (D.instruments \ S.instruments) = {}
<1> DEFINE failures == WritePhases(S, D, c, t)
<1>1. failures[3] = {} /\ failures[4] = {}
  BY DEF Writable
<1>2. failures[3] = RecordFailures(S, D, "catalogue_version", {CatalogueRecord(c, t)})
  BY DEF WritePhases
<1>3. failures[4] = RowFailures(S, D, PlannedInstruments(c), "instruments")
  BY DEF WritePhases
<1>4. ~Unserializable(S, D, PlannedInstruments(c), "instruments")
  BY <1>1, <1>3 DEF RowFailures
<1>5. D["instruments"] = D.instruments /\ S["instruments"] = S.instruments
  OBVIOUS
<1> QED
  BY <1>1, <1>2, <1>4, <1>5 DEF RecordFailures, Unserializable, Catalogues

\* The history of every scope, one without records included.
LEMMA ScopeHistory ==
  ASSUME NEW D, DatabaseInv(D), NEW k \in Kinds, NEW s
  PROVE  History(OfScope(D.records[k], s))
<1>1. CASE s \in {r.scope : r \in D.records[k]}
  BY <1>1 DEF DatabaseInv
<1>2. CASE s \notin {r.scope : r \in D.records[k]}
  <2>1. OfScope(D.records[k], s) = {}
    BY <1>2 DEF OfScope
  <2> QED
    BY <2>1 DEF History, IsHistory, HasTip
<1> QED
  BY <1>1, <1>2

\* A plan made from rows that are behind the committed ones is never written:
\* the first catalogue meets the underlying's row another one inserted, a later
\* one meets the successor of the record it supersedes.
LEMMA WritableIsFresh ==
  ASSUME NEW S, NEW D, NEW c, NEW t,
         DatabaseInv(S), DatabaseInv(D), Behind(S, D), c.artifact \in Artifacts,
         ~PlanRejected(S, c), Writable(S, D, c, t)
  PROVE  Catalogues(S) = Catalogues(D)
<1> SUFFICES ASSUME NEW new \in Catalogues(D), new \notin Catalogues(S)
             PROVE  FALSE
  BY DEF Behind
<1>1. History(Catalogues(S)) /\ OfScope(Catalogues(S), Profile) = Catalogues(S)
  <2>1. OfScope(Catalogues(S), Profile) = Catalogues(S)
    BY DEF OfScope, DatabaseInv
  <2> QED
    BY <2>1, ScopeHistory DEF Catalogues, Kinds
<1>2. History(Catalogues(D))
  <2>1. OfScope(Catalogues(D), Profile) = Catalogues(D)
    BY DEF OfScope, DatabaseInv
  <2> QED
    BY <2>1, ScopeHistory DEF Catalogues, Kinds
<1>3. c.supersedes = KnowledgeLeaves(Catalogues(S))
  BY <1>1 DEF PlanRejected, Leaf, Catalogues
<1>4. CASE Catalogues(S) = {}
  <2>1. Underlying \in D.instruments /\ Underlying \notin S.instruments
    BY <1>4 DEF DatabaseInv
  <2>2. Underlying \in PlannedInstruments(c)
    BY CommandAssumption, ProfileAssumption DEF PlannedInstruments, Items
  <2> QED
    BY <2>1, <2>2, WritableFacts
<1>5. CASE Catalogues(S) # {}
  <2>1. PICK p \in Catalogues(S) : KnowledgeLeaves(Catalogues(S)) = {p}
    BY <1>1, <1>5 DEF History, HasTip
  <2>2. p \in Catalogues(D) /\ p.recorded_at < new.recorded_at
    BY <2>1 DEF Behind
  <2>3. p \in Superseded(Catalogues(D))
    BY <1>2, <2>2 DEF History, HasTip, KnowledgeLeaves
  <2> DEFINE r == CatalogueRecord(c, t)
  <2>4. r.supersedes = {p}
    BY <1>3, <2>1 DEF CatalogueRecord, TemporalRecord
  <2>5. r \in Catalogues(S)
    <3>1. r \notin Catalogues(D) => Catalogues(D) \ {r} = Catalogues(D)
      OBVIOUS
    <3> QED
      BY <2>3, <2>4, <3>1, WritableFacts DEF SupersessionConflict, Catalogues
  <2>6. p \in Superseded(Catalogues(S))
    BY <2>4, <2>5 DEF Superseded
  <2> QED
    BY <2>1, <2>6 DEF KnowledgeLeaves
<1> QED
  BY <1>4, <1>5

\* What the records of an accepted plan made from D look like.
LEMMA PlanFacts ==
  ASSUME NEW D, DatabaseInv(D), NEW c, NEW t \in Times, c.artifact \in Artifacts,
         ~PlanRejected(D, c), Writable(D, D, c, t)
  PROVE  /\ c.supersedes = KnowledgeLeaves(Catalogues(D))
         /\ \A k \in Kinds : \A r \in D.records[k] : r.recorded_at < t
<1>1. OfScope(Catalogues(D), Profile) = Catalogues(D)
  BY DEF OfScope, DatabaseInv
<1>2. History(Catalogues(D))
  BY <1>1, ScopeHistory DEF Catalogues, Kinds
<1>3. c.supersedes = KnowledgeLeaves(Catalogues(D))
  BY <1>1 DEF PlanRejected, Leaf, Catalogues
<1>4. \A s \in Catalogues(D) : s.recorded_at < t
  <2> SUFFICES ASSUME NEW s \in Catalogues(D)
               PROVE  s.recorded_at < t
    OBVIOUS
  <2>1. PICK p \in Catalogues(D) : /\ KnowledgeLeaves(Catalogues(D)) = {p}
                                   /\ s.recorded_at <= p.recorded_at
    BY <1>2 DEF History, HasTip
  <2> DEFINE r == CatalogueRecord(c, t)
  <2>2. r.supersedes = {p} /\ r.recorded_at = t
    BY <1>3, <2>1 DEF CatalogueRecord, TemporalRecord
  <2>3. r \notin Catalogues(D)
    BY <2>1, <2>2 DEF KnowledgeLeaves, Superseded
  <2>4. ~(t <= p.recorded_at)
    <3>1. ~SupersessionConflict(D, D, "catalogue_version", r)
      BY WritableFacts
    <3>2. r \notin D.records["catalogue_version"] /\ p \in r.supersedes
      BY <2>2, <2>3 DEF Catalogues
    <3> HIDE DEF r
    <3> QED
      BY <2>2, <3>1, <3>2 DEF SupersessionConflict
  <2> QED
    BY <1>2, <2>1, <2>4, CommandAssumption DEF History
<1> QED
  BY <1>3, <1>4 DEF DatabaseInv, Catalogues

\* The records of one commit have one record of a scope at most, which
\* supersedes the leaf of the scope.
OneAtATime(D, k, new, t) ==
  /\ \A r \in new : r.recorded_at = t /\ r.supersedes = KnowledgeLeaves(OfScope(D.records[k], r.scope))
  /\ \A r, s \in new : r.scope = s.scope => r = s

LEMMA RecordsOneAtATime ==
  ASSUME NEW D, DatabaseInv(D), NEW c, NEW t \in Times, c.artifact \in Artifacts,
         ~PlanRejected(D, c), Writable(D, D, c, t), NEW k \in Kinds
  PROVE  OneAtATime(D, k, NewRecords(D, c, t)[k], t)
<1>1. CASE k = "catalogue_version"
  <2>1. NewRecords(D, c, t)[k] = {CatalogueRecord(c, t)}
    BY <1>1 DEF NewRecords, Kinds
  <2>2. OfScope(Catalogues(D), Profile) = Catalogues(D)
    BY DEF OfScope, DatabaseInv
  <2> QED
    BY <1>1, <2>1, <2>2, PlanFacts DEF OneAtATime, CatalogueRecord, TemporalRecord, Catalogues
<1>2. CASE k = "instrument_version"
  <2>1. NewRecords(D, c, t)[k] = VersionRecords(D, c, t)
    BY <1>2 DEF NewRecords, Kinds
  <2>2. \A v, w \in PlannedVersions(c) : v.instrument = w.instrument => v = w
    BY DEF PlannedVersions, InstrumentVersion, PlanRejected
  <2> QED
    BY <1>2, <2>1, <2>2 DEF OneAtATime, VersionRecords, TemporalRecord, Leaf
<1>3. CASE k = "provider_mapping"
  <2>1. NewRecords(D, c, t)[k] = MappingRecords(D, c, t)
    BY <1>3 DEF NewRecords, Kinds
  <2>2. \A r, s \in Items(c) : r.key = s.key => r = s
    BY CommandAssumption, ProfileAssumption DEF Items
  <2>3. \A m, n \in PlannedMappings(c) : m.key = n.key => m = n
    BY <2>2 DEF PlannedMappings, Mapping
  <2> QED
    BY <1>3, <2>1, <2>3 DEF OneAtATime, MappingRecords, TemporalRecord, Leaf
<1> QED
  BY <1>1, <1>2, <1>3 DEF Kinds

\* A commit leaves every history a history.
LEMMA CommitKeepsDatabaseInv ==
  ASSUME NEW D, DatabaseInv(D), NEW c, NEW t \in Times, c.artifact \in Artifacts,
         ~PlanRejected(D, c), Writable(D, D, c, t)
  PROVE  DatabaseInv(Committed(D, D, c, t))
<1> DEFINE E == Committed(D, D, c, t)
           new == NewRecords(D, c, t)
<1>1. \A k \in Kinds : E.records[k] = D.records[k] \cup new[k]
  BY DEF Committed
<1>2. \A k \in Kinds : \A r \in new[k] : r.recorded_at = t
  BY RecordsOneAtATime DEF OneAtATime
<1>3. CatalogueRecord(c, t) \in Catalogues(E)
  BY <1>1 DEF Catalogues, Kinds, NewRecords
<1>4. ASSUME NEW k \in Kinds, NEW s
      PROVE  History(OfScope(E.records[k], s))
  <2>1. History(OfScope(D.records[k], s))
    BY ScopeHistory
  <2>2. OneAtATime(D, k, new[k], t)
    BY RecordsOneAtATime
  <2>3. CASE \A r \in new[k] : r.scope # s
    <3>1. OfScope(E.records[k], s) = OfScope(D.records[k], s)
      BY <1>1, <2>3 DEF OfScope
    <3> QED
      BY <2>1, <3>1
  <2>4. CASE \E r \in new[k] : r.scope = s
    <3>1. PICK r \in new[k] : r.scope = s
      BY <2>4
    <3>2. OfScope(E.records[k], s) = OfScope(D.records[k], s) \cup {r}
      BY <1>1, <2>2, <3>1 DEF OfScope, OneAtATime
    <3>3. r.supersedes = KnowledgeLeaves(OfScope(D.records[k], s)) /\ r.recorded_at = t
      BY <2>2, <3>1 DEF OneAtATime
    <3>4. \A q \in OfScope(D.records[k], s) : q.recorded_at < t
      BY PlanFacts DEF OfScope
    <3> QED
      BY <2>1, <3>2, <3>3, <3>4, HistoryAppend, CommandAssumption
  <2> QED
    BY <2>3, <2>4
<1>5. \A k \in Kinds : \A r \in E.records[k] : r.recorded_at \in Times
  BY <1>1, <1>2 DEF DatabaseInv
<1>6. \A r \in Catalogues(E) : r.scope = Profile
  <2>1. Catalogues(E) = Catalogues(D) \cup {CatalogueRecord(c, t)}
    BY <1>1 DEF Catalogues, Kinds, NewRecords
  <2> QED
    BY <2>1 DEF DatabaseInv, CatalogueRecord, TemporalRecord
<1>7. Underlying \in E.instruments
  <2>1. Underlying \in PlannedInstruments(c)
    BY CommandAssumption, ProfileAssumption DEF PlannedInstruments, Items
  <2> QED
    BY <2>1 DEF Committed
<1>8. \A k \in Kinds : \A r \in E.records[k] : \E q \in Catalogues(E) : q.recorded_at = r.recorded_at
  <2>1. Catalogues(D) \subseteq Catalogues(E)
    BY <1>1 DEF Catalogues, Kinds
  <2>2. CatalogueRecord(c, t).recorded_at = t
    BY DEF CatalogueRecord, TemporalRecord
  <2> QED
    BY <1>1, <1>2, <1>3, <2>1, <2>2 DEF DatabaseInv
<1> QED
  BY <1>3, <1>4, <1>5, <1>6, <1>7, <1>8 DEF DatabaseInv

\* The rows of any snapshot are behind the committed ones, after a commit as
\* before it, and no snapshot is current any more.
LEMMA CommitKeepsBehind ==
  ASSUME NEW S, NEW D, Behind(S, D), DatabaseInv(D), NEW c, NEW t \in Times, c.artifact \in Artifacts,
         ~PlanRejected(D, c), Writable(D, D, c, t)
  PROVE  /\ Behind(S, Committed(D, D, c, t))
         /\ Catalogues(S) # Catalogues(Committed(D, D, c, t))
<1> DEFINE E == Committed(D, D, c, t)
           r == CatalogueRecord(c, t)
<1>1. Catalogues(E) = Catalogues(D) \cup {r}
  BY DEF Catalogues, Kinds, NewRecords, Committed
<1>2. \A s \in Catalogues(D) : s.recorded_at < r.recorded_at
  BY PlanFacts DEF Catalogues, Kinds, CatalogueRecord, TemporalRecord
<1>3. r.recorded_at \in Nat
  BY CommandAssumption DEF CatalogueRecord, TemporalRecord
<1>4. r \notin Catalogues(D)
  BY <1>2, <1>3
<1> QED
  BY <1>1, <1>2, <1>4 DEF Behind

-----------------------------------------------------------------------------
(* The inductive invariant                                                 *)

LEMMA EmptyInv ==
  DatabaseInv(EmptyDatabase) /\ \A D : Behind(EmptyDatabase, D)
<1>1. \A k \in Kinds : EmptyDatabase.records[k] = {}
  BY DEF EmptyDatabase
<1>2. EmptyDatabase.instruments = {}
  BY DEF EmptyDatabase
<1>3. Catalogues(EmptyDatabase) = {}
  BY <1>1 DEF Catalogues, Kinds
<1> QED
  BY <1>1, <1>2, <1>3 DEF DatabaseInv, Behind

LEMMA InitInv == Init => IInv
<1> SUFFICES ASSUME Init PROVE IInv
  OBVIOUS
<1>1. TypeOK
  <2>1. \A D \in Databases : D = EmptyDatabase
    BY DEF Init, Databases
  <2>2. \A D \in Databases, k \in Kinds : \A r \in D.records[k] : r.recorded_at \in Times
    BY <2>1, EmptyInv DEF DatabaseInv
  <2> QED
    BY <2>2 DEF Init, TypeOK
<1>2. \A i \in Invocations : InvocationInv(i)
  BY EmptyInv DEF Init, InvocationInv, InTransaction
<1> QED
  BY <1>1, <1>2, EmptyInv DEF Init, IInv

\* What a step that writes nothing must keep of the invocation that takes it.
LEMMA StepOf ==
  ASSUME IInv, NEW i \in Invocations,
         db' = db, clock' \in Times,
         lock' \in Invocations \cup {Nobody},
         lock' # lock => lock = Nobody \/ lock = i,
         \A j \in Invocations \ {i} :
           /\ pc'[j] = pc[j] /\ command'[j] = command[j] /\ startedAt'[j] = startedAt[j]
           /\ recordedAt'[j] = recordedAt[j] /\ snapshot'[j] = snapshot[j],
         pc' \in [Invocations -> {"idle", "waiting", "locked", "writing",
                                  "committed", "fallback", "done", "crashed"}],
         result' \in [Invocations -> {"none", "accepted", "planned", "rejected", "failed",
                                 "idempotency_conflict", "supersession_conflict"}],
         startedAt' \in [Invocations -> Times \cup {NoTime}],
         recordedAt' \in [Invocations -> Times \cup {NoTime}],
         pc'[i] \notin {"idle", "crashed"} =>
           command'[i].mode \in Modes /\ command'[i].artifact \in Artifacts,
         snapshot' = [j \in Invocations |-> snapshot'[j]],
         command' = [j \in Invocations |-> command'[j]],
         InvocationInv(i)'
  PROVE  IInv'
<1>1. ASSUME NEW j \in Invocations PROVE InvocationInv(j)'
  <2>1. CASE j = i
    BY <2>1
  <2>2. CASE j # i
    <3>1. InvocationInv(j)
      BY DEF IInv
    <3>2. pc[j] \in {"locked", "writing"} => lock' = j
      BY <2>2, <3>1, NobodyAssumption DEF InvocationInv, IInv, TypeOK
    <3> QED
      BY <2>2, <3>1, <3>2 DEF InvocationInv
  <2> QED
    BY <2>1, <2>2
<1>2. DatabaseInv(db)'
  BY DEF IInv
<1>3. TypeOK'
  <2>1. \A D \in Databases' : DatabaseInv(D)
    BY <1>1, <1>2 DEF Databases, InvocationInv
  <2>2. \A D \in Databases', k \in Kinds : \A r \in D.records[k] : r.recorded_at \in Times
    BY <2>1 DEF DatabaseInv
  <2> QED
    BY <2>2 DEF TypeOK, IInv
<1> QED
  BY <1>1, <1>2, <1>3 DEF IInv

\* The rows of the transaction of i go with it.
LEMMA Closed ==
  ASSUME IInv, NEW i \in Invocations, CloseTransaction(i), pc'[i] \notin InTransaction
  PROVE  /\ InvocationInv(i)'
         /\ lock' \in Invocations \cup {Nobody}
         /\ lock' # lock => lock = i
         /\ startedAt' \in [Invocations -> Times \cup {NoTime}]
         /\ recordedAt' \in [Invocations -> Times \cup {NoTime}]
         /\ snapshot' = [j \in Invocations |-> snapshot'[j]]
         /\ \A j \in Invocations \ {i} :
              /\ startedAt'[j] = startedAt[j] /\ recordedAt'[j] = recordedAt[j]
              /\ snapshot'[j] = snapshot[j]
<1>1. snapshot'[i] = EmptyDatabase
  BY DEF CloseTransaction, IInv
<1>2. DatabaseInv(snapshot'[i]) /\ Behind(snapshot'[i], db')
  BY <1>1, EmptyInv
<1>3. pc'[i] \notin {"locked", "writing"}
  BY DEF InTransaction
<1>4. InvocationInv(i)'
  BY <1>2, <1>3 DEF InvocationInv
<1> QED
  BY <1>4 DEF CloseTransaction, IInv, TypeOK

LEMMA FinishInv ==
  ASSUME IInv, NEW i \in Invocations, NEW outcome,
         outcome \in {"accepted", "planned", "rejected", "failed",
                      "idempotency_conflict", "supersession_conflict"},
         pc[i] \notin {"idle", "crashed"},
         Finish(i, outcome), UNCHANGED <<clock, db, command>>
  PROVE  IInv'
<1>1. pc'[i] = "done" /\ CloseTransaction(i)
  BY DEF Finish, IInv, TypeOK
<1>2. pc'[i] \notin InTransaction
  BY <1>1 DEF InTransaction
<1> QED
  BY <1>1, <1>2, Closed, StepOf DEF Finish, IInv, TypeOK

LEMMA CommitInv ==
  ASSUME IInv, NEW i \in Invocations, Commit(i)
  PROVE  IInv' /\ snapshot[i] = db
<1> DEFINE c == command[i]
           t == recordedAt[i]
<1>1. /\ DatabaseInv(snapshot[i]) /\ Behind(snapshot[i], db) /\ DatabaseInv(db)
      /\ c.artifact \in Artifacts /\ t \in Times /\ ~PlanRejected(snapshot[i], c)
  BY DEF IInv, InvocationInv, Commit, TypeOK
<1>2. snapshot[i] = db
  <2>1. Catalogues(snapshot[i]) = Catalogues(db)
    BY <1>1, WritableIsFresh DEF Commit
  <2> QED
    BY <2>1 DEF IInv, InvocationInv, Commit, InTransaction
<1>3. db' = Committed(db, db, c, t) /\ Writable(db, db, c, t) /\ ~PlanRejected(db, c)
  BY <1>1, <1>2 DEF Commit
<1>4. DatabaseInv(db')
  BY <1>1, <1>3, CommitKeepsDatabaseInv
<1>5. pc'[i] = "committed" /\ pc'[i] \notin InTransaction /\ CloseTransaction(i)
  BY DEF Commit, IInv, TypeOK, InTransaction
<1>6. ASSUME NEW j \in Invocations PROVE InvocationInv(j)'
  <2>1. CASE j = i
    BY <1>5, <2>1, Closed
  <2>2. CASE j # i
    <3>1. InvocationInv(j) /\ InvocationInv(i)
      BY DEF IInv
    <3>2. snapshot'[j] = snapshot[j] /\ startedAt'[j] = startedAt[j] /\ recordedAt'[j] = recordedAt[j]
      BY <1>5, <2>2, Closed
    <3>3. pc'[j] = pc[j] /\ command'[j] = command[j]
      BY <2>2 DEF Commit, IInv, TypeOK
    <3>4. /\ Behind(snapshot[j], db')
          /\ Catalogues(snapshot[j]) # Catalogues(db')
      BY <1>1, <1>3, <3>1, CommitKeepsBehind DEF InvocationInv
    <3>5. pc[j] \notin {"locked", "writing"}
      BY <2>2, <3>1 DEF InvocationInv, Commit
    <3> QED
      BY <3>1, <3>2, <3>3, <3>4, <3>5 DEF InvocationInv
  <2> QED
    BY <2>1, <2>2
<1>7. TypeOK'
  <2>1. \A D \in Databases' : DatabaseInv(D)
    BY <1>4, <1>6 DEF Databases, InvocationInv
  <2>2. \A D \in Databases', k \in Kinds : \A r \in D.records[k] : r.recorded_at \in Times
    BY <2>1 DEF DatabaseInv
  <2> QED
    BY <1>5, <2>2, Closed DEF TypeOK, IInv, Commit
<1>8. command' = [j \in Invocations |-> command'[j]] /\ snapshot' = [j \in Invocations |-> snapshot'[j]]
  BY <1>5, Closed DEF Commit, IInv
<1> QED
  BY <1>2, <1>4, <1>6, <1>7, <1>8 DEF IInv

\* One step of one invocation, or of the clock.
LEMMA NextInv ==
  ASSUME IInv, [Next]_vars
  PROVE  IInv'
<1>1. ASSUME NEW i \in Invocations, Invoke(i) PROVE IInv'
  <2>1. PICK c \in Commands(db) : command' = [command EXCEPT ![i] = c]
    BY <1>1 DEF Invoke
  <2>2. command'[i] = c /\ c.mode \in Modes /\ c.artifact \in Artifacts
    BY <2>1 DEF IInv, Commands
  <2>3. pc'[i] = "waiting" /\ snapshot'[i] = db /\ startedAt'[i] = clock
    BY <1>1 DEF Invoke, IInv, TypeOK
  <2>4. InvocationInv(i)'
    BY <1>1, <2>3 DEF Invoke, InvocationInv, IInv, TypeOK, Behind
  <2> QED
    BY <1>1, <2>1, <2>2, <2>4, StepOf DEF Invoke, IInv, TypeOK
<1>2. ASSUME NEW i \in Invocations, AcquireLock(i) PROVE IInv'
  <2>1. InvocationInv(i)'
    BY <1>2 DEF AcquireLock, InvocationInv, InTransaction, IInv, TypeOK
  <2> QED
    BY <1>2, <2>1, StepOf DEF AcquireLock, IInv, TypeOK
<1>3. ASSUME NEW i \in Invocations, Replay(i) PROVE IInv'
  <2>1. ReplayOutcome(snapshot[i], command[i]) \in {"accepted", "idempotency_conflict"}
    BY DEF ReplayOutcome
  <2> QED
    BY <1>3, <2>1, FinishInv DEF Replay
<1>4. ASSUME NEW i \in Invocations, Plan(i) PROVE IInv'
  <2>1. CASE clock < startedAt[i] \/ PlanRejected(snapshot[i], command[i])
    BY <1>4, <2>1, FinishInv DEF Plan
  <2>2. CASE ~(clock < startedAt[i] \/ PlanRejected(snapshot[i], command[i]))
    <3>1. /\ recordedAt' = [recordedAt EXCEPT ![i] = clock] /\ pc' = [pc EXCEPT ![i] = "writing"]
          /\ UNCHANGED <<lock, snapshot, startedAt, result, clock, db, command>>
      BY <1>4, <2>2 DEF Plan
    <3>2. InvocationInv(i)'
      BY <1>4, <2>2, <3>1 DEF Plan, InvocationInv, InTransaction, IInv, TypeOK
    <3> QED
      BY <1>4, <3>1, <3>2, StepOf DEF Plan, IInv, TypeOK
  <2> QED
    BY <2>1, <2>2
<1>5. ASSUME NEW i \in Invocations, DryRun(i) PROVE IInv'
  BY <1>5, FinishInv DEF DryRun
<1>6. ASSUME NEW i \in Invocations, Commit(i) PROVE IInv'
  BY <1>6, CommitInv
<1>7. ASSUME NEW i \in Invocations, Return(i) PROVE IInv'
  <2>1. InvocationInv(i)'
    BY <1>7 DEF Return, InvocationInv, InTransaction, IInv, TypeOK
  <2> QED
    BY <1>7, <2>1, StepOf DEF Return, IInv, TypeOK
<1>8. ASSUME NEW i \in Invocations, FailWrite(i) PROVE IInv'
  <2>1. CASE Finish(i, "supersession_conflict")
    BY <1>8, <2>1, FinishInv DEF FailWrite
  <2>2. CASE /\ pc' = [pc EXCEPT ![i] = "fallback"]
             /\ CloseTransaction(i)
             /\ UNCHANGED result
    <3>1. pc'[i] = "fallback" /\ pc'[i] \notin InTransaction
      BY <2>2 DEF IInv, TypeOK, InTransaction
    <3> QED
      BY <1>8, <2>2, <3>1, Closed, StepOf DEF FailWrite, IInv, TypeOK
  <2> QED
    BY <1>8, <2>1, <2>2 DEF FailWrite
<1>9. ASSUME NEW i \in Invocations, LoadAccepted(i) PROVE IInv'
  <2>1. InvocationInv(i)'
    BY <1>9 DEF LoadAccepted, InvocationInv, InTransaction, IInv, TypeOK
  <2>2. ReplayOutcome(db, command[i]) \in {"accepted", "idempotency_conflict"}
    BY DEF ReplayOutcome
  <2> QED
    BY <1>9, <2>1, <2>2, StepOf DEF LoadAccepted, IInv, TypeOK
<1>10. ASSUME NEW i \in Invocations, Crash(i) PROVE IInv'
  <2>1. pc'[i] = "crashed" /\ pc'[i] \notin InTransaction
    BY <1>10 DEF Crash, IInv, TypeOK, InTransaction
  <2> QED
    BY <1>10, <2>1, Closed, StepOf DEF Crash, IInv, TypeOK
<1>11. ASSUME NEW i \in Invocations, LoseConnection(i) PROVE IInv'
  <2>1. CASE Finish(i, "failed")
    BY <1>11, <2>1, FinishInv DEF LoseConnection
  <2>2. CASE /\ pc' = [pc EXCEPT ![i] = "fallback"]
             /\ CloseTransaction(i)
             /\ UNCHANGED result
    <3>1. pc'[i] = "fallback" /\ pc'[i] \notin InTransaction
      BY <2>2 DEF IInv, TypeOK, InTransaction
    <3> QED
      BY <1>11, <2>2, <3>1, Closed, StepOf DEF LoseConnection, IInv, TypeOK
  <2> QED
    BY <1>11, <2>1, <2>2 DEF LoseConnection
<1>12. CASE Tick
  <2>1. \A i \in Invocations : InvocationInv(i)'
    BY <1>12 DEF Tick, IInv, InvocationInv
  <2> QED
    BY <1>12, <2>1 DEF Tick, IInv, TypeOK, Databases
<1>13. CASE UNCHANGED vars
  <2>1. \A i \in Invocations : InvocationInv(i)'
    BY <1>13 DEF vars, IInv, InvocationInv
  <2> QED
    BY <1>13, <2>1 DEF vars, IInv, TypeOK, Databases
<1> QED
  BY <1>1, <1>2, <1>3, <1>4, <1>5, <1>6, <1>7, <1>8, <1>9, <1>10, <1>11, <1>12, <1>13 DEF Next, Step

\* IInv holds in every reachable state.
THEOREM Invariance == Spec => []IInv
BY InitInv, NextInv, PTL DEF Spec

-----------------------------------------------------------------------------

\* Variables have their types: every commit carries a write timestamp that was
\* read from the clock (ingest, _commit).
THEOREM TypeCorrect == Spec => []TypeOK
<1>1. IInv => TypeOK
  BY DEF IInv
<1> QED
  BY <1>1, Invariance, PTL

\* The catalogue records are one unbranched history, whatever number of
\* invocations ingest concurrently (_build_transition_plan,
\* _insert_temporal_record, ON CONFLICT DO NOTHING under REPEATABLE READ).
THEOREM CatalogueHistoryHolds == Spec => []CatalogueHistory
<1>1. IInv => CatalogueHistory
  <2>1. DatabaseInv(db) => OfScope(Catalogues(db), Profile) = Catalogues(db)
    BY DEF DatabaseInv, OfScope
  <2> QED
    BY <2>1, ScopeHistory DEF IInv, CatalogueHistory, Catalogues, Kinds, History
<1> QED
  BY <1>1, Invariance, PTL

\* So are the version records of every instrument and the mapping records of
\* every provider key (resolve_version_knowledge_leaf,
\* resolve_provider_key_knowledge_leaf in the plan).
THEOREM EntityHistoriesHold == Spec => []EntityHistories
<1>1. IInv => EntityHistories
  BY DEF IInv, EntityHistories, DatabaseInv, History
<1> QED
  BY <1>1, Invariance, PTL

\* The records of a scope that are known at a cutoff, in any database of a reader.
LEMMA KnownHistory ==
  ASSUME NEW D, DatabaseInv(D), NEW k \in Kinds, NEW s, NEW known \in Times
  PROVE  LET R == OfScope(Visible(D.records[k], known), s)
         IN  Recorded(R) /\ IsHistory(R) /\ \A r \in R : r.scope = s
<1>1. OfScope(Visible(D.records[k], known), s) = Visible(OfScope(D.records[k], s), known)
  BY DEF OfScope, Visible
<1>2. Recorded(OfScope(D.records[k], s)) /\ IsHistory(OfScope(D.records[k], s)) /\ known \in Nat
  BY ScopeHistory, CommandAssumption DEF History, Recorded
<1>3. Recorded(Visible(OfScope(D.records[k], s), known)) /\ IsHistory(Visible(OfScope(D.records[k], s), known))
  BY <1>2, VisibleHistory
<1>4. \A r \in OfScope(Visible(D.records[k], known), s) : r.scope = s
  BY DEF OfScope
<1> QED
  BY <1>1, <1>3, <1>4

\* Every point-in-time query has one answer at most, whatever was ingested
\* (resolve_temporal_state, resolve_temporal_knowledge_leaf): a history cut at any
\* instant is a history, in which all that is earlier is an ancestor.
THEOREM EveryCutoffResolvesHolds == Spec => []EveryCutoffResolves
<1>1. IInv => EveryCutoffResolves
  <2> SUFFICES ASSUME DatabaseInv(db), NEW k \in Kinds, NEW known \in Times,
                      NEW s \in {r.scope : r \in db.records[k]}
               PROVE  LET R == OfScope(Visible(db.records[k], known), s)
                      IN  /\ ValidGraph(R)
                          /\ Cardinality(KnowledgeLeaves(R)) <= 1
                          /\ \A market \in MarketTimes :
                               Cardinality(EligibleLeaves(R, Eligible(k, R, market))) <= 1
    BY DEF IInv, EveryCutoffResolves
  <2> DEFINE R == OfScope(Visible(db.records[k], known), s)
  <2>1. Recorded(R) /\ IsHistory(R) /\ \A r \in R : r.scope = s
    BY KnownHistory
  <2> HIDE DEF R
  <2>2. Cardinality(KnowledgeLeaves(R)) <= 1
    BY <2>1, OneKnowledgeLeaf, AtMostOne
  <2>3. ASSUME NEW market PROVE Cardinality(EligibleLeaves(R, Eligible(k, R, market))) <= 1
    <3>1. Eligible(k, R, market) \in SUBSET R
      BY DEF Eligible
    <3> QED
      BY <2>1, <3>1, OneEligibleLeaf, AtMostOne
  <2>4. ValidGraph(R)
    BY <2>1, HistoryIsValid
  <2> QED
    BY <2>2, <2>3, <2>4 DEF R
<1> QED
  BY <1>1, Invariance, PTL

\* A transaction that planned from rows that are no longer current never commits
\* (_commit): the snapshot may be older than the lock, what is written is not.
THEOREM CommitsAreFresh == Spec => CommitOnFreshSnapshot
<1>1. IInv /\ [Next]_vars => (db' # db => \E i \in Invocations : lock = i /\ snapshot[i] = db)
  <2> SUFFICES ASSUME IInv, [Next]_vars, db' # db
               PROVE  \E i \in Invocations : lock = i /\ snapshot[i] = db
    OBVIOUS
  <2>1. PICK i \in Invocations : Commit(i)
    BY DEF Next, Step, vars, Invoke, AcquireLock, Replay, Plan, DryRun, Return, FailWrite,
           LoadAccepted, LoseConnection, Crash, Tick
  <2>2. snapshot[i] = db
    BY <2>1, CommitInv
  <2>3. lock = i
    BY <2>1 DEF IInv, InvocationInv, Commit
  <2> QED
    BY <2>2, <2>3
<1> QED
  BY <1>1, Invariance, PTL DEF Spec, CommitOnFreshSnapshot

\* Every record of a commit is later than every record before it, of whatever
\* kind and scope, even if the wall clock is set back (_commit,
\* _insert_temporal_record).
THEOREM KnowledgeIsOrdered == Spec => KnowledgeFollowsCommitOrder
<1>1. IInv /\ [Next]_vars =>
        \A k, l \in Kinds : \A old \in db.records[k], new \in db'.records[l] \ db.records[l] :
          old.recorded_at < new.recorded_at
  <2> SUFFICES ASSUME IInv, [Next]_vars,
                      NEW k \in Kinds, NEW l \in Kinds,
                      NEW old \in db.records[k], NEW new \in db'.records[l], new \notin db.records[l]
               PROVE  old.recorded_at < new.recorded_at
    OBVIOUS
  <2>1. PICK i \in Invocations : Commit(i)
    BY DEF Next, Step, vars, Invoke, AcquireLock, Replay, Plan, DryRun, Return, FailWrite,
           LoadAccepted, LoseConnection, Crash, Tick
  <2> DEFINE c == command[i]
             t == recordedAt[i]
  <2>2. /\ snapshot[i] = db /\ DatabaseInv(db) /\ c.artifact \in Artifacts /\ t \in Times
        /\ ~PlanRejected(db, c) /\ Writable(db, db, c, t) /\ db' = Committed(db, db, c, t)
    <3>1. snapshot[i] = db
      BY <2>1, CommitInv
    <3>2. /\ DatabaseInv(snapshot[i]) /\ c.artifact \in Artifacts /\ t \in Times
          /\ ~PlanRejected(snapshot[i], c)
      BY <2>1 DEF IInv, InvocationInv, Commit, TypeOK
    <3>3. Writable(snapshot[i], db, c, t) /\ db' = Committed(snapshot[i], db, c, t)
      BY <2>1 DEF Commit
    <3> HIDE DEF c, t
    <3> QED
      BY <3>1, <3>2, <3>3
  <2>3. new \in NewRecords(db, c, t)[l]
    BY <2>2 DEF Committed
  <2>4. new.recorded_at = t
    BY <2>2, <2>3, RecordsOneAtATime DEF OneAtATime
  <2> QED
    BY <2>2, <2>4, PlanFacts
<1> QED
  BY <1>1, Invariance, PTL DEF Spec, KnowledgeFollowsCommitOrder

-----------------------------------------------------------------------------

\* Only Commit changes the committed rows, and it adds to the rows its plan was
\* made from.
LEMMA OnlyCommitWrites ==
  ASSUME IInv, [Next]_vars, db' # db
  PROVE  \E i \in Invocations :
           /\ Commit(i) /\ ~PlanRejected(db, command[i])
           /\ Writable(db, db, command[i], recordedAt[i])
           /\ db' = Committed(db, db, command[i], recordedAt[i])
<1>1. PICK i \in Invocations : Commit(i)
  BY DEF Next, Step, vars, Invoke, AcquireLock, Replay, Plan, DryRun, Return, FailWrite,
         LoadAccepted, LoseConnection, Crash, Tick
<1>2. snapshot[i] = db
  BY <1>1, CommitInv
<1> QED
  BY <1>1, <1>2 DEF IInv, InvocationInv, Commit

\* A provider key never comes to name a second economic instrument
\* (resolve_provider_key_instrument_id in the plan): the plan's check suffices,
\* although no constraint of the database repeats it.
THEOREM KeysAreBoundOnce == Spec => []KeyBoundOnce
<1>1. Init => KeyBoundOnce
  BY DEF Init, KeyBoundOnce, EmptyDatabase
<1>2. IInv /\ KeyBoundOnce /\ [Next]_vars => KeyBoundOnce'
  <2> SUFFICES ASSUME IInv, KeyBoundOnce, [Next]_vars,
                      NEW m1 \in db'.mappings, NEW m2 \in db'.mappings, m1.key = m2.key
               PROVE  m1.version.instrument = m2.version.instrument
    BY DEF KeyBoundOnce
  <2>1. CASE db' = db
    BY <2>1 DEF KeyBoundOnce
  <2>2. CASE db' # db
    <3>1. PICK i \in Invocations :
            /\ Commit(i) /\ ~PlanRejected(db, command[i])
            /\ db' = Committed(db, db, command[i], recordedAt[i])
      BY <2>2, OnlyCommitWrites
    <3> DEFINE c == command[i]
    <3>2. c.artifact \in Artifacts
      BY <3>1 DEF IInv, TypeOK, Commit
    <3>3. db'.mappings = db.mappings \cup PlannedMappings(c)
      BY <3>1 DEF Committed
    <3>4. ASSUME NEW m \in PlannedMappings(c)
          PROVE  /\ \A n \in PlannedMappings(c) : n.key = m.key => n = m
                 /\ \A n \in db.mappings : n.key = m.key => n.version.instrument = m.version.instrument
      <4>1. PICK row \in Items(c) : m = Mapping(c, row)
        BY DEF PlannedMappings
      <4>2. m.key = row.key /\ m.version.instrument = row.instrument
        BY <4>1 DEF Mapping, InstrumentVersion
      <4>3. \A r \in Items(c) : r.key = row.key => r = row
        BY <3>2, <4>1, CommandAssumption, ProfileAssumption DEF Items
      <4>4. BoundInstruments(db, row.key) \in {{}, {row.instrument}}
        BY <3>1, <4>1 DEF PlanRejected
      <4>5. \A n \in PlannedMappings(c) : n.key = m.key => n = m
        BY <4>1, <4>2, <4>3 DEF PlannedMappings, Mapping
      <4>6. \A n \in db.mappings : n.key = m.key => n.version.instrument \in BoundInstruments(db, row.key)
        BY <4>2 DEF BoundInstruments
      <4> QED
        BY <4>2, <4>4, <4>5, <4>6
    <3> QED
      BY <3>3, <3>4 DEF KeyBoundOnce
  <2> QED
    BY <2>1, <2>2
<1> QED
  BY <1>1, <1>2, Invariance, PTL DEF Spec

-----------------------------------------------------------------------------
(* What is resolved                                                        *)

VersionOf(row, catalogue) ==
  [instrument |-> row.instrument, metadata |-> row.metadata, catalogue |-> catalogue]

\* A catalogue was recorded with a version and a mapping of each of its rows.
WholeCatalogues ==
  \A c \in Catalogues(db) : \A row \in Rows[c.sem.content] :
    /\ \E r \in db.records["instrument_version"] :
         r.sem = VersionOf(row, c.sem) /\ r.scope = row.instrument /\ r.recorded_at = c.recorded_at
    /\ \E r \in db.records["provider_mapping"] :
         /\ r.sem = [key |-> row.key, version |-> VersionOf(row, c.sem)]
         /\ r.scope = row.key /\ r.recorded_at = c.recorded_at

LEMMA CatalogueIsWhole ==
  ASSUME NEW D, NEW c, NEW t, NEW row \in Items(c)
  PROVE  LET sem == CatalogueRecord(c, t).sem
         IN  /\ sem.content = Content[c.artifact] /\ CatalogueRecord(c, t).recorded_at = t
             /\ \E r \in VersionRecords(D, c, t) :
                  r.sem = VersionOf(row, sem) /\ r.scope = row.instrument /\ r.recorded_at = t
             /\ \E r \in MappingRecords(D, c, t) :
                  /\ r.sem = [key |-> row.key, version |-> VersionOf(row, sem)]
                  /\ r.scope = row.key /\ r.recorded_at = t
<1>1. /\ CatalogueRecord(c, t).sem = CatalogueVersion(c) /\ CatalogueRecord(c, t).recorded_at = t
      /\ CatalogueVersion(c).content = Content[c.artifact]
  BY DEF CatalogueRecord, TemporalRecord, CatalogueVersion
<1>2. InstrumentVersion(c, row) = VersionOf(row, CatalogueVersion(c))
  BY DEF InstrumentVersion, VersionOf
<1>3. /\ InstrumentVersion(c, row) \in PlannedVersions(c)
      /\ InstrumentVersion(c, row).instrument = row.instrument
  BY DEF PlannedVersions, InstrumentVersion
<1>4. /\ Mapping(c, row) \in PlannedMappings(c) /\ Mapping(c, row).key = row.key
      /\ Mapping(c, row) = [key |-> row.key, version |-> InstrumentVersion(c, row)]
  BY DEF PlannedMappings, Mapping
<1>5. \E r \in VersionRecords(D, c, t) :
        r.sem = InstrumentVersion(c, row) /\ r.scope = row.instrument /\ r.recorded_at = t
  <2> DEFINE v == InstrumentVersion(c, row)
             r == TemporalRecord(v, v.instrument, t, Leaf(D, "instrument_version", v.instrument))
  <2>1. r.sem = v /\ r.scope = v.instrument /\ r.recorded_at = t
    BY DEF TemporalRecord
  <2>2. r \in VersionRecords(D, c, t)
    BY <1>3 DEF VersionRecords
  <2> HIDE DEF r
  <2> QED
    BY <1>3, <2>1, <2>2
<1>6. \E r \in MappingRecords(D, c, t) :
        r.sem = Mapping(c, row) /\ r.scope = row.key /\ r.recorded_at = t
  <2> DEFINE m == Mapping(c, row)
             r == TemporalRecord(m, m.key, t, Leaf(D, "provider_mapping", m.key))
  <2>1. r.sem = m /\ r.scope = m.key /\ r.recorded_at = t
    BY DEF TemporalRecord
  <2>2. r \in MappingRecords(D, c, t)
    BY <1>4 DEF MappingRecords
  <2> HIDE DEF r
  <2> QED
    BY <1>4, <2>1, <2>2
<1> QED
  BY <1>1, <1>2, <1>4, <1>5, <1>6

LEMMA CommitKeepsWhole == IInv /\ WholeCatalogues /\ [Next]_vars => WholeCatalogues'
<1> SUFFICES ASSUME IInv, WholeCatalogues, [Next]_vars PROVE WholeCatalogues'
  OBVIOUS
<1>1. CASE db' = db
  BY <1>1 DEF WholeCatalogues, Catalogues
<1>2. CASE db' # db
  <2>1. PICK i \in Invocations : db' = Committed(db, db, command[i], recordedAt[i])
    BY <1>2, OnlyCommitWrites
  <2> DEFINE c == command[i]
             t == recordedAt[i]
  <2>2. /\ Catalogues(db') = Catalogues(db) \cup {CatalogueRecord(c, t)}
        /\ db'.records["instrument_version"] = db.records["instrument_version"] \cup VersionRecords(db, c, t)
        /\ db'.records["provider_mapping"] = db.records["provider_mapping"] \cup MappingRecords(db, c, t)
    BY <2>1 DEF Committed, NewRecords, Kinds, Catalogues
  <2>3. ASSUME NEW q \in Catalogues(db'), NEW row \in Rows[q.sem.content]
        PROVE  /\ \E r \in db'.records["instrument_version"] :
                    r.sem = VersionOf(row, q.sem) /\ r.scope = row.instrument /\ r.recorded_at = q.recorded_at
               /\ \E r \in db'.records["provider_mapping"] :
                    /\ r.sem = [key |-> row.key, version |-> VersionOf(row, q.sem)]
                    /\ r.scope = row.key /\ r.recorded_at = q.recorded_at
    <3>1. CASE q \in Catalogues(db)
      BY <2>2, <3>1 DEF WholeCatalogues
    <3>2. CASE q = CatalogueRecord(c, t)
      <4>1. row \in Items(c)
        BY <3>2 DEF Items, CatalogueRecord, TemporalRecord, CatalogueVersion
      <4> HIDE DEF c, t
      <4> QED
        BY <2>2, <3>2, <4>1, CatalogueIsWhole
    <3> QED
      BY <2>2, <3>1, <3>2
  <2> QED
    BY <2>3 DEF WholeCatalogues
<1> QED
  BY <1>1, <1>2

\* A query of the scope of the latest known record, where that one is effective.
LEMMA LatestResolves ==
  ASSUME NEW D, DatabaseInv(D), NEW k \in Kinds, NEW known \in Times, NEW market,
         NEW r \in Visible(D.records[k], known),
         \A x \in Visible(D.records[k], known) : x.recorded_at <= r.recorded_at,
         IntervalOf(k, r).from <= market, market < IntervalOf(k, r).until
  PROVE  StateAt(D, k, r.scope, market, known) = {r}
<1> DEFINE R == OfScope(Visible(D.records[k], known), r.scope)
<1>1. Recorded(R) /\ IsHistory(R)
  BY KnownHistory
<1>2. r \in R /\ \A x \in R : x.recorded_at <= r.recorded_at
  BY DEF OfScope
<1>3. StateAt(D, k, r.scope, market, known) = EligibleLeaves(R, Eligible(k, R, market))
  BY DEF StateAt
<1> HIDE DEF R
<1>4. Eligible(k, R, market) \in SUBSET R /\ r \in Eligible(k, R, market)
  BY <1>2 DEF Eligible
<1> QED
  BY <1>1, <1>2, <1>3, <1>4, LatestIsEligibleLeaf

\* A catalogue takes effect as a whole: whatever was ingested before it and
\* around it, at every cutoff at which it is the known and effective one each of
\* its rows resolves to its version (_add_instruments, resolve_many).
THEOREM CurrentCatalogueResolvesHolds == Spec => []CurrentCatalogueResolves
<1>1. Init => WholeCatalogues
  BY DEF Init, EmptyDatabase, WholeCatalogues, Catalogues, Kinds
<1>2. IInv /\ WholeCatalogues => CurrentCatalogueResolves
  <2> SUFFICES ASSUME DatabaseInv(db), WholeCatalogues, NEW known \in Times, NEW market \in MarketTimes,
                      NEW leaf \in KnowledgeLeaves(Visible(Catalogues(db), known)),
                      leaf \in Eligible("catalogue_version", {leaf}, market),
                      NEW row \in Rows[leaf.sem.content]
               PROVE  ResolveKey(db, row.key, market, known) = Resolved(VersionOf(row, leaf.sem))
    BY DEF IInv, CurrentCatalogueResolves, Catalogues, VersionOf
  <2> DEFINE C == Visible(Catalogues(db), known)
             v == VersionOf(row, leaf.sem)
             m == [key |-> row.key, version |-> v]
  <2>1. /\ C = OfScope(Visible(db.records["catalogue_version"], known), Profile)
        /\ "catalogue_version" \in Kinds /\ "instrument_version" \in Kinds /\ "provider_mapping" \in Kinds
    BY DEF DatabaseInv, OfScope, Visible, Catalogues, Kinds
  <2>2. Recorded(C) /\ IsHistory(C)
    <3> DEFINE R == OfScope(Visible(db.records["catalogue_version"], known), Profile)
    <3>1. Recorded(R) /\ IsHistory(R)
      BY <2>1, KnownHistory
    <3> HIDE DEF R
    <3>2. C = R
      BY <2>1 DEF R
    <3> QED
      BY <3>1, <3>2
  <2>3. /\ leaf \in C /\ leaf \in Catalogues(db) /\ leaf.recorded_at <= known
        /\ leaf.sem.interval.from <= market /\ market < leaf.sem.interval.until
    BY DEF KnowledgeLeaves, Visible, Eligible, IntervalOf
  <2>4. \A c \in C : c.recorded_at <= leaf.recorded_at
    BY <2>2, LeafIsLatest
  <2>5. \A k \in Kinds : \A x \in Visible(db.records[k], known) : x.recorded_at <= leaf.recorded_at
    <3> SUFFICES ASSUME NEW k \in Kinds, NEW x \in Visible(db.records[k], known)
                 PROVE  x.recorded_at <= leaf.recorded_at
      OBVIOUS
    <3>1. PICK c \in Catalogues(db) : c.recorded_at = x.recorded_at
      BY DEF DatabaseInv, Visible
    <3>2. c \in C
      BY <3>1 DEF Visible
    <3> QED
      BY <2>4, <3>1, <3>2
  <2>6. PICK r \in db.records["instrument_version"] :
          r.sem = v /\ r.scope = row.instrument /\ r.recorded_at = leaf.recorded_at
    BY <2>3 DEF WholeCatalogues
  <2>7. PICK q \in db.records["provider_mapping"] :
          q.sem = m /\ q.scope = row.key /\ q.recorded_at = leaf.recorded_at
    BY <2>3 DEF WholeCatalogues
  <2>8. v.catalogue = leaf.sem /\ v.instrument = row.instrument /\ m.version = v
    BY DEF VersionOf
  <2> HIDE DEF v, m, C
  <2>9. /\ IntervalOf("instrument_version", r) = leaf.sem.interval
        /\ IntervalOf("provider_mapping", q) = leaf.sem.interval
    BY <2>6, <2>7, <2>8 DEF IntervalOf
  <2>10. StateAt(db, "instrument_version", row.instrument, market, known) = {r}
    <3>1. r \in Visible(db.records["instrument_version"], known)
      BY <2>3, <2>6 DEF Visible
    <3> QED
      BY <2>1, <2>3, <2>5, <2>6, <2>9, <3>1, LatestResolves
  <2>11. StateAt(db, "provider_mapping", row.key, market, known) = {q}
    <3>1. q \in Visible(db.records["provider_mapping"], known)
      BY <2>3, <2>7 DEF Visible
    <3> QED
      BY <2>1, <2>3, <2>5, <2>7, <2>9, <3>1, LatestResolves
  <2>12. ResolveVersion(db, m, market, known) = Resolved(v)
    <3>1. {x.sem : x \in StateAt(db, "instrument_version", m.version.instrument, market, known)} = {v}
      BY <2>6, <2>8, <2>10
    <3>2. Cardinality({v}) = 1
      BY FS_Singleton
    <3> QED
      BY <2>8, <3>1, <3>2 DEF ResolveVersion
  <2>13. ResolveKey(db, row.key, market, known) = ResolveVersion(db, m, market, known)
    <3> DEFINE M == {x.sem : x \in StateAt(db, "provider_mapping", row.key, market, known)}
    <3>1. M = {m}
      BY <2>7, <2>11
    <3> DEFINE chosen == CHOOSE x \in M : TRUE
    <3>2. Cardinality(M) = 1 /\ M # {}
      BY <3>1, FS_Singleton
    <3>3. ResolveKey(db, row.key, market, known) = ResolveVersion(db, chosen, market, known)
      BY <3>2 DEF ResolveKey
    <3>4. chosen = m
      BY <3>1
    <3> HIDE DEF chosen
    <3> QED
      BY <3>3, <3>4
  <2> QED
    BY <2>12, <2>13 DEF v
<1> QED
  BY <1>1, <1>2, CommitKeepsWhole, Invariance, PTL DEF Spec

\* Where the run of a call that reports success is.
RunInv ==
  /\ AcceptedIsDurable
  /\ \A i \in Invocations : snapshot[i].runs \subseteq db.runs
  /\ \A i \in Invocations : pc[i] # "done" => result[i] = "none"
  /\ \A i \in Invocations : pc[i] = "committed" => \E run \in db.runs : run.command = command[i]

LEMMA ReplayFindsRun ==
  ASSUME NEW D, NEW c, ExistingRuns(D, c) # {}, ReplayOutcome(D, c) = "accepted"
  PROVE  \E run \in D.runs : run.command = c
BY DEF ExistingRuns, ReplayOutcome

\* An ended call changes nobody's run.
LEMMA RunFinish ==
  ASSUME IInv, RunInv, NEW i \in Invocations, NEW outcome, Finish(i, outcome),
         UNCHANGED <<db, command>>,
         outcome = "accepted" => \E run \in db.runs : run.command = command[i]
  PROVE  RunInv'
<1>1. \A j \in Invocations : snapshot'[j].runs \subseteq db.runs
  BY DEF Finish, CloseTransaction, IInv, RunInv, EmptyDatabase
<1> QED
  BY <1>1 DEF Finish, IInv, TypeOK, RunInv, AcceptedIsDurable

LEMMA RunNext ==
  ASSUME IInv, RunInv, [Next]_vars
  PROVE  RunInv'
<1>1. ASSUME NEW i \in Invocations, Invoke(i) PROVE RunInv'
  <2>1. PICK c \in Commands(db) : command' = [command EXCEPT ![i] = c]
    BY <1>1 DEF Invoke
  <2>2. \A j \in Invocations : snapshot'[j].runs \subseteq db.runs
    BY <1>1 DEF Invoke, IInv, RunInv
  <2>3. \A j \in Invocations \ {i} : command'[j] = command[j] /\ pc'[j] = pc[j]
    BY <1>1, <2>1 DEF Invoke, IInv, TypeOK
  <2>4. pc'[i] = "waiting" /\ result[i] = "none"
    BY <1>1 DEF Invoke, IInv, TypeOK, RunInv
  <2> QED
    BY <1>1, <2>2, <2>3, <2>4 DEF Invoke, RunInv, AcceptedIsDurable
<1>2. ASSUME NEW i \in Invocations, AcquireLock(i) PROVE RunInv'
  BY <1>2 DEF AcquireLock, IInv, TypeOK, RunInv, AcceptedIsDurable
<1>3. ASSUME NEW i \in Invocations, Replay(i) PROVE RunInv'
  <2>1. ReplayOutcome(snapshot[i], command[i]) = "accepted" =>
          \E run \in db.runs : run.command = command[i]
    BY <1>3, ReplayFindsRun DEF Replay, RunInv
  <2> QED
    BY <1>3, <2>1, RunFinish DEF Replay
<1>4. ASSUME NEW i \in Invocations, Plan(i) PROVE RunInv'
  <2>1. CASE Finish(i, "rejected")
    BY <1>4, <2>1, RunFinish DEF Plan
  <2>2. CASE /\ pc' = [pc EXCEPT ![i] = "writing"]
             /\ UNCHANGED <<snapshot, result>>
    BY <1>4, <2>2 DEF Plan, IInv, TypeOK, RunInv, AcceptedIsDurable
  <2> QED
    BY <1>4, <2>1, <2>2 DEF Plan
<1>5. ASSUME NEW i \in Invocations, DryRun(i) PROVE RunInv'
  BY <1>5, RunFinish DEF DryRun
<1>6. ASSUME NEW i \in Invocations, Commit(i) PROVE RunInv'
  <2> DEFINE c == command[i]
             run == Run(c, recordedAt[i])
  <2>1. /\ db' = Committed(db, db, c, recordedAt[i]) /\ Writable(db, db, c, recordedAt[i])
    BY <1>6, CommitInv DEF Commit
  <2>2. db'.runs = db.runs \cup {run} /\ run.key = c.key /\ run.command = c
    BY <2>1 DEF Committed, Run
  <2>3. RunFailures(db, db, c) = {}
    <3> DEFINE failures == WritePhases(db, db, c, recordedAt[i])
    <3>1. failures[7] = {}
      BY <2>1 DEF Writable
    <3> QED
      BY <3>1 DEF WritePhases
  <2>4. \A r \in db.runs : r.key # c.key
    BY <2>3 DEF RunFailures
  <2>5. \A j \in Invocations : snapshot'[j].runs \subseteq db'.runs
    BY <1>6, <2>2 DEF Commit, CloseTransaction, IInv, RunInv, EmptyDatabase
  <2> QED
    BY <1>6, <2>2, <2>4, <2>5 DEF Commit, IInv, TypeOK, RunInv, AcceptedIsDurable
<1>7. ASSUME NEW i \in Invocations, Return(i) PROVE RunInv'
  BY <1>7 DEF Return, IInv, TypeOK, RunInv, AcceptedIsDurable
<1>8. ASSUME NEW i \in Invocations, FailWrite(i) PROVE RunInv'
  <2>1. CASE Finish(i, "supersession_conflict")
    BY <1>8, <2>1, RunFinish DEF FailWrite
  <2>2. CASE /\ pc' = [pc EXCEPT ![i] = "fallback"]
             /\ CloseTransaction(i)
             /\ UNCHANGED result
    <3>1. \A j \in Invocations : snapshot'[j].runs \subseteq db.runs
      BY <2>2 DEF CloseTransaction, IInv, RunInv, EmptyDatabase
    <3> QED
      BY <1>8, <2>2, <3>1 DEF FailWrite, IInv, TypeOK, RunInv, AcceptedIsDurable
  <2> QED
    BY <1>8, <2>1, <2>2 DEF FailWrite
<1>9. ASSUME NEW i \in Invocations, LoadAccepted(i) PROVE RunInv'
  <2>1. result'[i] = "accepted" => \E run \in db.runs : run.command = command[i]
    BY <1>9, ReplayFindsRun DEF LoadAccepted, IInv, TypeOK
  <2> QED
    BY <1>9, <2>1 DEF LoadAccepted, IInv, TypeOK, RunInv, AcceptedIsDurable
<1>10. ASSUME NEW i \in Invocations, Crash(i) PROVE RunInv'
  <2>1. \A j \in Invocations : snapshot'[j].runs \subseteq db.runs
    BY <1>10 DEF Crash, CloseTransaction, IInv, RunInv, EmptyDatabase
  <2> QED
    BY <1>10, <2>1 DEF Crash, IInv, TypeOK, RunInv, AcceptedIsDurable
<1>11. ASSUME NEW i \in Invocations, LoseConnection(i) PROVE RunInv'
  <2>1. CASE Finish(i, "failed")
    BY <1>11, <2>1, RunFinish DEF LoseConnection
  <2>2. CASE /\ pc' = [pc EXCEPT ![i] = "fallback"]
             /\ CloseTransaction(i)
             /\ UNCHANGED result
    <3>1. \A j \in Invocations : snapshot'[j].runs \subseteq db.runs
      BY <2>2 DEF CloseTransaction, IInv, RunInv, EmptyDatabase
    <3> QED
      BY <1>11, <2>2, <3>1 DEF LoseConnection, IInv, TypeOK, RunInv, AcceptedIsDurable
  <2> QED
    BY <1>11, <2>1, <2>2 DEF LoseConnection
<1>12. CASE Tick
  BY <1>12 DEF Tick, RunInv, AcceptedIsDurable
<1>13. CASE UNCHANGED vars
  BY <1>13 DEF vars, RunInv, AcceptedIsDurable
<1> QED
  BY <1>1, <1>2, <1>3, <1>4, <1>5, <1>6, <1>7, <1>8, <1>9, <1>10, <1>11, <1>12, <1>13 DEF Next, Step

\* A call that reports success has its own command's run in the database, and no
\* idempotency key ever has two runs (_commit, _load_accepted_idempotent).
THEOREM SuccessIsDurable == Spec => []AcceptedIsDurable
<1>1. Init => RunInv
  BY DEF Init, RunInv, AcceptedIsDurable, EmptyDatabase
<1>2. IInv /\ RunInv /\ [Next]_vars => RunInv'
  BY RunNext
<1>3. RunInv => AcceptedIsDurable
  BY DEF RunInv
<1> QED
  BY <1>1, <1>2, <1>3, Invariance, PTL DEF Spec

-----------------------------------------------------------------------------
(* Retries                                                                 *)

\* What a call does not see of a run of its own command: the run's catalogue is none
\* of its snapshot, and its plan is the one the run was accepted with.
RetryOf(i) ==
  /\ snapshot[i].catalogues \subseteq db.catalogues
  /\ \A run \in db.runs \ snapshot[i].runs : CatalogueVersion(run.command) \notin snapshot[i].catalogues
  /\ pc[i] \in InTransaction =>
       /\ startedAt[i] <= clock
       /\ command[i].supersedes \subseteq Catalogues(snapshot[i])
       /\ \A run \in db.runs \ snapshot[i].runs :
            run.command = command[i] => ~PlanRejected(snapshot[i], command[i])
  /\ pc[i] = "writing" => ExistingRuns(snapshot[i], command[i]) = {}

\* Every run has a catalogue of its own, which its memberships tell.
OwnCatalogues ==
  /\ \A v \in db.catalogues : \E m \in db.memberships : m.catalogue = v
  /\ \A run \in db.runs : run.key = run.command.key /\ CatalogueVersion(run.command) \in db.catalogues

RetryInv == OwnCatalogues /\ \A i \in Invocations : RetryOf(i)

\* A step of one call, which changes no rows, leaves the others behind as they are.
LEMMA RetryStepOf ==
  ASSUME RetryInv, NEW i \in Invocations, UNCHANGED <<db, clock>>,
         \A j \in Invocations \ {i} :
           /\ pc'[j] = pc[j] /\ command'[j] = command[j]
           /\ startedAt'[j] = startedAt[j] /\ snapshot'[j] = snapshot[j],
         RetryOf(i)'
  PROVE  RetryInv'
<1>1. OwnCatalogues'
  BY DEF RetryInv, OwnCatalogues
<1>2. ASSUME NEW j \in Invocations, j # i PROVE RetryOf(j)'
  <2>1. RetryOf(j) /\ pc'[j] = pc[j] /\ command'[j] = command[j]
        /\ startedAt'[j] = startedAt[j] /\ snapshot'[j] = snapshot[j]
    BY <1>2 DEF RetryInv
  <2> QED
    BY <2>1 DEF RetryOf
<1> QED
  BY <1>1, <1>2 DEF RetryInv

\* A call without a transaction is behind nothing.
LEMMA RetryEnded ==
  ASSUME NEW i \in Invocations, pc'[i] \notin InTransaction, snapshot'[i] = EmptyDatabase
  PROVE  RetryOf(i)'
<1>1. EmptyDatabase.catalogues = {}
  BY DEF EmptyDatabase
<1>2. pc'[i] # "writing"
  BY DEF InTransaction
<1> QED
  BY <1>1, <1>2 DEF RetryOf

LEMMA RetryClosed ==
  ASSUME IInv, RetryInv, NEW i \in Invocations, NEW l, l \notin InTransaction,
         pc' = [pc EXCEPT ![i] = l], CloseTransaction(i), UNCHANGED <<db, clock>>,
         \A j \in Invocations \ {i} : command'[j] = command[j]
  PROVE  RetryInv'
<1>1. pc'[i] = l /\ snapshot'[i] = EmptyDatabase
  BY DEF IInv, TypeOK, CloseTransaction
<1>2. \A j \in Invocations \ {i} :
        /\ pc'[j] = pc[j] /\ startedAt'[j] = startedAt[j] /\ snapshot'[j] = snapshot[j]
  BY DEF IInv, TypeOK, CloseTransaction
<1> QED
  BY <1>1, <1>2, RetryEnded, RetryStepOf

\* The plan of a retry is that of the run which the retry does not see: that run was
\* planned from rows in which the record it supersedes was the latest, and a snapshot
\* that has this record lacks none of them.
LEMMA RetryPlansAlike ==
  ASSUME DatabaseInv(db), NEW c, c.artifact \in Artifacts, ~PlanRejected(db, c),
         NEW S, Behind(S, db), S = db \/ Catalogues(S) # Catalogues(db),
         c.supersedes \subseteq Catalogues(S)
  PROVE  ~PlanRejected(S, c)
<1>1. SUFFICES ASSUME NEW new \in Catalogues(db), new \notin Catalogues(S)
               PROVE  FALSE
  BY DEF Behind
<1>2. OfScope(Catalogues(db), Profile) = Catalogues(db)
  BY DEF OfScope, DatabaseInv
<1>3. History(Catalogues(db))
  BY <1>2, ScopeHistory DEF Catalogues, Kinds
<1>4. c.supersedes = KnowledgeLeaves(Catalogues(db))
  BY <1>2 DEF PlanRejected, Leaf, Catalogues
<1>5. PICK p \in Catalogues(db) :
        /\ KnowledgeLeaves(Catalogues(db)) = {p}
        /\ \A r \in Catalogues(db) : r.recorded_at <= p.recorded_at
  BY <1>1, <1>3 DEF History, HasTip
<1>6. p \in Catalogues(S)
  BY <1>4, <1>5
<1>7. p.recorded_at < new.recorded_at /\ new.recorded_at <= p.recorded_at
  BY <1>1, <1>5, <1>6 DEF Behind
<1>8. p.recorded_at \in Nat /\ new.recorded_at \in Nat
  BY <1>1, CommandAssumption DEF DatabaseInv, Catalogues, Kinds
<1> QED
  BY <1>7, <1>8

LEMMA RetryCommit ==
  ASSUME IInv, RetryInv, NEW i \in Invocations, Commit(i)
  PROVE  RetryInv'
<1> DEFINE c == command[i]
           t == recordedAt[i]
<1>1. /\ db' = Committed(db, db, c, t) /\ Writable(db, db, c, t) /\ ~PlanRejected(db, c)
      /\ DatabaseInv(db) /\ c.artifact \in Artifacts
  <2>1. snapshot[i] = db
    BY CommitInv
  <2> QED
    BY <2>1 DEF Commit, IInv, InvocationInv, TypeOK
<1>2. CatalogueVersion(c) \notin db.catalogues
  <2>1. MembershipFailures(db, db, c) = {}
    <3> DEFINE failures == WritePhases(db, db, c, t)
    <3>1. failures[8] = {}
      BY <1>1 DEF Writable
    <3> QED
      BY <3>1 DEF WritePhases
  <2> QED
    BY <2>1 DEF MembershipFailures, RetryInv, OwnCatalogues
<1>3. /\ db'.catalogues = db.catalogues \cup {CatalogueVersion(c)}
      /\ db'.runs = db.runs \cup {Run(c, t)} /\ Run(c, t).command = c /\ Run(c, t).key = c.key
      /\ db'.memberships = db.memberships \cup NewMemberships(c, t)
  BY <1>1 DEF Committed, Run
<1>4. OwnCatalogues'
  <2>1. \E m \in NewMemberships(c, t) : m.catalogue = CatalogueVersion(c)
    <3>1. PICK row \in Items(c) : TRUE
      BY <1>1, CommandAssumption, ProfileAssumption DEF Items
    <3> DEFINE m == [catalogue |-> CatalogueVersion(c), mapping |-> Mapping(c, row), run |-> Run(c, t)]
    <3>2. m \in NewMemberships(c, t) /\ m.catalogue = CatalogueVersion(c)
      BY DEF NewMemberships, PlannedMappings
    <3> QED
      BY <3>2
  <2> HIDE DEF c, t
  <2> QED
    BY <1>3, <2>1 DEF RetryInv, OwnCatalogues
<1>5. RetryOf(i)'
  BY RetryEnded DEF Commit, CloseTransaction, IInv, TypeOK, InTransaction
<1>6. ASSUME NEW j \in Invocations, j # i PROVE RetryOf(j)'
  <2>1. /\ pc'[j] = pc[j] /\ command'[j] = command[j] /\ startedAt'[j] = startedAt[j]
        /\ snapshot'[j] = snapshot[j] /\ clock' = clock
    BY <1>6 DEF Commit, CloseTransaction, IInv, TypeOK
  <2>2. RetryOf(j) /\ InvocationInv(j)
    BY DEF RetryInv, IInv
  <2>3. snapshot[j].catalogues \subseteq db'.catalogues
    BY <1>3, <2>2 DEF RetryOf
  <2>4. \A run \in db'.runs \ snapshot[j].runs : CatalogueVersion(run.command) \notin snapshot[j].catalogues
    BY <1>2, <1>3, <2>2 DEF RetryOf
  <2>5. pc[j] \in InTransaction =>
          \A run \in db'.runs \ snapshot[j].runs :
            run.command = command[j] => ~PlanRejected(snapshot[j], command[j])
    <3> SUFFICES ASSUME pc[j] \in InTransaction, NEW run \in db'.runs, run \notin snapshot[j].runs,
                        run.command = command[j]
                 PROVE  ~PlanRejected(snapshot[j], command[j])
      OBVIOUS
    <3>1. CASE run \in db.runs
      BY <2>2, <3>1 DEF RetryOf
    <3>2. CASE run = Run(c, t)
      <4>1. command[j] = c
        BY <1>3, <3>2
      <4>2. /\ Behind(snapshot[j], db) /\ c.supersedes \subseteq Catalogues(snapshot[j])
            /\ snapshot[j] = db \/ Catalogues(snapshot[j]) # Catalogues(db)
        BY <2>2, <4>1 DEF RetryOf, InvocationInv
      <4> HIDE DEF c, t
      <4> QED
        BY <1>1, <4>1, <4>2, RetryPlansAlike
    <3> QED
      BY <1>3, <3>1, <3>2
  <2> QED
    BY <2>1, <2>2, <2>3, <2>4, <2>5 DEF RetryOf
<1> QED
  BY <1>4, <1>5, <1>6 DEF RetryInv

LEMMA RetryNext ==
  ASSUME ~StepBack, IInv, RunInv, RetryInv, [Next]_vars
  PROVE  RetryInv'
<1>1. ASSUME NEW i \in Invocations, Invoke(i) PROVE RetryInv'
  <2>1. PICK c \in Commands(db) : command' = [command EXCEPT ![i] = c]
    BY <1>1 DEF Invoke
  <2>2. command'[i] = c /\ c.supersedes \subseteq Catalogues(db)
    BY <2>1 DEF IInv, Commands, Catalogues
  <2>3. /\ pc'[i] = "waiting" /\ snapshot'[i] = db /\ startedAt'[i] = clock
        /\ UNCHANGED <<db, clock>> /\ clock \in Nat
    BY <1>1, CommandAssumption DEF Invoke, IInv, TypeOK
  <2>4. RetryOf(i)'
    BY <2>2, <2>3 DEF RetryOf
  <2>5. \A j \in Invocations \ {i} :
           /\ pc'[j] = pc[j] /\ command'[j] = command[j]
           /\ startedAt'[j] = startedAt[j] /\ snapshot'[j] = snapshot[j]
    BY <1>1, <2>1 DEF Invoke, IInv, TypeOK
  <2> QED
    BY <2>3, <2>4, <2>5, RetryStepOf
<1>2. ASSUME NEW i \in Invocations, AcquireLock(i) PROVE RetryInv'
  <2>1. /\ pc[i] = "waiting" /\ pc'[i] = "locked"
        /\ UNCHANGED <<db, clock, command, startedAt, snapshot>>
        /\ \A j \in Invocations \ {i} : pc'[j] = pc[j]
    BY <1>2 DEF AcquireLock, IInv, TypeOK
  <2>2. RetryOf(i)'
    BY <2>1 DEF RetryInv, RetryOf, InTransaction
  <2> QED
    BY <2>1, <2>2, RetryStepOf
<1>3. ASSUME NEW i \in Invocations, NEW outcome, Finish(i, outcome), UNCHANGED <<clock, db, command>>
      PROVE  RetryInv'
  <2>1. "done" \notin InTransaction
    BY DEF InTransaction
  <2> QED
    BY <1>3, <2>1, RetryClosed DEF Finish
<1>4. ASSUME NEW i \in Invocations, pc' = [pc EXCEPT ![i] = "fallback"], CloseTransaction(i),
             UNCHANGED <<clock, db, command>>
      PROVE  RetryInv'
  <2>1. "fallback" \notin InTransaction
    BY DEF InTransaction
  <2> QED
    BY <1>4, <2>1, RetryClosed
<1>5. ASSUME NEW i \in Invocations, Plan(i) PROVE RetryInv'
  <2>1. CASE Finish(i, "rejected")
    BY <1>3, <1>5, <2>1 DEF Plan
  <2>2. CASE /\ pc' = [pc EXCEPT ![i] = "writing"]
             /\ UNCHANGED <<lock, snapshot, startedAt, result>>
    <3>1. /\ pc[i] = "locked" /\ pc'[i] = "writing" /\ ExistingRuns(snapshot[i], command[i]) = {}
          /\ UNCHANGED <<db, clock, command, startedAt, snapshot>>
          /\ \A j \in Invocations \ {i} : pc'[j] = pc[j]
      BY <1>5, <2>2 DEF Plan, IInv, TypeOK
    <3>2. RetryOf(i)'
      BY <3>1 DEF RetryInv, RetryOf, InTransaction, ExistingRuns
    <3> QED
      BY <3>1, <3>2, RetryStepOf
  <2> QED
    BY <1>5, <2>1, <2>2 DEF Plan
<1>6. ASSUME NEW i \in Invocations, Commit(i) PROVE RetryInv'
  BY <1>6, RetryCommit
<1>7. ASSUME NEW i \in Invocations, Return(i) \/ LoadAccepted(i) PROVE RetryInv'
  <2>1. /\ pc[i] \notin InTransaction /\ pc'[i] \notin InTransaction /\ pc'[i] # "writing"
        /\ UNCHANGED <<db, clock, command, startedAt, snapshot>>
        /\ \A j \in Invocations \ {i} : pc'[j] = pc[j]
    BY <1>7 DEF Return, LoadAccepted, InTransaction, IInv, TypeOK
  <2>2. RetryOf(i)'
    BY <2>1 DEF RetryInv, RetryOf
  <2> QED
    BY <2>1, <2>2, RetryStepOf
<1>8. ASSUME NEW i \in Invocations, Replay(i) \/ DryRun(i) PROVE RetryInv'
  BY <1>3, <1>8 DEF Replay, DryRun
<1>9. ASSUME NEW i \in Invocations, FailWrite(i) \/ LoseConnection(i) PROVE RetryInv'
  BY <1>3, <1>4, <1>9 DEF FailWrite, LoseConnection
<1>10. ASSUME NEW i \in Invocations, Crash(i) PROVE RetryInv'
  <2>1. "crashed" \notin InTransaction
    BY DEF InTransaction
  <2>2. \A j \in Invocations \ {i} : command'[j] = command[j]
    BY <1>10 DEF Crash, IInv
  <2> QED
    BY <1>10, <2>1, <2>2, RetryClosed DEF Crash
<1>11. CASE Tick
  <2>1. clock \in Nat /\ clock' \in Nat /\ clock < clock'
    BY <1>11, CommandAssumption DEF Tick, IInv, TypeOK
  <2>2. ASSUME NEW i \in Invocations PROVE RetryOf(i)'
    <3>1. RetryOf(i) /\ UNCHANGED <<db, pc, command, startedAt, snapshot>>
      BY <1>11 DEF Tick, RetryInv
    <3>2. pc[i] \in InTransaction => startedAt[i] \in Nat
      BY CommandAssumption DEF IInv, InvocationInv
    <3>3. pc[i] \in InTransaction => startedAt[i] <= clock'
      BY <2>1, <3>1, <3>2 DEF RetryOf
    <3> QED
      BY <3>1, <3>3 DEF RetryOf
  <2> QED
    BY <1>11, <2>2 DEF Tick, RetryInv, OwnCatalogues
<1>12. CASE UNCHANGED vars
  <2>1. UNCHANGED <<clock, db, pc, command, startedAt, snapshot>>
    BY <1>12 DEF vars
  <2> QED
    BY <2>1 DEF RetryInv, RetryOf, OwnCatalogues
<1> QED
  BY <1>1, <1>2, <1>5, <1>6, <1>7, <1>8, <1>9, <1>10, <1>11, <1>12 DEF Next, Step

\* The first write a run can meet that its retry does not see is its catalogue's row:
\* PostgreSQL reports a serialization failure before any record is written.
LEMMA RetryIsNoConflict ==
  ASSUME NEW S, NEW D, NEW c, NEW t, CatalogueVersion(c) \in D.catalogues \ S.catalogues
  PROVE  "supersession_conflict" \notin WriteErrors(S, D, c, t)
<1> DEFINE failures == WritePhases(S, D, c, t)
<1>1. failures[1] = RowFailures(S, D, {c.artifact}, "artifacts")
  BY DEF WritePhases
<1>2. failures[2] = RowFailures(S, D, {CatalogueVersion(c)}, "catalogues")
  BY DEF WritePhases
<1>3. "supersession_conflict" \notin failures[1] /\ "supersession_conflict" \notin failures[2]
  BY <1>1, <1>2 DEF RowFailures
<1>4. failures[2] # {}
  <2>1. D["catalogues"] = D.catalogues /\ S["catalogues"] = S.catalogues
    OBVIOUS
  <2>2. Unserializable(S, D, {CatalogueVersion(c)}, "catalogues")
    BY <2>1 DEF Unserializable
  <2> QED
    BY <1>2, <2>2 DEF RowFailures
<1> HIDE DEF failures
<1>5. ASSUME NEW n \in 1..8, \A m \in 1..(n - 1) : failures[m] = {}
      PROVE  "supersession_conflict" \notin failures[n]
  <2>1. n = 1 \/ n = 2 \/ 2 \in 1..(n - 1)
    OBVIOUS
  <2> QED
    BY <1>3, <1>4, <1>5, <2>1
<1> QED
  BY <1>5 DEF WriteErrors, failures

\* No call is ever told that a command failed which has been accepted: a retry of it
\* or a call at the same time ends as a verified success (_load_accepted_idempotent),
\* as long as the clock is not set back, which would make a call older than its start.
THEOREM AcceptedIsNeverRefused ==
  ASSUME ~StepBack
  PROVE  Spec => AcceptedNeverRefused
<1>1. Init => RunInv
  BY DEF Init, RunInv, AcceptedIsDurable, EmptyDatabase
<1>2. Init => RetryInv
  <2> SUFFICES ASSUME Init PROVE RetryInv
    OBVIOUS
  <2>1. db.catalogues = {} /\ db.runs = {}
    BY DEF Init, EmptyDatabase
  <2>2. \A i \in Invocations : pc[i] \notin InTransaction /\ pc[i] # "writing" /\ snapshot[i] = db
    BY DEF Init, InTransaction
  <2> QED
    BY <2>1, <2>2 DEF RetryInv, RetryOf, OwnCatalogues
<1>3. IInv /\ RunInv /\ [Next]_vars => RunInv'
  BY RunNext
<1>4. IInv /\ RunInv /\ RetryInv /\ [Next]_vars => RetryInv'
  BY RetryNext
<1>5. IInv /\ RunInv /\ RetryInv /\ [Next]_vars =>
        \A i \in Invocations :
          result'[i] # result[i] /\ result'[i] \notin {"accepted", "planned"} /\ command[i].mode = "commit"
            => ~\E run \in db.runs : run.command = command[i]
  <2> SUFFICES ASSUME IInv, RunInv, RetryInv, [Next]_vars, NEW i \in Invocations,
                      result'[i] # result[i], result'[i] \notin {"accepted", "planned"},
                      command[i].mode = "commit",
                      NEW run \in db.runs, run.command = command[i]
               PROVE  FALSE
    OBVIOUS
  <2>1. \/ Replay(i) \/ Plan(i) \/ DryRun(i) \/ FailWrite(i) \/ LoadAccepted(i) \/ LoseConnection(i)
        \/ Return(i)
    <3>1. PICK j \in Invocations : Step(j) \/ LoseConnection(j)
      BY DEF Next, vars, Tick, Crash
    <3>2. ASSUME NEW outcome, Finish(j, outcome) PROVE i = j
      BY <3>2 DEF Finish, IInv, TypeOK
    <3>3. CASE Replay(j) \/ DryRun(j)
      BY <3>2, <3>3 DEF Replay, DryRun
    <3>4. CASE Plan(j)
      BY <3>2, <3>4 DEF Plan
    <3>5. CASE FailWrite(j)
      BY <3>2, <3>5 DEF FailWrite
    <3>6. CASE LoseConnection(j)
      BY <3>2, <3>6 DEF LoseConnection
    <3>7. CASE Return(j) \/ LoadAccepted(j)
      BY <3>7 DEF Return, LoadAccepted, IInv, TypeOK
    <3>8. CASE Invoke(j) \/ AcquireLock(j) \/ Commit(j)
      BY <3>8 DEF Invoke, AcquireLock, Commit
    <3> QED
      BY <3>1, <3>3, <3>4, <3>5, <3>6, <3>7, <3>8 DEF Step
  <2>2. RetryOf(i) /\ InvocationInv(i)
    BY DEF RetryInv, IInv
  <2>3. \A r \in db.runs : r.key = command[i].key => r.command = command[i]
    BY DEF RunInv, AcceptedIsDurable, RetryInv, OwnCatalogues
  <2>4. ASSUME NEW D \in {db, snapshot[i]} PROVE ReplayOutcome(D, command[i]) = "accepted"
    <3>1. D.runs \subseteq db.runs
      BY <2>4 DEF RunInv
    <3> QED
      BY <2>3, <3>1 DEF ReplayOutcome, ExistingRuns
  <2>5. CASE Replay(i)
    BY <2>4, <2>5 DEF Replay, Finish, IInv, TypeOK
  <2>6. CASE Plan(i)
    <3>1. /\ pc[i] = "locked" /\ ExistingRuns(snapshot[i], command[i]) = {}
          /\ clock < startedAt[i] \/ PlanRejected(snapshot[i], command[i])
      BY <2>6 DEF Plan
    <3>2. run \notin snapshot[i].runs
      <4>1. run.key = command[i].key
        BY DEF RetryInv, OwnCatalogues
      <4> QED
        BY <3>1, <4>1 DEF ExistingRuns
    <3>3. startedAt[i] \in Nat /\ clock \in Nat /\ startedAt[i] <= clock
      BY <2>2, <3>1, CommandAssumption DEF InvocationInv, RetryOf, InTransaction, IInv, TypeOK
    <3>4. ~PlanRejected(snapshot[i], command[i])
      BY <2>2, <3>1, <3>2 DEF RetryOf, InTransaction
    <3> QED
      BY <3>1, <3>3, <3>4
  <2>7. CASE FailWrite(i)
    <3>1. "supersession_conflict" \in WriteErrors(snapshot[i], db, command[i], recordedAt[i])
      BY <2>7 DEF FailWrite
    <3>2. run \notin snapshot[i].runs
      <4>1. ExistingRuns(snapshot[i], command[i]) = {} /\ run.key = command[i].key
        BY <2>2, <2>7 DEF FailWrite, RetryOf, RetryInv, OwnCatalogues
      <4> QED
        BY <4>1 DEF ExistingRuns
    <3>3. CatalogueVersion(command[i]) \in db.catalogues \ snapshot[i].catalogues
      BY <2>2, <3>2 DEF RetryOf, RetryInv, OwnCatalogues
    <3> QED
      BY <3>1, <3>3, RetryIsNoConflict
  <2>8. CASE LoadAccepted(i)
    <3>1. run \in ExistingRuns(db, command[i])
      BY DEF RetryInv, OwnCatalogues, ExistingRuns
    <3>2. result'[i] = ReplayOutcome(db, command[i])
      BY <2>8, <3>1 DEF LoadAccepted, IInv, TypeOK
    <3> QED
      BY <2>4, <3>2
  <2>9. CASE DryRun(i) \/ LoseConnection(i) \/ Return(i)
    BY <2>9 DEF DryRun, LoseConnection, Return, Finish, IInv, TypeOK
  <2> QED
    BY <2>1, <2>5, <2>6, <2>7, <2>8, <2>9
<1> QED
  BY <1>1, <1>2, <1>3, <1>4, <1>5, Invariance, PTL DEF Spec, AcceptedNeverRefused

=============================================================================
