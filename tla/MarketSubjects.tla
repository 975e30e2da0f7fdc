---------------------------- MODULE MarketSubjects ----------------------------
(***************************************************************************)
(* What CatalogueMarketSubjectResolver (backend/app/services/              *)
(* catalogue_market_subject_resolver.py) answers while catalogues are      *)
(* being ingested.  The resolver reads in one REPEATABLE READ transaction, *)
(* so an answer is a function of the rows committed at one instant.        *)
(***************************************************************************)
EXTENDS CatalogueIngestion

\* resolve_provider_key_mapping_state and resolve_version_state: they raise when
\* there are several leaves, or when the visible graph is not valid, which never
\* happens (EveryCutoffResolves).
StateAt(D, kind, s, market, known) ==
  LET R == OfScope(Visible(D.records[kind], known), s)
  IN  EligibleLeaves(R, Eligible(kind, R, market))

Failure(reason) == [reason |-> reason, version |-> {}]
Resolved(version) == [reason |-> "resolved", version |-> {version}]

\* The version half of resolve_many, for a provider key with this mapping.  The
\* last failure is the PersistenceIntegrityError, which ends the whole batch.
ResolveVersion(D, mapping, market, known) ==
  LET versions == {r.sem : r \in StateAt(D, "instrument_version", mapping.version.instrument, market, known)}
  IN  CASE versions = {} -> Failure("stale_provider_mapping")
        [] Cardinality(versions) > 1 -> Failure("ambiguous_contract_version")
        [] versions = {mapping.version} -> Resolved(mapping.version)
        [] OTHER -> Failure("different_instrument_version")

\* The answer of resolve_many for one provider key.
ResolveKey(D, key, market, known) ==
  LET mappings == {r.sem : r \in StateAt(D, "provider_mapping", key, market, known)}
  IN  IF Cardinality(mappings) > 1 THEN Failure("ambiguous_provider_mapping")
      ELSE IF mappings # {} THEN ResolveVersion(D, CHOOSE m \in mappings : TRUE, market, known)
      ELSE IF BoundInstruments(D, key) # {} THEN Failure("stale_provider_mapping")
      ELSE Failure("unknown_provider_key")

-----------------------------------------------------------------------------
ProviderKeys == UNION {{row.key : row \in Rows[c]} : c \in Contents}

\* At every knowledge cutoff, every row of the catalogue that is current at that
\* cutoff resolves, at every market cutoff of the catalogue's interval, to the
\* version of that catalogue: a catalogue takes effect as a whole, whatever
\* invocations were interleaved with the one that committed it, and whatever
\* older catalogues are still effective (_add_instruments, resolve_many).
CurrentCatalogueResolves ==
  \A known \in Times, market \in MarketTimes :
    \A leaf \in KnowledgeLeaves(Visible(db.records["catalogue_version"], known)) :
      leaf \in Eligible("catalogue_version", {leaf}, market) =>
        \A row \in Rows[leaf.sem.content] :
          ResolveKey(db, row.key, market, known) =
            Resolved([instrument |-> row.instrument, metadata |-> row.metadata,
                      catalogue |-> leaf.sem])

\* "Earlier knowledge cutoffs remain reproducible": once the clock is past a
\* cutoff, no commit changes the version a key resolves to at that cutoff
\* (_commit reads its write timestamp before it writes and commits).
PastVersionsReproducible ==
  [][\A key \in ProviderKeys, market \in MarketTimes, known \in Times :
       known < clock =>
         ResolveKey(db', key, market, known).version = ResolveKey(db, key, market, known).version]_vars

\* The reasons a key is not resolved are the four declared ones: a mapping and
\* the version it resolves to never differ (resolve_many).
FailuresAreDeclared ==
  \A key \in ProviderKeys, market \in MarketTimes, known \in Times :
    ResolveKey(db, key, market, known).reason # "different_instrument_version"
=============================================================================
