--------------------------- MODULE TemporalRecords ---------------------------
(***************************************************************************)
(* Append-only knowledge records and the point-in-time queries over them   *)
(* (backend/app/instruments/temporal_records.py).                          *)
(*                                                                         *)
(* A record says that, from the instant recorded_at on, the system knows   *)
(* the semantic object "sem" of the entity "scope"; it may supersede one   *)
(* earlier record.  A record identity is the hash of all its fields, so a  *)
(* record is its own identity here and two records with the same content   *)
(* are one record.                                                         *)
(*                                                                         *)
(* The operators take a set of records of ONE kind (one *_records table).  *)
(* The code's test for a cycle has no counterpart: a successor must be     *)
(* recorded strictly after its target, so a graph that passes the other    *)
(* tests has none.                                                         *)
(***************************************************************************)
EXTENDS Integers, FiniteSets

\* pred is the set of the record superseded: empty when supersedes_record_id is
\* NULL.
TemporalRecord(sem, scope, at, pred) ==
  [sem |-> sem, scope |-> scope, recorded_at |-> at, supersedes |-> pred]

Visible(R, known) == {r \in R : r.recorded_at <= known}

Superseded(R) == UNION {r.supersedes : r \in R}

\* _validated_visible_graph raises unless this holds.
ValidGraph(R) ==
  /\ \A r \in R : \A p \in r.supersedes :
       p \in R /\ p.scope = r.scope /\ p.recorded_at < r.recorded_at
  /\ \A r, s \in R : r.supersedes \cap s.supersedes # {} => r = s

\* The current knowledge leaves: resolve_temporal_knowledge_leaf raises when
\* there are several.
KnowledgeLeaves(R) == R \ Superseded(R)

\* The records an eligible record hides: the whole path of its predecessors.
Ancestors(R) ==
  LET up[r \in R] == r.supersedes \cup UNION {up[p] : p \in r.supersedes}
  IN  up

\* resolve_temporal_state: E is the set of the visible records whose value is
\* valid at the market cutoff.  It raises when there are several leaves.
EligibleLeaves(R, E) ==
  LET up == Ancestors(R)
  IN  {r \in E : \A s \in E : r \notin up[s]}

\* The records R of one scope are one unbranched history: each supersedes the
\* one recorded immediately before it, and nothing when it is the first.
IsHistory(R) ==
  /\ \A r, s \in R : r.recorded_at = s.recorded_at => r = s
  /\ \A r \in R : r.supersedes =
       {p \in R : /\ p.recorded_at < r.recorded_at
                 /\ \A s \in R : s.recorded_at < r.recorded_at => s.recorded_at <= p.recorded_at}
=============================================================================
