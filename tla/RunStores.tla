------------------------------ MODULE RunStores ------------------------------
(***************************************************************************)
(* The directories of a run: create_run of SimulationRunStore              *)
(* (backend/app/simulation/run_store.py) and of RVRunStore                 *)
(* (backend/app/services/rv_run_store.py).  A run is written to a          *)
(* temporary directory, which is renamed to the final one.                 *)
(*                                                                         *)
(* The id of a simulation is the hash of its configuration, so that two    *)
(* processes that are given the same one share both directories; the id of *)
(* a research run has the time in it, and they do not.  A step is a call   *)
(* of the file system; a process may be killed between two of them.        *)
(***************************************************************************)
EXTENDS Naturals, FiniteSets

CONSTANTS
  Processes,   \* processes that call create_run
  ArtifactCount \* the artifacts of a run, beside the manifest

ASSUME ArtifactAssumption == ArtifactCount \in Nat

VARIABLES
  store,       \* which of the two stores
  at,          \* where each process is in create_run
  written,     \* how many artifacts each process wrote
  temporary,   \* the temporary directory
  final,       \* the final directory
  overlapped   \* two processes were in create_run at once

storeVars == <<store, at, written, temporary, final, overlapped>>

NoDirectory == [there |-> FALSE, manifest |-> "none", artifacts |-> 0]
NewDirectory == [NoDirectory EXCEPT !.there = TRUE]

Ended == {"idle", "killed", "raised", "completed", "failed"}

\* os.replace moves a directory onto none, or onto an empty one.
CanReplace == temporary.there /\ final \in {NoDirectory, NewDirectory}

Replace == final' = temporary /\ temporary' = NoDirectory

GoTo(p, label) == at' = [at EXCEPT ![p] = label]

\* A file is written to the temporary directory, if it is there.
WriteOr(p, failure, next, changed) ==
  IF temporary.there
  THEN temporary' = changed /\ GoTo(p, next)
  ELSE GoTo(p, failure) /\ UNCHANGED temporary

-----------------------------------------------------------------------------
Begin(p) ==
  /\ at[p] = "idle"
  /\ store = "rv" => \A q \in Processes : at[q] = "idle"
  /\ GoTo(p, IF store = "simulation" THEN "checking" ELSE "clearing")
  /\ overlapped' = (overlapped \/ \E q \in Processes : at[q] \notin Ended)
  /\ UNCHANGED <<store, written, temporary, final>>

\* A run that exists is refused.
CheckFinal(p) ==
  /\ at[p] = "checking"
  /\ GoTo(p, IF final.there THEN "raised" ELSE IF store = "simulation" THEN "clearing" ELSE "making")
  /\ UNCHANGED <<store, written, temporary, final, overlapped>>

\* What a killed process left is removed.
ClearTemporary(p) ==
  /\ at[p] = "clearing"
  /\ temporary' = NoDirectory
  /\ GoTo(p, IF store = "simulation" THEN "making" ELSE "checking")
  /\ UNCHANGED <<store, written, final, overlapped>>

MakeTemporary(p) ==
  /\ at[p] = "making"
  /\ IF temporary.there
     THEN GoTo(p, "raised") /\ UNCHANGED temporary
     ELSE GoTo(p, "starting") /\ temporary' = NewDirectory
  /\ UNCHANGED <<store, written, final, overlapped>>

WriteRunning(p) ==
  /\ at[p] = "starting"
  /\ WriteOr(p, "raised", "writing", [temporary EXCEPT !.manifest = "running"])
  /\ UNCHANGED <<store, written, final, overlapped>>

\* write_artifacts: the artifacts one by one.
WriteArtifact(p) ==
  /\ at[p] = "writing" /\ written[p] < ArtifactCount
  /\ WriteOr(p, "failing", "writing",
             [temporary EXCEPT !.artifacts = IF @ < written[p] + 1 THEN written[p] + 1 ELSE @])
  /\ written' = [written EXCEPT ![p] = IF temporary.there THEN @ + 1 ELSE @]
  /\ UNCHANGED <<store, final, overlapped>>

\* It raises: the run is rejected, or its reconciliation fails.
ArtifactsFail(p) ==
  /\ at[p] = "writing"
  /\ GoTo(p, "failing")
  /\ UNCHANGED <<store, written, temporary, final, overlapped>>

WriteComplete(p) ==
  /\ at[p] = "writing" /\ written[p] = ArtifactCount
  /\ WriteOr(p, "failing", "publishing", [temporary EXCEPT !.manifest = "complete"])
  /\ UNCHANGED <<store, written, final, overlapped>>

PublishComplete(p) ==
  /\ at[p] = "publishing"
  /\ IF CanReplace
     THEN Replace /\ GoTo(p, "completed")
     ELSE GoTo(p, "failing") /\ UNCHANGED <<temporary, final>>
  /\ UNCHANGED <<store, written, overlapped>>

WriteFailed(p) ==
  /\ at[p] = "failing"
  /\ WriteOr(p, "raised", IF store = "rv" THEN "removing" ELSE "replacing",
             [temporary EXCEPT !.manifest = "failed"])
  /\ UNCHANGED <<store, written, final, overlapped>>

\* RVRunStore removes a final directory first.
RemoveFinal(p) ==
  /\ at[p] = "removing"
  /\ final' = NoDirectory
  /\ GoTo(p, "replacing")
  /\ UNCHANGED <<store, written, temporary, overlapped>>

\* Mutant: a failed run takes the place of what is there.
PublishFailedOver(p) ==
  /\ at[p] = "replacing"
  /\ IF temporary.there THEN Replace /\ GoTo(p, "failed") ELSE GoTo(p, "raised") /\ UNCHANGED <<temporary, final>>
  /\ UNCHANGED <<store, written, overlapped>>

PublishFailed(p) ==
  /\ at[p] = "replacing"
  /\ IF CanReplace THEN Replace /\ GoTo(p, "failed") ELSE GoTo(p, "raised") /\ UNCHANGED <<temporary, final>>
  /\ UNCHANGED <<store, written, overlapped>>

Kill(p) ==
  /\ at[p] \notin Ended
  /\ GoTo(p, "killed")
  /\ UNCHANGED <<store, written, temporary, final, overlapped>>

\* The command is run again, with the same id.
RunAgain(p) ==
  /\ at[p] = "killed" /\ store = "simulation"
  /\ GoTo(p, "idle") /\ written' = [written EXCEPT ![p] = 0]
  /\ UNCHANGED <<store, temporary, final, overlapped>>

StoresInit ==
  /\ store \in {"simulation", "rv"}
  /\ at = [p \in Processes |-> "idle"]
  /\ written = [p \in Processes |-> 0]
  /\ temporary = NoDirectory /\ final = NoDirectory
  /\ overlapped = FALSE

StoresNext ==
  \E p \in Processes :
    \/ Begin(p) \/ CheckFinal(p) \/ ClearTemporary(p) \/ MakeTemporary(p) \/ WriteRunning(p)
    \/ WriteArtifact(p) \/ ArtifactsFail(p) \/ WriteComplete(p) \/ PublishComplete(p)
    \/ WriteFailed(p) \/ RemoveFinal(p) \/ PublishFailed(p) \/ Kill(p) \/ RunAgain(p)

StoresSpec == StoresInit /\ [][StoresNext]_storeVars

-----------------------------------------------------------------------------
\* A published simulation stays as it is, whichever processes run the same
\* configuration and wherever they are killed; and what is published by a process that
\* no other one overlapped is a failed run, or a complete one with all its artifacts,
\* whatever an earlier process left (create_run: "immutable simulation run already
\* exists").
PublishedRunsStand ==
  [][/\ final.there /\ final # NewDirectory => final' = final
     /\ ~final.there /\ final'.there /\ ~overlapped' =>
          \/ final'.manifest = "failed"
          \/ final'.manifest = "complete" /\ final'.artifacts = ArtifactCount]_storeVars
=============================================================================
