---------------------------- MODULE EventArchive ----------------------------
(***************************************************************************)
(* What the archive of captured frames promises to its callers, without    *)
(* transactions, locks, snapshots or tables: a frame gets one result, once *)
(* and for good, and every answer tells the truth about it.  MarketEvents  *)
(* implements this module (ArchivePromise there).                          *)
(***************************************************************************)
CONSTANTS Calls, Nobody

VARIABLES
  published,  \* [identities of frames -> the frame and the result published for it]
  command,    \* what each caller wants to publish, Nobody before it asks
  answer      \* what each caller was told, "none" until it is

vars == <<published, command, answer>>

Id(c) == command[c].frame.id

\* The reasons a caller can be given, and when each may be.  The archive has none
\* for rows that nobody could have left.
MayRefuse(c, reason) ==
  \/ /\ reason \in {"frame_content_mismatch", "capture_identity_conflict"}
     /\ Id(c) \in DOMAIN published
     /\ published[Id(c)].frame # command[c].frame
  \/ /\ reason \in {"result_conflict", "event_conflict"}
     /\ Id(c) \in DOMAIN published
     /\ published[Id(c)].result # command[c].result
  \/ reason = "integrity_error" /\ Id(c) \in DOMAIN published     \* another call was faster
  \/ reason = "provenance_missing" \/ reason = "provenance_conflict"
  \/ reason = "check_violation" /\ Id(c) \notin DOMAIN published

Init ==
  /\ published = [id \in {} |-> Nobody]
  /\ command = [c \in Calls |-> Nobody]
  /\ answer = [c \in Calls |-> "none"]

Ask(c) ==
  /\ command[c] = Nobody
  /\ command'[c] # Nobody
  /\ command' = [command EXCEPT ![c] = command'[c]]
  /\ UNCHANGED <<published, answer>>

Waiting(c) == command[c] # Nobody /\ answer[c] = "none"

\* The result of a frame that has none becomes visible; the caller is told, or
\* its answer is lost and it asks again.
Publish(c) ==
  /\ Waiting(c)
  /\ Id(c) \in DOMAIN published' \ DOMAIN published
  /\ published' = [id \in DOMAIN published \cup {Id(c)} |->
                     IF id = Id(c) THEN command[c] ELSE published[id]]
  /\ \/ answer' = [answer EXCEPT ![c] = "inserted"]
     \/ UNCHANGED answer
  /\ UNCHANGED command

\* The same command again, of this caller or of another, is answered with success.
Confirm(c) ==
  /\ Waiting(c)
  /\ answer' = [answer EXCEPT ![c] = "replayed"]
  /\ Id(c) \in DOMAIN published
  /\ published[Id(c)] = command[c]
  /\ UNCHANGED <<published, command>>

Refuse(c) ==
  /\ Waiting(c)
  /\ answer'[c] # "none"
  /\ answer' = [answer EXCEPT ![c] = answer'[c]]
  /\ MayRefuse(c, answer'[c])
  /\ UNCHANGED <<published, command>>

Next == \E c \in Calls : Ask(c) \/ Publish(c) \/ Confirm(c) \/ Refuse(c)

Spec == Init /\ [][Next]_vars
=============================================================================
