------------------------- MODULE TranscriptVersions -------------------------
(***************************************************************************)
(* What is left of the versioning of transcripts ("Scheme 2",              *)
(* docs/DIARIZATION_ALIGNMENT_VERSIONING.md, section 3) for one            *)
(* conversation, whoever writes to it and in whatever order: the rows of   *)
(* table transcripts are an append-only history,                           *)
(* conversations.active_transcript_id only ever moves, in one step, to a   *)
(* row that is a success, and no failure moves it.                         *)
(*                                                                         *)
(* A row that was marked failed may still become a success: the exception  *)
(* handlers of the workers mark the newest running row of the              *)
(* conversation, which can be the row of another task that later           *)
(* completes. And a success may still be marked failed, by a handler that  *)
(* found the row while it was running: such a row is doomed until the      *)
(* handler has ended. A row that was a success when the last handler that  *)
(* knows it ended stays one.                                               *)
(***************************************************************************)
EXTENDS Naturals, Sequences

VARIABLES
  versions,   \* the rows, records with a status, in the order of revisions
  active,     \* the revision users are shown, 0 for none
  doomed      \* the revisions a failed attempt has found running

vvars == <<versions, active, doomed>>

NewVersion == Len(versions) + 1

\* One version with status s is added, the others are as they were.
Added(s) ==
  /\ Len(versions') = NewVersion
  /\ versions' = Append(versions, versions'[NewVersion])
  /\ versions'[NewVersion].status = s

Becomes(r, s) == versions' = [versions EXCEPT ![r].status = s]

Init ==
  /\ versions = <<>>
  /\ active = 0
  /\ doomed = {}

\* An attempt starts.
Start == Added("running") /\ UNCHANGED <<active, doomed>>

\* A finished version is added; it may be promoted in the same step.
Publish == /\ Added("success")
           /\ active' \in {active, NewVersion}
           /\ UNCHANGED doomed

\* An attempt succeeds and is promoted in the same step.
Complete ==
  \E r \in DOMAIN versions :
    /\ versions[r].status \in {"running", "failed"}
    /\ Becomes(r, "success")
    /\ active' = r
    /\ UNCHANGED doomed

\* A version that already succeeded is promoted (again).
Promote ==
  \E r \in DOMAIN versions :
    /\ versions[r].status = "success"
    /\ active' = r
    /\ UNCHANGED <<versions, doomed>>

\* A failed attempt finds a running version to blame.
Condemn ==
  \E r \in DOMAIN versions :
    /\ versions[r].status = "running"
    /\ doomed' = doomed \cup {r}
    /\ UNCHANGED <<versions, active>>

\* It ends without having written to it.
Forget == doomed' \subseteq doomed /\ UNCHANGED <<versions, active>>

\* A version that runs, or ran when it was found, fails: the active version
\* stays.
Fail ==
  \E r \in DOMAIN versions :
    /\ versions[r].status = "running" \/ r \in doomed
    /\ Becomes(r, "failed")
    /\ doomed' \subseteq doomed
    /\ UNCHANGED active

Next ==
  Start \/ Publish \/ Complete \/ Promote \/ Condemn \/ Forget \/ Fail

Spec == Init /\ [][Next]_vvars
=============================================================================
