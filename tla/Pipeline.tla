------------------------------ MODULE Pipeline ------------------------------
(***************************************************************************)
(* The transcript pipeline of one conversation: the HTTP and realtime      *)
(* handlers of the API, the Celery tasks transcribe_file,                  *)
(* finalize_parallel_transcript and run_diarization, the table transcripts *)
(* and conversations.active_transcript_id they share, the objects in S3    *)
(* and the broker between them.                                            *)
(*                                                                         *)
(* A step is one database transaction (one "with session_scope()" block,   *)
(* or one commit of a request), one access to S3 or one send_task.         *)
(* Everything between two such steps is local to a process and cannot be   *)
(* observed by another one.                                                *)
(***************************************************************************)
EXTENDS Naturals, Sequences, FiniteSets

CONSTANTS
  AsrWorkers,          \* worker processes that consume queue asr_final
  DiarWorkers,         \* worker processes that consume queue diarization
  Clients,             \* API processes that serve one request each
  Diarization,         \* values of diarization.enabled: a process reads its
                       \* configuration when it starts, so there are two
                       \* while a change of diarization.yaml is rolled out
  ParallelChunks,      \* VT_ASR_PARALLEL_CHUNKS
  Budgets              \* how often each request is made and each fault
                       \* occurs: a behaviour has one of these budgets

Workers == AsrWorkers \cup DiarWorkers

\* meta.source of a transcribe_file task.
Sources == {"upload", "retranscribe", "admin_retranscribe", "realtime"}

Requests == {"upload", "retranscribe", "admin_retranscribe", "diarize",
             "snapshot", "finalize", "delete", "rename"}

\* io:        a call to S3, the database, a provider or the broker raises
\* crash:     a worker dies; the broker delivers its message again
\* lost:      a worker child dies; its parent acknowledges the message
\* redeliver: a task outlives the broker's visibility timeout
\* handler:   the transaction of an exception handler raises
Faults == {"io", "crash", "lost", "redeliver", "handler"}

ASSUME DisjointWorkers == AsrWorkers \cap DiarWorkers = {}
ASSUME SwitchesAreBoolean ==
  Diarization \subseteq BOOLEAN /\ ParallelChunks \in BOOLEAN
ASSUME BudgetsAreNat == Budgets \subseteq [Requests \cup Faults -> Nat]

-----------------------------------------------------------------------------
VARIABLES
  rows,      \* the rows of table transcripts, rows[r] has revision r
  active,    \* conversations.active_transcript_id, 0 for NULL
  audioAt,   \* conversations.audio_uploaded_at is set
  labels,    \* conversations.speaker_labels: "none" or "named"
  deleted,   \* conversations.deleted_at is set
  s3,        \* the kinds of object stored under the conversation's prefix
  asrQ,      \* asrQ[s]: transcribe_file messages with meta.source s
  chord,     \* revisions whose parallel slices are being transcribed
  mergeQ,    \* finalize_parallel_transcript messages
  diarQ,     \* number of run_diarization messages
  indexed,   \* revisions whose embedding task was sent
  posted,    \* revisions after whose success an LLM task was sent
  pc,        \* what a worker does next
  held,      \* the message a worker is processing
  unacked,   \* the broker would deliver held again if the worker died
  own,       \* the revision a worker writes, 0 before it has one
  found,     \* the revision a worker's handler is about to mark failed, or 0
  call,      \* what an API process does next
  budget     \* requests and faults that may still come

convVars   == <<rows, active, audioAt, labels, deleted>>
queueVars  == <<asrQ, chord, mergeQ, diarQ>>
outVars    == <<indexed, posted>>
workerVars == <<pc, held, unacked, own, found>>
vars == <<rows, active, audioAt, labels, deleted, s3, asrQ, chord, mergeQ,
          diarQ, indexed, posted, pc, held, unacked, own, found,
          call, budget>>

Kind   == {"asr", "asr_diarized"}
Tier   == {"fast", "final", "none"}   \* meta.processing_tier, if any
Status == {"running", "success", "failed"}  \* no code writes "pending"

\* src is meta.source_transcript_id of a diarized row, 0 for the others.
Row == [kind : Kind, tier : Tier, status : Status, src : Nat]

AsrMsg   == [task : {"asr"}, source : Sources]
MergeMsg == [task : {"merge"}, rev : Nat, ok : BOOLEAN]
DiarMsg  == [task : {"diarize"}]
NoMsg    == [task |-> "none"]
Msg      == AsrMsg \cup MergeMsg \cup DiarMsg \cup {NoMsg}

-----------------------------------------------------------------------------
\* Queries on the rows. An operator that is said to be mutated is used by no
\* action: it is a bug that the properties below must notice.

Revisions == 1 .. Len(rows)
Success   == {r \in Revisions : rows[r].status = "success"}
Diarized  == {r \in Revisions : rows[r].kind = "asr_diarized"}
\* Running, mutated: the filter on status is forgotten.
AnyStatus(k) == {r \in Revisions : rows[r].kind = k}
Running(k) == {r \in Revisions : rows[r].kind = k /\ rows[r].status = "running"}

FastSuccess == {r \in Success : rows[r].kind = "asr" /\ rows[r].tier = "fast"}

\* FinalRows, mutated: a final that succeeded does not count.
FinalQueued == {r \in Revisions : /\ rows[r].kind = "asr"
                                  /\ rows[r].tier # "fast"
                                  /\ rows[r].status = "running"}

\* _has_non_fast_final_row and _final_transcript_already_queued
FinalRows == {r \in Revisions : /\ rows[r].kind = "asr"
                                /\ rows[r].tier # "fast"
                                /\ rows[r].status \in {"running", "success"}}

\* ORDER BY revision DESC ... first()
IsLatest(r, S) == r \in S /\ \A q \in S : q <= r

\* AddRow, mutated: the default of the column is left in place.
AddDefaultRow(kind, tier, status, src) ==
  rows' = Append(rows, [kind |-> kind, tier |-> tier,
                        status |-> "pending", src |-> src])
AddRow(kind, tier, status, src) ==
  rows' = Append(rows, [kind |-> kind, tier |-> tier,
                        status |-> status, src |-> src])

\* NextRevision, mutated: counted, as if failed and running rows had none.
CountedRevision == Cardinality(Success) + 1
NextRevision == Len(rows) + 1

\* SetStatus, mutated: a row that was marked failed stays so.
SetStatusOnce(r, s) ==
  rows' = IF rows[r].status = "running" THEN [rows EXCEPT ![r].status = s]
                                        ELSE rows
SetStatus(r, s) == rows' = [rows EXCEPT ![r].status = s]

Spend(k) == /\ budget[k] > 0
            /\ budget' = [budget EXCEPT ![k] = @ - 1]

Goto(w, l) == pc' = [pc EXCEPT ![w] = l]

\* The worker takes message m, or lets go of its message.
Deliver(w, m) == /\ held' = [held EXCEPT ![w] = m]
                 /\ unacked' = [unacked EXCEPT ![w] = TRUE]
Release(w) == /\ Goto(w, "idle")
              /\ held' = [held EXCEPT ![w] = NoMsg]
              /\ unacked' = [unacked EXCEPT ![w] = FALSE]
              /\ own' = [own EXCEPT ![w] = 0]
              /\ found' = [found EXCEPT ![w] = 0]

-----------------------------------------------------------------------------
Init ==
  /\ rows = <<>>
  /\ active = 0
  /\ audioAt = FALSE
  /\ labels = "none"
  /\ deleted = FALSE
  /\ s3 = {}
  /\ asrQ = [s \in Sources |-> 0]
  /\ chord = {}
  /\ mergeQ = {}
  /\ diarQ = 0
  /\ indexed = {}
  /\ posted = {}
  /\ pc = [w \in Workers |-> "idle"]
  /\ held = [w \in Workers |-> NoMsg]
  /\ unacked = [w \in Workers |-> FALSE]
  /\ own = [w \in Workers |-> 0]
  /\ found = [w \in Workers |-> 0]
  /\ call = [c \in Clients |-> "idle"]
  /\ budget \in Budgets

-----------------------------------------------------------------------------
(***************************************************************************)
(* workers/tasks/asr.py                                                    *)
(***************************************************************************)

TakeAsr(w, s) ==
  /\ w \in AsrWorkers
  /\ pc[w] = "idle"
  /\ asrQ[s] > 0
  /\ asrQ' = [asrQ EXCEPT ![s] = @ - 1]
  /\ Deliver(w, [task |-> "asr", source |-> s])
  /\ UNCHANGED <<active, audioAt, labels, deleted, s3, chord, mergeQ, diarQ,
                 indexed, posted, found, call>>

\* The row of the attempt is created under the lock on the conversation.
AsrBegin(w, s) ==
  /\ TakeAsr(w, s)
  /\ AddRow("asr", "final", "running", 0)
  /\ own' = [own EXCEPT ![w] = NextRevision]
  /\ Goto(w, "download")
  /\ UNCHANGED budget

\* The first transaction itself fails: no row, but the handler runs.
AsrBeginRaises(w, s) ==
  /\ TakeAsr(w, s)
  /\ Spend("io")
  /\ Goto(w, "mark")
  /\ UNCHANGED <<rows, own>>

AsrDownload(w) ==
  /\ w \in AsrWorkers
  /\ pc[w] = "download"
  /\ "audio" \in s3
  /\ Goto(w, "store")
  /\ UNCHANGED <<convVars, s3, queueVars, outVars, held, unacked, own,
                 found, call, budget>>

\* A long file is cut into slices; the row stays running until the merge.
AsrHandOff(w) ==
  /\ ParallelChunks
  /\ w \in AsrWorkers
  /\ pc[w] = "store"
  /\ held[w].task = "asr"
  /\ held[w].source \in {"upload", "retranscribe", "realtime"}
  /\ chord' = chord \cup {own[w]}
  /\ Release(w)
  /\ UNCHANGED <<convVars, s3, asrQ, mergeQ, diarQ, outVars, call, budget>>

\* transcript.json and transcript.md are written before the row succeeds.
AsrStore(w) ==
  /\ w \in AsrWorkers
  /\ pc[w] = "store"
  /\ s3' = s3 \cup {"transcript"}
  /\ Goto(w, "commit")
  /\ UNCHANGED <<convVars, queueVars, outVars, held, unacked, own,
                 found, call, budget>>

\* The row succeeds and becomes the active one, whatever was active.
CommitOwn(w) ==
  /\ pc[w] = "commit"
  /\ SetStatus(own[w], "success")
  /\ active' = own[w]
  /\ Goto(w, "index")
  /\ UNCHANGED <<audioAt, labels, deleted, s3, queueVars, outVars, held,
                 unacked, own, found, call, budget>>

AsrCommit(w) == w \in AsrWorkers /\ CommitOwn(w)

\* schedule_transcript_embedding, which swallows its own errors.
Index(w) ==
  /\ w \in Workers
  /\ pc[w] = "index"
  /\ indexed' = indexed \cup {own[w]}
  /\ Goto(w, "post")
  /\ UNCHANGED <<convVars, s3, queueVars, posted, held, unacked, own,
                 found, call, budget>>

\* Diarization is next; without it the recording session is summarised.
AsrPost(w) ==
  /\ w \in AsrWorkers
  /\ pc[w] = "post"
  /\ \/ TRUE \in Diarization /\ diarQ' = diarQ + 1 /\ UNCHANGED posted
     \/ FALSE \in Diarization /\ posted' = posted \cup {own[w]}
                               /\ UNCHANGED diarQ
  /\ Release(w)
  /\ UNCHANGED <<convVars, s3, asrQ, chord, mergeQ, indexed, call, budget>>

\* Something raises. Only transcribe_file has a handler; the exception of a
\* merge ends its task with the row left as it is.
AsrRaise(w) ==
  /\ w \in AsrWorkers
  /\ pc[w] \in {"download", "store", "commit", "post"}
  /\ \/ Spend("io")
     \/ pc[w] = "download" /\ "audio" \notin s3 /\ UNCHANGED budget
  /\ IF held[w].task = "asr"
       THEN Goto(w, "mark") /\ UNCHANGED <<held, unacked, own, found>>
       ELSE Release(w)
  /\ UNCHANGED <<convVars, s3, queueVars, outVars, call>>

\* The handler looks for the newest running row of the kind, whichever task it
\* belongs to. Nothing locks the row, so it may get another status before it
\* is written to.
FindNewest(w, kind) ==
  /\ pc[w] = "mark"
  /\ \/ \E r \in Running(kind) : /\ IsLatest(r, Running(kind))
                                 /\ found' = [found EXCEPT ![w] = r]
                                 /\ Goto(w, "failing")
                                 /\ UNCHANGED <<held, unacked, own>>
     \/ Running(kind) = {} /\ Release(w)
  /\ UNCHANGED <<convVars, s3, queueVars, outVars, call, budget>>

\* MarkFound, mutated: the handler forgets to commit.
MarkNothing(w) ==
  /\ pc[w] = "failing"
  /\ Release(w)
  /\ UNCHANGED <<convVars, s3, queueVars, outVars, call, budget>>

\* The row that was found becomes failed, by its id, whatever it is by now.
MarkFound(w) ==
  /\ pc[w] = "failing"
  /\ SetStatus(found[w], "failed")
  /\ Release(w)
  /\ UNCHANGED <<active, audioAt, labels, deleted, s3, queueVars, outVars,
                 call, budget>>

AsrMarkFailed(w) ==
  /\ w \in AsrWorkers
  /\ FindNewest(w, "asr") \/ MarkFound(w)

\* The handler's own transaction fails and is ignored.
MarkRaises(w) ==
  /\ w \in Workers
  /\ pc[w] \in {"mark", "failing"}
  /\ Spend("handler")
  /\ Release(w)
  /\ UNCHANGED <<convVars, s3, queueVars, outVars, call>>

\* All slices returned; the chord calls the merge. A slice never raises: it
\* reports an error. If a counter update raises, the merge is never called.
ChordReturns(r, ok) ==
  /\ r \in chord
  /\ \/ ok /\ "audio" \in s3 /\ UNCHANGED budget
     \/ ~ok /\ "audio" \notin s3 /\ UNCHANGED budget
     \/ ~ok /\ Spend("io")
  /\ chord' = chord \ {r}
  /\ mergeQ' = mergeQ \cup {[task |-> "merge", rev |-> r, ok |-> ok]}
  /\ UNCHANGED <<convVars, s3, asrQ, diarQ, outVars, workerVars, call>>

ChordBreaks(r) ==
  /\ r \in chord
  /\ Spend("io")
  /\ chord' = chord \ {r}
  /\ UNCHANGED <<convVars, s3, asrQ, mergeQ, diarQ, outVars, workerVars, call>>

\* finalize_parallel_transcript; with slice errors it is one transaction.
MergeBegin(w, m) ==
  /\ w \in AsrWorkers
  /\ pc[w] = "idle"
  /\ m \in mergeQ
  /\ m.ok
  /\ mergeQ' = mergeQ \ {m}
  /\ Deliver(w, m)
  /\ own' = [own EXCEPT ![w] = m.rev]
  /\ Goto(w, "store")
  /\ UNCHANGED <<convVars, s3, asrQ, chord, diarQ, outVars, found, call,
                 budget>>

MergeFails(w, m) ==
  /\ w \in AsrWorkers
  /\ pc[w] = "idle"
  /\ m \in mergeQ
  /\ ~m.ok
  /\ mergeQ' = mergeQ \ {m}
  /\ SetStatus(m.rev, "failed")
  /\ UNCHANGED <<active, audioAt, labels, deleted, s3, asrQ, chord, diarQ,
                 outVars, workerVars, call, budget>>

(***************************************************************************)
(* workers/tasks/diarization.py                                            *)
(***************************************************************************)

TakeDiar(w) ==
  /\ w \in DiarWorkers
  /\ pc[w] = "idle"
  /\ diarQ > 0
  /\ diarQ' = diarQ - 1
  /\ Deliver(w, [task |-> "diarize"])
  /\ UNCHANGED <<active, audioAt, deleted, s3, asrQ, chord, mergeQ, outVars,
                 found, call>>

\* The transcript to diarize: the active one, else the latest success.
IsBase(r) ==
  IF active \in Success THEN r = active ELSE IsLatest(r, Success)

\* The speaker names go with the first transaction, before there is a result.
DiarBegin(w) ==
  /\ TakeDiar(w)
  /\ \E b \in Success :
       IsBase(b) /\ AddRow("asr_diarized", "none", "running", b)
  /\ labels' = "none"
  /\ own' = [own EXCEPT ![w] = NextRevision]
  /\ Goto(w, "download")
  /\ UNCHANGED budget

\* Nothing to diarize, or the transaction fails: it is rolled back.
DiarBeginRaises(w) ==
  /\ TakeDiar(w)
  /\ (Success = {} /\ UNCHANGED budget) \/ Spend("io")
  /\ Goto(w, "mark")
  /\ UNCHANGED <<rows, labels, own>>

DiarDownload(w) ==
  /\ w \in DiarWorkers
  /\ pc[w] = "download"
  /\ "audio" \in s3
  /\ Goto(w, "commit")
  /\ UNCHANGED <<convVars, s3, queueVars, outVars, held, unacked, own,
                 found, call, budget>>

DiarCommit(w) == w \in DiarWorkers /\ CommitOwn(w)

\* Speaker identification or the summary of the recording session.
DiarPost(w) ==
  /\ w \in DiarWorkers
  /\ pc[w] = "post"
  /\ posted' = posted \cup {own[w]}
  /\ Release(w)
  /\ UNCHANGED <<convVars, s3, queueVars, indexed, call, budget>>

DiarRaise(w) ==
  /\ w \in DiarWorkers
  /\ pc[w] \in {"download", "commit", "post"}
  /\ \/ Spend("io")
     \/ pc[w] = "download" /\ "audio" \notin s3 /\ UNCHANGED budget
  /\ Goto(w, "mark")
  /\ UNCHANGED <<convVars, s3, queueVars, outVars, held, unacked, own, found,
                 call>>

DiarMarkFailed(w) ==
  /\ w \in DiarWorkers
  /\ FindNewest(w, "asr_diarized") \/ MarkFound(w)

(***************************************************************************)
(* The broker and the worker processes: acks_late, so a message is         *)
(* acknowledged when its task has ended, also when it ended in an error.   *)
(***************************************************************************)

\* PutBack, mutated: messages are acknowledged when a worker takes them.
PutBackNothing(m) == UNCHANGED <<asrQ, chord, mergeQ, diarQ>>
\* PutBack, mutated: only transcribe_file is acknowledged late.
PutBackAsr(m) ==
  /\ asrQ' = IF m.task = "asr" THEN [asrQ EXCEPT ![m.source] = @ + 1] ELSE asrQ
  /\ UNCHANGED <<chord, mergeQ, diarQ>>
PutBack(m) ==
  /\ asrQ' = IF m.task = "asr" THEN [asrQ EXCEPT ![m.source] = @ + 1] ELSE asrQ
  /\ mergeQ' = IF m.task = "merge" THEN mergeQ \cup {m} ELSE mergeQ
  /\ diarQ' = IF m.task = "diarize" THEN diarQ + 1 ELSE diarQ
  /\ UNCHANGED chord

\* The visibility timeout ends while the task still runs.
Redeliver(w) ==
  /\ w \in Workers
  /\ unacked[w]
  /\ Spend("redeliver")
  /\ PutBack(held[w])
  /\ unacked' = [unacked EXCEPT ![w] = FALSE]
  /\ UNCHANGED <<convVars, s3, outVars, pc, held, own, found, call>>

\* A worker process dies; what it had not acknowledged comes back.
Crash(w) ==
  /\ w \in Workers
  /\ pc[w] # "idle"
  /\ Spend("crash")
  /\ IF unacked[w] THEN PutBack(held[w]) ELSE UNCHANGED queueVars
  /\ Release(w)
  /\ UNCHANGED <<convVars, s3, outVars, call>>

\* A worker's child process dies; the parent acknowledges the message.
ChildLost(w) ==
  /\ w \in Workers
  /\ pc[w] # "idle"
  /\ Spend("lost")
  /\ Release(w)
  /\ UNCHANGED <<convVars, s3, queueVars, outVars, call>>

-----------------------------------------------------------------------------
(***************************************************************************)
(* The API. A deleted conversation is "not found" for every HTTP request;  *)
(* the realtime handlers do not look at deleted_at.                        *)
(***************************************************************************)

CallStep(c, from, to) == call[c] = from /\ call' = [call EXCEPT ![c] = to]
Accept(c, k, to) == CallStep(c, "idle", to) /\ Spend(k)
Enqueue(s) == asrQ' = [asrQ EXCEPT ![s] = @ + 1]

\* POST /upload: commit, S3, send_task. With a final row it changes nothing.
Upload(c) ==
  /\ ~deleted
  /\ ~(audioAt /\ FinalRows # {})
  /\ audioAt' = TRUE
  /\ Accept(c, "upload", "upload_store")
  /\ UNCHANGED <<rows, active, labels, deleted, s3, queueVars, outVars,
                 workerVars>>

UploadStore(c) ==
  /\ CallStep(c, "upload_store", "upload_send")
  /\ s3' = s3 \cup {"audio"}
  /\ UNCHANGED <<convVars, queueVars, outVars, workerVars, budget>>

UploadSend(c) ==
  /\ CallStep(c, "upload_send", "idle")
  /\ Enqueue("upload")
  /\ UNCHANGED <<convVars, s3, chord, mergeQ, diarQ, outVars, workerVars,
                 budget>>

\* POST /conversations/{id}/retranscribe and its twin in the admin API
Retranscribe(s) ==
  /\ s \in {"retranscribe", "admin_retranscribe"}
  /\ ~deleted
  /\ audioAt
  /\ Running("asr") = {}
  /\ Spend(s)
  /\ Enqueue(s)
  /\ UNCHANGED <<convVars, s3, chord, mergeQ, diarQ, outVars, workerVars, call>>

\* POST /conversations/{id}/diarize and its twin in the admin API
Diarize ==
  /\ TRUE \in Diarization
  /\ ~deleted
  /\ Running("asr_diarized") = {}
  /\ Spend("diarize")
  /\ diarQ' = diarQ + 1
  /\ UNCHANGED <<convVars, s3, asrQ, chord, mergeQ, outVars, workerVars, call>>

\* DELETE /conversations/{id}: first the objects, then the row.
Delete(c) ==
  /\ ~deleted
  /\ Accept(c, "delete", "delete_commit")
  /\ s3' = {}
  /\ UNCHANGED <<convVars, queueVars, outVars, workerVars>>

DeleteCommit(c) ==
  /\ CallStep(c, "delete_commit", "idle")
  /\ deleted' = TRUE
  /\ UNCHANGED <<rows, active, audioAt, labels, s3, queueVars, outVars,
                 workerVars, budget>>

\* active_diarized_transcript: the active one, else the latest one.
IsActiveDiarized(r) ==
  LET diarized == Success \cap Diarized IN
  r \in diarized /\ IF active \in diarized THEN r = active ELSE IsLatest(r, diarized)

\* PATCH /conversations/{id}/speakers: the names are stored and rendered into
\* the diarized row, which is indexed again.
RenameSpeakers ==
  /\ ~deleted
  /\ Spend("rename")
  /\ labels' = "named"
  /\ \E r \in Success : IsActiveDiarized(r) /\ indexed' = indexed \cup {r}
  /\ UNCHANGED <<rows, active, audioAt, deleted, s3, queueVars, posted,
                 workerVars, call>>

\* What the web UI asks for: is the transcript still going to change? In a
\* process with diarization enabled. The first row is a singleton or empty.
RefetchRecommended ==
  LET asr     == {r \in Revisions : rows[r].kind = "asr"}
      finals  == {r \in Success \cap asr : rows[r].tier # "fast"}
      shown   == IF active # 0 THEN {active}
                 ELSE {r \in Success : IsLatest(r, Success)}
      diar    == Success \cap {r \in Diarized : IsLatest(r, Diarized)}
  IN \/ shown = {} /\ asr = {}
     \/ \E r \in Revisions : rows[r].status = "running"
     \/ FastSuccess # {} /\ Success \cap Diarized = {} /\ finals = {}
     \/ /\ active \in Success \cap asr
        /\ Diarized = {} \/ \E d \in diar : d > active

\* persist_fast_snapshot: the transaction, then transcript.json and .md.
Snapshot(c) ==
  /\ Accept(c, "snapshot", "snapshot_store")
  /\ \E r \in Revisions \cup {NextRevision} :
       /\ \/ IsLatest(r, FastSuccess) /\ UNCHANGED rows
          \/ /\ FastSuccess = {}
             /\ r = NextRevision
             /\ AddRow("asr", "fast", "success", 0)
       /\ active' = IF FinalRows = {} THEN r ELSE active
  /\ UNCHANGED <<audioAt, labels, deleted, s3, queueVars, outVars, workerVars>>

SnapshotStore(c) ==
  /\ CallStep(c, "snapshot_store", "idle")
  /\ s3' = s3 \cup {"transcript"}
  /\ UNCHANGED <<convVars, queueVars, outVars, workerVars, budget>>

\* finalize_realtime_session: audio, row, transcript objects, send_task.
Finalize(c) ==
  /\ Accept(c, "finalize", "finalize_row")
  /\ s3' = s3 \cup {"audio"}
  /\ UNCHANGED <<convVars, queueVars, outVars, workerVars>>

FinalizeRow(c) ==
  /\ CallStep(c, "finalize_row", "finalize_store")
  /\ audioAt' = TRUE
  /\ AddRow("asr", "fast", "success", 0)
  /\ active' = NextRevision
  /\ UNCHANGED <<labels, deleted, s3, queueVars, outVars, workerVars, budget>>

FinalizeStore(c) ==
  /\ CallStep(c, "finalize_store", "finalize_send")
  /\ s3' = s3 \cup {"transcript"}
  /\ UNCHANGED <<convVars, queueVars, outVars, workerVars, budget>>

FinalizeSend(c) ==
  /\ CallStep(c, "finalize_send", "idle")
  /\ Enqueue("realtime")
  /\ UNCHANGED <<convVars, s3, chord, mergeQ, diarQ, outVars, workerVars,
                 budget>>

\* A request ends early: an exception, or its process dies.
CallAborts(c) ==
  /\ call[c] # "idle"
  /\ call' = [call EXCEPT ![c] = "idle"]
  /\ Spend("io")
  /\ UNCHANGED <<convVars, s3, queueVars, outVars, workerVars>>

-----------------------------------------------------------------------------
AsrStep(w) ==
  \/ \E s \in Sources : AsrBegin(w, s) \/ AsrBeginRaises(w, s)
  \/ \E m \in mergeQ : MergeBegin(w, m) \/ MergeFails(w, m)
  \/ AsrDownload(w) \/ AsrHandOff(w) \/ AsrStore(w) \/ AsrCommit(w)
  \/ AsrPost(w) \/ AsrRaise(w) \/ AsrMarkFailed(w)

DiarStep(w) ==
  \/ DiarBegin(w) \/ DiarBeginRaises(w)
  \/ DiarDownload(w) \/ DiarCommit(w)
  \/ DiarPost(w) \/ DiarRaise(w) \/ DiarMarkFailed(w)

WorkerStep(w) == AsrStep(w) \/ DiarStep(w) \/ Index(w) \/ MarkRaises(w)

ChordStep ==
  \E r \in chord : ChordBreaks(r) \/ \E ok \in BOOLEAN : ChordReturns(r, ok)

BrokerStep(w) == Redeliver(w) \/ Crash(w) \/ ChildLost(w)

RequestStep(c) == Upload(c) \/ Delete(c) \/ Snapshot(c) \/ Finalize(c)

ServeStep(c) ==
  \/ UploadStore(c) \/ UploadSend(c) \/ DeleteCommit(c) \/ SnapshotStore(c)
  \/ FinalizeRow(c) \/ FinalizeStore(c) \/ FinalizeSend(c) \/ CallAborts(c)

Next ==
  \/ \E w \in Workers : WorkerStep(w) \/ BrokerStep(w)
  \/ ChordStep
  \/ \E c \in Clients : RequestStep(c) \/ ServeStep(c)
  \/ \E s \in Sources : Retranscribe(s)
  \/ Diarize
  \/ RenameSpeakers

Spec == Init /\ [][Next]_vars

(***************************************************************************)
(* Workers that have something to do and requests that were accepted go    *)
(* on; nobody has to make a request and no fault has to happen.            *)
(***************************************************************************)
Fairness ==
  /\ \A w \in Workers : WF_vars(WorkerStep(w))
  /\ WF_vars(ChordStep)
  /\ \A c \in Clients : WF_vars(ServeStep(c))

FairSpec == Spec /\ Fairness

-----------------------------------------------------------------------------
(***************************************************************************)
(* Properties                                                              *)
(***************************************************************************)

Pc == {"idle", "download", "store", "commit", "index", "post", "mark",
       "failing"}
CallPc == {"idle", "upload_store", "upload_send", "delete_commit",
           "snapshot_store", "finalize_row", "finalize_store", "finalize_send"}

TableTypes ==
  /\ rows \in Seq(Row)
  /\ active \in Nat
  /\ audioAt \in BOOLEAN
  /\ labels \in {"none", "named"}
  /\ deleted \in BOOLEAN
  /\ s3 \subseteq {"audio", "transcript"}

QueueTypes ==
  /\ asrQ \in [Sources -> Nat]
  /\ chord \subseteq Revisions
  /\ mergeQ \subseteq MergeMsg
  /\ diarQ \in Nat
  /\ indexed \subseteq Revisions
  /\ posted \subseteq Revisions

WorkerTypes ==
  /\ pc \in [Workers -> Pc]
  /\ held \in [Workers -> Msg]
  /\ unacked \in [Workers -> BOOLEAN]
  /\ own \in [Workers -> Nat]
  /\ found \in [Workers -> Nat]

CallTypes ==
  /\ call \in [Clients -> CallPc]
  /\ budget \in [Requests \cup Faults -> Nat]

\* Every variable has a value of its type.
TypeOK == TableTypes /\ QueueTypes /\ WorkerTypes /\ CallTypes

(***************************************************************************)
(* What users are shown is a transcript: with one worker for each kind of  *)
(* row active_transcript_id never points to a row that is running or       *)
(* failed (conversations.py reads it without looking at the status). The   *)
(* documents say so without that condition: a version is promoted only     *)
(* after its success, and failed attempts do not break the product         *)
(* (docs/DIARIZATION_ALIGNMENT_VERSIONING.md, sections 3 and 7).           *)
(***************************************************************************)
ActiveIsSuccess == active # 0 => active \in Success

\* With one worker for each kind every diarized row was made from an earlier
\* row that is, and remains, a success, although run_diarization reads its base
\* long before it commits.
DerivedFromSuccess ==
  \A r \in Diarized : rows[r].src \in Success /\ rows[r].src < r

\* Worker w has a row it has not finished.
Writes(w) == pc[w] \in {"download", "store", "commit"}
\* ... or is about to mark a row failed.
Tends(w) == Writes(w) \/ pc[w] \in {"mark", "failing"}
Merging == {w \in Workers : held[w].task = "merge"}
MergeMsgs == mergeQ \cup {held[w] : w \in Merging}

(***************************************************************************)
(* One attempt per revision: the lock on the conversation gives every      *)
(* delivery of a task a row of its own, also when the broker delivers a    *)
(* message twice; a row is handed to a chord only by the task that made it *)
(* and only two deliveries of the same merge can ever write the same row.  *)
(***************************************************************************)
OneAttemptPerRow ==
  /\ \A v, w \in Workers :
       Writes(v) /\ Writes(w) /\ v # w /\ own[v] = own[w]
         => held[v].task = "merge" /\ held[v] = held[w]
  /\ \A w \in Workers : Writes(w) => own[w] \notin chord
  /\ \A w \in Workers : Writes(w) /\ held[w].task # "merge"
                          => \A m \in mergeQ : m.rev # own[w]
  /\ \A m, n \in MergeMsgs : m.rev = n.rev => m = n

(***************************************************************************)
(* A row that is running is being worked on, or its merge is to come.      *)
(* Otherwise every later retranscribe is refused with 409 and the web UI   *)
(* polls for ever (_refetch_recommended).                                  *)
(***************************************************************************)
RunningHasWriter ==
  \A r \in Running("asr") \cup Running("asr_diarized") :
    \/ \E w \in Workers : own[w] = r /\ Tends(w)
    \/ r \in chord
    \/ \E m \in mergeQ : m.rev = r

\* The handler of transcribe_file marks "the created transcript row" failed.
FailureMarksOwnRow ==
  [][\A w \in AsrWorkers, r \in Revisions :
       pc[w] = "failing" /\ pc'[w] = "idle" /\ rows'[r] # rows[r]
         => r = own[w]]_vars

(***************************************************************************)
(* Realtime snapshots never hide a finished transcript again: once a final *)
(* ASR row succeeded and a row that is not fast is shown, only finalize,   *)
(* which promotes its own row in any case, shows a fast row.               *)
(***************************************************************************)
FinalSuccess == {r \in Success : rows[r].tier = "final"}
HidesFinal == /\ FinalSuccess # {}
              /\ active # 0
              /\ rows[active].tier # "fast"
              /\ rows'[active'].tier = "fast"
Finalizes == \E c \in Clients : call[c] = "finalize_row" /\ call'[c] # call[c]
SnapshotsHideNothing == [][HidesFinal => Finalizes]_vars

\* The history of rows implements what is left of the design of versioning when
\* handlers mark rows they found running some time ago.
Versions == INSTANCE TranscriptVersions
              WITH versions <- rows,
                   doomed <- {found[w] : w \in Workers} \ {0}
ImplementsVersions == Versions!Spec

(***************************************************************************)
(* An accepted upload is transcribed although workers die and messages are *)
(* delivered twice: the message is acknowledged only when its task ended.  *)
(***************************************************************************)
UploadIsTranscribed == asrQ["upload"] > 0 ~> FinalSuccess # {}

\* Every final transcript is in the end followed by speaker identification
\* or a session summary of it or of a newer revision.
FinalIsPosted == <>[](\A r \in FinalSuccess : \E q \in posted : q >= r)

\* Once requests stop the pipeline comes to rest with no row left running,
\* so that 409 and polling end.
Settles ==
  <>[](/\ Running("asr") \cup Running("asr_diarized") = {}
       /\ \A w \in Workers : pc[w] = "idle")

(***************************************************************************)
(* What the documents say and the code does not do.                        *)
(***************************************************************************)

\* docs/REALTIME_FAST_FINAL_V2.md, 12.3: once finalize has queued the final, no
\* upload of the same recording is accepted that queues it a second time.
NoUploadAfterFinalize ==
  [][asrQ["realtime"] > 0
       => \A c \in Clients : call[c] = "idle" => call'[c] # "upload_store"]_vars

\* _refetch_recommended "avoids infinite polling when diarization is disabled
\* or has failed": after run_diarization failed, polling ends.
PollingEnds == \A w \in DiarWorkers : pc[w] = "mark" ~> ~RefetchRecommended

\* docs/SPEAKER_IDENTIFICATION.md, rerun of diarization: the names of speakers
\* are dropped when a rerun has succeeded, not when it only started.
NamesDropWithNewRevision ==
  [][labels = "named" /\ labels' = "none"
       => \E r \in Diarized' : r \in Success' /\ r \notin Success]_vars
=============================================================================
