---------------------------- MODULE AudioSession ----------------------------
(***************************************************************************)
(* One recording of the browser extension and the realtime sessions that   *)
(* receive it: AudioRecorderController and AudioWebSocketClient at one     *)
(* end, the handler of /ws/audio with its decoder and its finalize claims  *)
(* at the other, POST /api/upload as the fallback.                         *)
(*                                                                         *)
(* MediaRecorder numbers its chunks 1, 2, 3, ... Chunk 1 holds the header  *)
(* of the WebM stream: the decoder of a connection that did not get it     *)
(* decodes nothing. A connection delivers in order until it is cut.        *)
(***************************************************************************)
EXTENDS RealtimeAudio, Naturals, Sequences, FiniteSets

CONSTANTS
  MaxChunks,     \* bound on the chunks recorded
  MaxConns,      \* bound on the connections opened
  PipeChunks,    \* chunks the decoder's pipe can hold: what the reader thread
                 \* may not have read when the decoder process has ended
  Pipelines,     \* values of _use_pcm_pipeline() of the API processes
  Autoprolong,   \* limits.autoprolong_enabled
  Limit,         \* chunks that reach limits.max_duration_seconds
  RedisUp,       \* outcomes of a call to Redis: TRUE, it works
  Events,        \* the kinds of event below that occur
  MaxEvents      \* bound on their number

Conns == 1 .. MaxConns
Exts == {"wav", "webm"}

\* cut:    a connection breaks, or a response is lost
\* io:     a call to S3, the database or the broker raises
\* crash:  the API process ends
\* repeat: a client sends its finalize again
\* retry:  the user stops again after a failed upload
\* delete: the user deletes the conversation
EventKinds == {"cut", "io", "crash", "repeat", "retry", "delete"}

ASSUME BoundsAreNat == {MaxChunks, MaxConns, PipeChunks, Limit, MaxEvents} \subseteq Nat
ASSUME StreamsAreTabled == MaxChunks <= MaxFrames
ASSUME OneConnection == MaxConns > 0
ASSUME LimitIsReached == Limit > 0    \* with samples: pcm_len > 0 in _autoprolong_limits_hit
ASSUME SwitchesAreSets == /\ Pipelines \subseteq BOOLEAN
                          /\ RedisUp \subseteq BOOLEAN
                          /\ Autoprolong \in BOOLEAN
ASSUME EventsAreKinds == Events \subseteq EventKinds

VARIABLES
  \* the client
  rec,       \* what the recorder does
  n,         \* chunks recorded: recordedParts is 1 .. n
  pending,   \* pendingChunks
  sock,      \* the connection this.ws, 0 for null
  waitOn,    \* the connection whose messages waitForFinalizeAck listens to
  fid,       \* the last finalize id
  acked,     \* ids for which the client took finalize_ack as success
  \* the connections
  link,      \* none, up, cut (broken) or closed (after what was sent)
  sent,      \* messages on their way to the server
  replies,   \* messages on their way to the client
  \* the handler of each connection
  srv,       \* what the handler does
  pcm,       \* the connection decodes WebM to PCM
  fed,       \* chunks written to its decoder
  heard,     \* chunks of which session_pcm has the samples
  raw,       \* chunks in session_raw
  flushed,   \* decoder_tail_flushed
  handoff,   \* handoff_sent
  job,       \* the finalize under way and whether it went well so far
  \* POST /api/upload, one handler per attempt
  upload,
  \* what the server keeps
  claims,    \* Redis: finalize id -> "pending" or "done"
  object,    \* S3: the chunks in audio.wav and audio.webm
  audioAt,   \* conversations.audio_uploaded_at is set
  draft,     \* chunks covered by the newest fast row
  tasks,     \* transcribe_file messages
  final,     \* the final row: none, running, failed or success
  deleted,   \* conversations.deleted_at is set
  branches,  \* conversations made to continue this one
  budget     \* events that may still come

clientVars  == <<rec, n, pending, sock, waitOn, fid, acked>>
netVars     == <<link, sent, replies>>
decodeVars  == <<pcm, fed, heard, raw, flushed>>
sessionVars == <<srv, decodeVars, handoff, job>>
storeVars   == <<claims, object, audioAt, draft, tasks, final, deleted, branches>>
vars == <<clientVars, netVars, sessionVars, upload, storeVars, budget>>

Chunk(c)    == [type |-> "chunk", val |-> c]
Finalize(f) == [type |-> "finalize", val |-> f]
Ack(f, s)   == [id |-> f, status |-> s]    \* finalize_error is for any id

NoJob == [id |-> 0, ok |-> TRUE]           \* id 0 stands for autoprolong-<uuid>

Init ==
  /\ rec = "recording" /\ n = 0 /\ pending = <<>> /\ sock = 1 /\ waitOn = 0
  /\ fid = 0 /\ acked = {}
  /\ link = [k \in Conns |-> IF k = 1 THEN "up" ELSE "none"]
  /\ sent = [k \in Conns |-> <<>>] /\ replies = [k \in Conns |-> {}]
  /\ srv = [k \in Conns |-> IF k = 1 THEN "ready" ELSE "none"]
  /\ pcm \in [Conns -> Pipelines]
  /\ fed = [k \in Conns |-> 0] /\ heard = [k \in Conns |-> 0]
  /\ raw = [k \in Conns |-> {}]
  /\ flushed = [k \in Conns |-> FALSE] /\ handoff = [k \in Conns |-> FALSE]
  /\ job = [k \in Conns |-> NoJob]
  /\ upload = <<>>
  /\ claims = <<>> /\ object = [e \in Exts |-> {}] /\ audioAt = FALSE
  /\ draft = {} /\ tasks = <<>> /\ final = "none" /\ deleted = FALSE
  /\ branches = 0
  /\ budget = MaxEvents

Spend(e) == e \in Events /\ budget > 0 /\ budget' = budget - 1

-----------------------------------------------------------------------------
\* The connection

\* What is sent on a broken connection is lost, and the sender cannot tell.
Send(k, ms) == sent' = IF link[k] = "up" THEN [sent EXCEPT ![k] = @ \o ms] ELSE sent

\* A part of what is under way in either direction is lost.
Cut(k) ==
  /\ Spend("cut") /\ link[k] = "up"
  /\ link' = [link EXCEPT ![k] = "cut"]
  /\ \E i \in 0 .. Len(sent[k]) : sent' = [sent EXCEPT ![k] = SubSeq(@, 1, i)]
  /\ \E lost \in BOOLEAN : replies' = IF lost THEN [replies EXCEPT ![k] = {}] ELSE replies
  /\ UNCHANGED <<clientVars, sessionVars, upload, storeVars>>

\* The close event of this.ws.
NoticeClose ==
  /\ sock # 0 /\ link[sock] # "up"
  /\ sock' = 0
  /\ UNCHANGED <<rec, n, pending, waitOn, fid, acked, netVars, sessionVars, upload,
                 storeVars, budget>>

\* The client gives up after six attempts; as it may always be too slow to connect
\* again before the recording ends, the attempts are not counted.
Reconnect(k) ==
  /\ rec \in {"recording", "stopped", "waiting"} /\ sock = 0 /\ ~deleted
  /\ link[k] = "none" /\ \A j \in 1 .. k - 1 : link[j] # "none"
  /\ sock' = k
  /\ link' = [link EXCEPT ![k] = "up"]
  /\ srv' = [srv EXCEPT ![k] = "ready"]
  /\ sent' = [sent EXCEPT ![k] = [i \in 1 .. Len(pending) |-> Chunk(pending[i])]]
  /\ pending' = <<>>
  /\ UNCHANGED <<rec, n, waitOn, fid, acked, replies, decodeVars, handoff, job, upload,
                 storeVars, budget>>

-----------------------------------------------------------------------------
\* The recorder

Record ==
  /\ rec = "recording" /\ n < MaxChunks
  /\ n' = n + 1
  /\ IF sock # 0 THEN Send(sock, <<Chunk(n + 1)>>) /\ UNCHANGED pending
                 ELSE pending' = Append(pending, n + 1) /\ UNCHANGED sent
  /\ UNCHANGED <<rec, sock, waitOn, fid, acked, link, replies, sessionVars, upload,
                 storeVars, budget>>

\* MediaRecorder has stopped; its last chunk is a Record step.
Stop ==
  /\ rec = "recording"
  /\ rec' = "stopped"
  /\ UNCHANGED <<n, pending, sock, waitOn, fid, acked, netVars, sessionVars, upload,
                 storeVars, budget>>

\* ws.close(): what was sent before still arrives. Nothing recorded, nothing uploaded.
CloseAnd(next) ==
  /\ rec' = IF next = "upload" /\ n = 0 THEN "idle" ELSE next
  /\ link' = IF sock # 0 /\ link[sock] = "up" THEN [link EXCEPT ![sock] = "closed"] ELSE link
  /\ sock' = 0 /\ waitOn' = 0 /\ pending' = <<>>

SendFinalize ==
  /\ rec = "stopped"
  /\ fid' = fid + 1
  /\ IF sock = 0
     THEN CloseAnd("upload") /\ UNCHANGED sent
     ELSE /\ Send(sock, <<Finalize(fid + 1)>>)
          /\ rec' = "waiting" /\ waitOn' = sock
          /\ UNCHANGED <<link, sock, pending>>
  /\ UNCHANGED <<n, acked, replies, sessionVars, upload, storeVars, budget>>

\* A client that repeats the command, as the server allows, after an error, a timeout
\* or a new connection. The extension itself falls back to the upload.
RepeatFinalize ==
  /\ Spend("repeat") /\ rec = "waiting" /\ sock # 0
  /\ Send(sock, <<Finalize(fid)>>)
  /\ waitOn' = sock
  /\ replies' = [replies EXCEPT ![waitOn] = {}]
  /\ UNCHANGED <<rec, n, pending, sock, fid, acked, link, sessionVars, upload, storeVars>>

ReceiveReply ==
  /\ rec = "waiting"
  /\ \E a \in replies[waitOn] :
       /\ a.status = "error" \/ a.id = fid
       /\ CloseAnd(IF a.status = "error" THEN "upload" ELSE "idle")
       /\ acked' = IF a.status = "error" THEN acked ELSE acked \cup {fid}
  /\ UNCHANGED <<n, fid, sent, replies, sessionVars, upload, storeVars, budget>>

\* waitForFinalizeAck gives up after 30 s.
\* FinalizeTimeout, mutated: it waits as long as the connection is there.
TimeoutWhenClosed ==
  /\ rec = "waiting" /\ sock = 0
  /\ CloseAnd("upload")
  /\ UNCHANGED <<n, fid, acked, sent, replies, sessionVars, upload, storeVars, budget>>
FinalizeTimeout ==
  /\ rec = "waiting"
  /\ CloseAnd("upload")
  /\ UNCHANGED <<n, fid, acked, sent, replies, sessionVars, upload, storeVars, budget>>

-----------------------------------------------------------------------------
\* The handler of /ws/audio

Goto(k, l) == srv' = [srv EXCEPT ![k] = l]

Take(k, type) == /\ srv[k] = "ready" /\ sent[k] # <<>> /\ Head(sent[k]).type = type
                 /\ sent' = [sent EXCEPT ![k] = Tail(@)]

\* Whether the decoder makes sense of chunk c: it has had all before it.
\* Decodable, mutated: the decoder starts anywhere in the stream.
DecodesAnything(k, c) == TRUE
Decodable(k, c) == c = fed[k] + 1

\* len(session_pcm), len(session_raw) against the least that is accepted.
Enough(k) == heard[k] > 0 \/ raw[k] # {}

\* What finalize would store, and where.
AudioOf(k) == IF pcm[k] /\ heard[k] > 0 THEN 1 .. heard[k] ELSE raw[k]
ExtOf(k)   == IF pcm[k] /\ heard[k] > 0 THEN "wav" ELSE "webm"

\* _autoprolong_limits_hit for the length of session_pcm or of session_raw
LimitHit(k, h, r) == IF pcm[k] THEN h >= Limit ELSE Cardinality(r) >= Limit

\* A chunk is decoded and transcribed; now and then the draft is saved; then the
\* limit is looked at. The reader thread has read any part of the decoder's output.
HandleChunk(k) ==
  /\ Take(k, "chunk")
  /\ LET c == Head(sent[k]).val IN
     IF pcm[k] /\ ~flushed[k]
     THEN /\ fed' = IF Decodable(k, c) THEN [fed EXCEPT ![k] = @ + 1] ELSE fed
          /\ \E p \in heard[k] .. fed'[k] : heard' = [heard EXCEPT ![k] = p]
          /\ UNCHANGED raw
     ELSE /\ raw' = [raw EXCEPT ![k] = @ \cup {c}]
          /\ UNCHANGED <<fed, heard>>
  /\ \E save \in BOOLEAN :
       draft' = IF save /\ heard'[k] > 0 THEN 1 .. heard'[k] ELSE draft
  /\ IF Autoprolong /\ ~handoff[k] /\ LimitHit(k, heard'[k], raw'[k])
     THEN /\ Goto(k, "store")
          /\ handoff' = [handoff EXCEPT ![k] = TRUE]
          /\ job' = [job EXCEPT ![k] = NoJob]
     ELSE UNCHANGED <<srv, handoff, job>>
  /\ UNCHANGED <<clientVars, link, replies, pcm, flushed, upload, claims, object,
                 audioAt, tasks, final, deleted, branches, budget>>

Reply(k, a) == replies' = IF link[k] = "up" THEN [replies EXCEPT ![k] = @ \cup {a}]
                                            ELSE replies

FinalizeTooShort(k) ==
  /\ Take(k, "finalize") /\ ~Enough(k)
  /\ Reply(k, Ack(Head(sent[k]).val, "error"))
  /\ UNCHANGED <<clientVars, link, sessionVars, upload, storeVars, budget>>

\* SET NX on the claim. Without Redis each finalize counts as the first.
\* Claimed, mutated: the answer of SET NX is not looked at.
NeverClaimed(f) == FALSE
Claimed(f) == f \in DOMAIN claims

SetClaim(f, v) == claims' = [g \in DOMAIN claims \cup {f} |-> IF g = f THEN v ELSE claims[g]]
DropClaim(f)   == claims' = [g \in DOMAIN claims \ {f} |-> claims[g]]

FinalizeDuplicate(k) ==
  /\ Take(k, "finalize") /\ Enough(k)
  /\ TRUE \in RedisUp /\ Claimed(Head(sent[k]).val)
  /\ Reply(k, Ack(Head(sent[k]).val, "duplicate"))
  /\ UNCHANGED <<clientVars, link, sessionVars, upload, storeVars, budget>>

\* The claim, then _flush_tail_asr: the decoder's input is closed and its process
\* waited for, but not the thread that reads its output.
Tail0(k) == IF fed[k] > PipeChunks THEN fed[k] - PipeChunks ELSE 0

FinalizeBegin(k) ==
  /\ Take(k, "finalize") /\ Enough(k)
  /\ LET f == Head(sent[k]).val IN
     /\ \E up \in RedisUp : IF up THEN ~Claimed(f) /\ SetClaim(f, "pending")
                                  ELSE UNCHANGED claims
     /\ job' = [job EXCEPT ![k] = [id |-> f, ok |-> TRUE]]
  /\ IF pcm[k] /\ ~flushed[k]
     THEN \E p \in heard[k] .. fed[k] :
            /\ p >= Tail0(k)
            /\ heard' = [heard EXCEPT ![k] = p]
     ELSE UNCHANGED heard
  /\ flushed' = [flushed EXCEPT ![k] = TRUE]
  /\ Goto(k, "store")
  /\ UNCHANGED <<clientVars, link, replies, pcm, fed, raw, handoff, upload, object,
                 audioAt, draft, tasks, final, deleted, branches, budget>>

\* finalize_realtime_session: the audio, the fast row, the task.
StoreAudio(k) ==
  /\ srv[k] = "store" /\ Goto(k, "row")
  /\ object' = [object EXCEPT ![ExtOf(k)] = AudioOf(k)]
  /\ UNCHANGED <<clientVars, netVars, decodeVars, handoff, job, upload, claims, audioAt,
                 draft, tasks, final, deleted, branches, budget>>

AddFastRow(k) ==
  /\ srv[k] = "row" /\ Goto(k, "send")
  /\ audioAt' = TRUE /\ draft' = AudioOf(k)
  /\ UNCHANGED <<clientVars, netVars, decodeVars, handoff, job, upload, claims, object,
                 tasks, final, deleted, branches, budget>>

QueueFinal(k) ==
  /\ srv[k] = "send" /\ Goto(k, "settle")
  /\ tasks' = Append(tasks, [id |-> job[k].id, ext |-> ExtOf(k)])
  /\ UNCHANGED <<clientVars, netVars, decodeVars, handoff, job, upload, claims, object,
                 audioAt, draft, final, deleted, branches, budget>>

FinalizeRaises(k) ==
  /\ Spend("io") /\ srv[k] \in {"store", "row", "send"} /\ Goto(k, "settle")
  /\ job' = [job EXCEPT ![k].ok = FALSE]
  /\ UNCHANGED <<clientVars, netVars, decodeVars, handoff, upload, storeVars>>

\* The end of a client's finalize.
\* Settle, mutated: the claim of a failed finalize is kept.
SettleKeepingClaim(k) ==
  LET f == job[k].id IN
  /\ SetClaim(f, IF job[k].ok THEN "done" ELSE "pending")
  /\ Reply(k, Ack(f, IF job[k].ok THEN "accepted" ELSE "error"))
\* Settle, mutated: the claim takes the status of the reply.
SettleWithStatus(k) ==
  LET f == job[k].id IN
  /\ SetClaim(f, IF job[k].ok THEN "accepted" ELSE "error")
  /\ Reply(k, Ack(f, IF job[k].ok THEN "accepted" ELSE "error"))
Settle(k) ==
  LET f == job[k].id IN
  /\ \E up \in RedisUp :
       IF ~up THEN UNCHANGED claims
       ELSE IF job[k].ok THEN SetClaim(f, "done") ELSE DropClaim(f)
  /\ Reply(k, Ack(f, IF job[k].ok THEN "accepted" ELSE "error"))

SettleFinalize(k) ==
  /\ srv[k] = "settle" /\ job[k].id # 0
  /\ Settle(k)
  /\ Goto(k, "ready")
  /\ UNCHANGED <<clientVars, link, sent, decodeVars, handoff, job, upload, object,
                 audioAt, draft, tasks, final, deleted, branches, budget>>

\* The end of an autoprolong: a conversation that continues this one, and the
\* connection is closed. The extension does not read autoprolong_handoff.
Handoff(k) ==
  /\ srv[k] = "settle" /\ job[k].id = 0 /\ job[k].ok /\ ~deleted
  /\ branches' = branches + 1
  /\ Goto(k, "gone")
  /\ link' = [link EXCEPT ![k] = IF @ = "up" THEN "cut" ELSE @]
  /\ sent' = [sent EXCEPT ![k] = <<>>]
  /\ UNCHANGED <<clientVars, replies, decodeVars, handoff, job, upload, claims, object,
                 audioAt, draft, tasks, final, deleted, budget>>

\* autoprolong_error. After branch_failed handoff_sent stays set.
NoHandoff(k) ==
  /\ srv[k] = "settle" /\ job[k].id = 0 /\ (~job[k].ok \/ deleted)
  /\ handoff' = [handoff EXCEPT ![k] = job[k].ok]
  /\ Goto(k, "ready")
  /\ UNCHANGED <<clientVars, netVars, decodeVars, job, upload, storeVars, budget>>

\* The handler sees the end of the connection, in receive() or when it sends; then
\* it reads no more. The tail is transcribed, but nothing of it is kept.
Disconnected(k) ==
  /\ srv[k] = "ready" /\ link[k] # "up"
  /\ Goto(k, "gone")
  /\ sent' = [sent EXCEPT ![k] = <<>>]
  /\ UNCHANGED <<clientVars, link, replies, decodeVars, handoff, job, upload, storeVars,
                 budget>>

-----------------------------------------------------------------------------
\* POST /api/upload of the whole recording

\* _final_transcript_already_queued
FinalExists == final \in {"running", "success"}

BeginUpload ==
  /\ rec = "upload" \/ rec = "failed"
  /\ IF rec = "failed" THEN Spend("retry") ELSE UNCHANGED budget
  /\ rec' = "uploading"
  /\ LET skip == audioAt /\ FinalExists IN
     /\ upload' = Append(upload, IF deleted THEN "error" ELSE IF skip THEN "done" ELSE "store")
     /\ audioAt' = (audioAt \/ ~deleted)
  /\ UNCHANGED <<n, pending, sock, waitOn, fid, acked, netVars, sessionVars, claims,
                 object, draft, tasks, final, deleted, branches>>

UploadTo(i, l) == upload' = [upload EXCEPT ![i] = l]

UploadStore(i) ==
  /\ upload[i] = "store" /\ UploadTo(i, "send")
  /\ object' = [object EXCEPT !["webm"] = 1 .. n]
  /\ UNCHANGED <<clientVars, netVars, sessionVars, claims, audioAt, draft, tasks, final,
                 deleted, branches, budget>>

UploadSend(i) ==
  /\ upload[i] = "send" /\ UploadTo(i, "done")
  /\ tasks' = Append(tasks, [id |-> 0, ext |-> "webm"])
  /\ UNCHANGED <<clientVars, netVars, sessionVars, claims, object, audioAt, draft, final,
                 deleted, branches, budget>>

UploadRaises(i) ==
  /\ Spend("io") /\ upload[i] \in {"store", "send"} /\ UploadTo(i, "error")
  /\ UNCHANGED <<clientVars, netVars, sessionVars, storeVars>>

\* On success the recording is dropped; an error keeps it, and a second stop
\* uploads it again.
UploadAnswered ==
  /\ rec = "uploading" /\ upload[Len(upload)] \in {"done", "error"}
  /\ rec' = IF upload[Len(upload)] = "done" THEN "idle" ELSE "failed"
  /\ UNCHANGED <<n, pending, sock, waitOn, fid, acked, netVars, sessionVars, upload,
                 storeVars, budget>>

UploadAnswerLost ==
  /\ Spend("cut") /\ rec = "uploading"
  /\ rec' = "failed"
  /\ UNCHANGED <<n, pending, sock, waitOn, fid, acked, netVars, sessionVars, upload,
                 storeVars>>

-----------------------------------------------------------------------------
\* The rest of the system

\* All handlers of an API process end; claims stay as they are.
Crash ==
  /\ Spend("crash")
  /\ srv' = [k \in Conns |-> IF srv[k] = "none" THEN "none" ELSE "gone"]
  /\ link' = [k \in Conns |-> IF link[k] = "up" THEN "cut" ELSE link[k]]
  /\ sent' = [k \in Conns |-> <<>>]
  /\ upload' = [i \in DOMAIN upload |-> IF upload[i] \in {"store", "send"}
                                        THEN "error" ELSE upload[i]]
  /\ UNCHANGED <<clientVars, replies, decodeVars, handoff, job, storeVars>>

\* A pending claim expires after 30 minutes, when no handler is at work for so long; a
\* claim that is done after a week, which is not modelled.
ExpireClaim(f) ==
  /\ claims[f] = "pending"
  /\ \A k \in Conns : srv[k] \in {"store", "row", "send", "settle"} => job[k].id # f
  /\ DropClaim(f)
  /\ UNCHANGED <<clientVars, netVars, sessionVars, upload, object, audioAt, draft, tasks,
                 final, deleted, branches, budget>>

\* A worker takes a task, and ends it (module Pipeline).
Worker ==
  /\ \/ tasks # <<>> /\ final \in {"none", "failed"} /\ final' = "running"
     \/ final = "running" /\ final' \in {"success", "failed"}
  /\ UNCHANGED <<clientVars, netVars, sessionVars, upload, claims, object, audioAt, draft,
                 tasks, deleted, branches, budget>>

Delete ==
  /\ Spend("delete") /\ deleted' = TRUE
  /\ UNCHANGED <<clientVars, netVars, sessionVars, upload, claims, object, audioAt, draft,
                 tasks, final, branches>>

Handler(k) ==
  \/ HandleChunk(k) \/ FinalizeTooShort(k) \/ FinalizeDuplicate(k) \/ FinalizeBegin(k)
  \/ StoreAudio(k) \/ AddFastRow(k) \/ QueueFinal(k) \/ SettleFinalize(k)
  \/ Handoff(k) \/ NoHandoff(k) \/ Disconnected(k)

Uploader(i) == UploadStore(i) \/ UploadSend(i)

Recorder == SendFinalize \/ ReceiveReply \/ FinalizeTimeout \/ UploadAnswered
            \/ (rec = "upload" /\ BeginUpload)

Next ==
  \/ Record \/ Stop \/ NoticeClose \/ Recorder \/ RepeatFinalize \/ BeginUpload
  \/ \E k \in Conns : Cut(k) \/ Reconnect(k) \/ Handler(k) \/ FinalizeRaises(k)
  \/ \E i \in DOMAIN upload : Uploader(i) \/ UploadRaises(i)
  \/ \E f \in DOMAIN claims : ExpireClaim(f)
  \/ UploadAnswerLost \/ Crash \/ Worker \/ Delete

Spec == Init /\ [][Next]_vars

\* Handlers run, timers of the client fire; recording, stopping and faults are not fair.
FairSpec == /\ Spec
            /\ WF_vars(Recorder)
            /\ \A k \in Conns : WF_vars(Handler(k))
            /\ WF_vars(\E i \in DOMAIN upload : Uploader(i))

-----------------------------------------------------------------------------
\* Properties

Ids == 0 .. 1

TypeOK ==
  /\ rec \in {"recording", "stopped", "waiting", "upload", "uploading", "failed", "idle"}
  /\ n \in 0 .. MaxChunks /\ pending \in Seq(1 .. MaxChunks)
  /\ {sock, waitOn} \subseteq 0 .. MaxConns
  /\ fid \in Ids /\ acked \subseteq Ids
  /\ link \in [Conns -> {"none", "up", "cut", "closed"}]
  /\ \A k \in Conns : \A i \in DOMAIN sent[k] : sent[k][i].type \in {"chunk", "finalize"}
  /\ replies \in [Conns -> SUBSET [id : Ids, status : {"accepted", "duplicate", "error"}]]
  /\ srv \in [Conns -> {"none", "ready", "store", "row", "send", "settle", "gone"}]
  /\ pcm \in [Conns -> Pipelines] /\ fed \in [Conns -> Nat] /\ heard \in [Conns -> Nat]
  /\ raw \in [Conns -> SUBSET (1 .. MaxChunks)]
  /\ flushed \in [Conns -> BOOLEAN] /\ handoff \in [Conns -> BOOLEAN]
  /\ job \in [Conns -> [id : Ids, ok : BOOLEAN]]
  /\ upload \in Seq({"store", "send", "done", "error"})
  /\ DOMAIN claims \subseteq Ids /\ \A f \in DOMAIN claims : claims[f] \in {"pending", "done"}
  /\ object \in [Exts -> SUBSET (1 .. MaxChunks)] /\ draft \subseteq 1 .. MaxChunks
  /\ tasks \in Seq([id : Ids, ext : Exts])
  /\ final \in {"none", "running", "failed", "success"}
  /\ {audioAt, deleted} \subseteq BOOLEAN /\ branches \in Nat
  /\ budget \in 0 .. MaxEvents

AllPcm == \A k \in Conns : link[k] # "none" => pcm[k]

\* An autoprolong has queued the task of what it stored.
Prolonged == \E i \in DOMAIN tasks : tasks[i] = [id |-> 0, ext |-> "wav"]

\* When the recorder has dropped a recording, a task is queued whose audio is all that
\* was recorded, up to what a reader thread had not read when its decoder ended; after
\* an autoprolong, all up to the limit. Whatever was cut, repeated, timed out or
\* uploaded after a finalize that went through all the same.
AudioKept ==
  (rec = "idle" /\ n > 0 /\ ~deleted /\ AllPcm)
    => \E i \in DOMAIN tasks :
         LET sure == IF Prolonged THEN Limit ELSE n - PipeChunks IN
         1 .. sure \subseteq object[tasks[i].ext]

\* A finalize id queues at most one task, however often the command is repeated.
OneFinalPerId ==
  \A i, j \in DOMAIN tasks : (tasks[i].id = tasks[j].id /\ i # j) => tasks[i].id = 0

\* A client that was told its finalize is accepted, or is a duplicate, may drop the
\* recording: the task is queued.
AckedIsQueued == acked \subseteq {tasks[i].id : i \in DOMAIN tasks}

\* The recognizer hears all that the decoder of a connection gives: what has left the
\* buffer was in a piece, in mode chunk in one only; and when the recording is finalized,
\* in mode windowed, all of it was. However the audio of its messages is divided, short of
\* a frame that leaves no room for a step in the window.
AllHeard == \A k \in Conns : Unheard[fed[k]] = {}

\* No piece with text is dropped from the draft, whichever pieces are silent and however
\* long the frames are, and the segments are in order. Excepted are settings whose overlap
\* leaves less than TimeFloor of a step.
TextKept == \A k \in Conns : Lossy[fed[k]] = {}

\* What the draft covers never shrinks, though each connection starts from nothing and
\* writes the same fast row.
DraftGrows == [][AllPcm => draft \subseteq draft']_vars

\* A stop ends: the recording is dropped or the user is told that the upload failed.
StopEnds ==
  rec \in {"stopped", "waiting", "upload", "uploading"} ~> rec \in {"idle", "failed"}
=============================================================================
