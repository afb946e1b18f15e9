# Verification of voice-transcriber

TLA+ models of voice-transcriber, its server and its browser extension, checked
with TLC, and theorems about them, proved with TLAPS. Paths below are relative to
the repository.

## 1. The system

A browser extension, a web UI or the CLI records or uploads audio. The API
(FastAPI, `server/app`) keeps conversations and transcripts in PostgreSQL and
audio and transcript files in S3, and sends work to Celery workers over Redis
(`server/workers`): speech recognition (ASR), diarization, speaker
identification and summaries by an LLM, embeddings, cleanup. A WebSocket session
transcribes audio while it is recorded ("fast") and at its end queues the
"final" transcription of the whole recording.

The tables below list each part, what it keeps, what it does, where it is hard
and what makes it correct. `PROJECT.json` repeats the list with source files and
says how much of each part is modelled; its hazards are the places where tests
reach badly.

### Core

| part | state | operations | interacts with | hard | correct when |
|---|---|---|---|---|---|
| Transcript versioning (`app/models.py`) | rows of `transcripts` with revision, kind, tier, status; `conversations.active_transcript_id` | add a row, change its status, promote | every task and handler below | many writers, no common lock after the row was made | append-only, only a success is promoted, what is shown stays a success |
| ASR tasks (`workers/tasks/asr.py`) | the running row; slices of a long file and their counters | `transcribe_file`, `transcribe_slice`, `record_asr_chunk_done`, `finalize_parallel_transcript` | S3, broker, diarization, embeddings, LLM tasks | failure between steps, redelivery, chord that never fires | every attempt ends in success or failed, writes only its own row |
| Diarization (`workers/tasks/diarization.py`) | the diarized row, its base, speaker names | `run_diarization` | ASR row, S3, speaker labels, LLM tasks | base chosen long before the commit | derived from a success; names lost only for a new version |
| Broker (`workers/celery_app.py`) | queues, unacknowledged messages | deliver, acknowledge, redeliver | all tasks | late acknowledgement, visibility timeout, crashes | accepted work is done at least once |
| Upload (`app/api/upload.py`) | `audio_uploaded_at`, audio object | commit, store, send_task | ASR | three resources, one after the other; check and send_task apart | an accepted upload is transcribed, once |
| Conversations API (`app/api/conversations.py`) | the rows it reads | retranscribe, diarize, delete; `refetch_recommended` | all of the above | guards read rows that queued tasks have not made yet | no endless 409, polling ends |
| Realtime finalize (`app/api/realtime_finalize.py`) | fast rows | `persist_fast_snapshot`, `finalize_realtime_session` | WebSocket session, ASR | drafts race with finals | a draft never hides a final |

### Around the core

| part | state | hard | correct when |
|---|---|---|---|
| WebSocket session (`app/api/websocket.py`, `ws_finalize_store.py`) | per connection: decoder, PCM and raw chunks, `handoff_sent`; in Redis: claims of finalize ids | a claim that is pending while its handler fails or dies; autoprolong; a reconnect starts from nothing | a finalize id queues one task; who is told "accepted" or "duplicate" can drop the recording |
| Extension's WebSocket client (`browser-extension/src/websocket/client.ts`, `recorder/recorder.ts`) | pending chunks, recorded parts, the wait for an acknowledgement | broken connections, lost and late answers, fallback to the upload | no recording is dropped before a task with its audio is queued |
| Realtime buffer and merge (`ws_realtime_buffer.py`, `core/realtime_merge.py`) | samples not yet cut, pieces with text | boundaries of step, window, overlap and cap; two advances that should agree | every sample reaches the recognizer, every text the draft |
| WebM to PCM (`core/webm_pcm.py`) | bytes in the pipe | the thread that reads is not joined | the tail is part of the transcript |
| Transcript hub (`ws_hub.py`, `ws_hub_redis.py`) | bounded queues of subscribers | a slow subscriber | it harms only itself |
| Speakers API and labels (`api/speakers.py`, `services/speaker_display.py`, `tasks/llm.py`) | `speaker_labels`, identification status, names in the text | user, rerun and LLM write one map and one text | the text shows the names of the map |
| Session summary (`tasks/llm.py`, `core/recording_session_chain.py`) | `recording_session_summaries`, links between conversations | overlapping summaries, forks and gaps in the chain | the summary lists each segment in order and covers the newest text of what is not cut off |
| Embeddings (`tasks/embeddings.py`) | vectors of one revision | text read before the commit that asked for it | the index fits the text |
| Cleanup (`tasks/cleanup.py`) | - | S3 before the commit | nothing is deleted that is in use |
| Authentication (`api/auth.py`, `services/service_refresh_token.py`, `auth_credential_lockout.py`, `oauth_user.py`) | users, identities, refresh sessions, counters in Redis | unlocked read-check-write; sign-ins that cross; two-step counters | one live successor per rotated token; a token is of the owner of its identity; counters expire |
| Sign-in pages (`webui/src/api/client.ts`, `admin-webui`, extension `auth/oauth.ts`) | the refresh token in a storage that tabs share, the mark of a pending sign-in | refreshes of several tabs, closed windows, settings saved over a new token | who signed in stays so |
| Extension's recording (`background.ts`, `offscreen/main.ts`, `recorder.ts`, `popup/App.tsx`) | session record, recorders, waiters, panels | messages between panels, service worker and offscreen page, each of which may end | a microphone that is on is shown and can be stopped; what was recorded is uploaded |
| Admin API (`server/admin_api`) | - | guards as in the user's requests | as there |
| Providers, configuration, CLI, search, monitoring, deployment | - | - | not modelled, see section 8 |

## 2. Modules

| module | what it is |
|---|---|
| `TranscriptVersions` | abstract specification: the history of versions of one conversation and the active one |
| `Pipeline` | the detailed specification: API handlers, tasks, broker, workers, S3 and rows of one conversation |
| `Enumeration` | a finite set of numbers as a sequence in order, used by the merge and the chain of a session |
| `RealtimeAudio` | pure functions: the buffer that cuts a stream into pieces, the merge that makes the draft |
| `AudioSession` | one recording from its first chunk to the queued task: client, connections, handlers, claims, upload. Extends `RealtimeAudio` |
| `ExtensionRecording` | start and stop of recordings across panels, service worker and offscreen page |
| `SessionSummary` | after diarization: names, rolling summary of a session, vector index |
| `AuthSession` | sign-in, linking, rotation, lockout, and the pages that hold tokens |
| `MC...` (five) | instances for TLC: sets, budgets, symmetry |
| `PipelineProofs`, `AudioSessionProofs`, `AudioKeptProofs`, `ExtensionRecordingProofs`, `SessionSummaryProofs`, `SessionCurrentProofs`, `AuthSessionProofs` | inductive invariants and theorems; `AudioKeptProofs` builds on `AudioSessionProofs`, `SessionCurrentProofs` on `SessionSummaryProofs` and `EnumerationProofs` |
| `EnumerationProofs` | what an enumeration holds and in which order, and induction over sets of numbers |

The specifications meet at the queue: `AudioSession` ends where `transcribe_file` is
queued and has of the pipeline only the row that decides whether an upload is still
needed; `Pipeline` begins there and has of the session only finalize and snapshots;
`SessionSummary` begins with a diarized row. `ExtensionRecording` starts and stops the
recorders that `AudioSession` follows to the server. Each keeps of its neighbour what its
guards read.

### How `Pipeline` corresponds to the code

One step is one transaction (`with session_scope()`, or one `db.commit()` of a
request), one S3 access or one `send_task`. What lies between two of them is
local to a process.

- `rows` is the table `transcripts`. A row keeps `kind`, the tier of `meta`,
  `status` and the source revision of a diarized row. Revisions are contiguous,
  so `rows[r]` is the row with revision `r`, and `active` names a revision. Text,
  language and segments are left out: no property depends on them.
- `asrQ`, `mergeQ`, `diarQ` are the queues `asr_final` and `diarization`. Redis
  orders messages, but redelivery and several workers do not keep the order,
  so they are bags. `chord` holds the rows whose slices are still with the slice
  workers.
- `pc[w]`, `own[w]`, `held[w]` are a worker's place in its task, its row and its
  message. `download`, `store`, `commit`, `index`, `post` are the blocks of
  `transcribe_file` (the merge joins at `store`) and, without `store`, of
  `run_diarization`. The exception handler has two steps: at `mark` it selects the
  newest running row without a lock (`FindNewest`), at `failing` it updates that row by its
  id when it commits (`MarkFound`), whatever the row is by then. `found[w]` is the row in
  between.
- `call[c]` is an API process inside a request of several steps. A request of one
  step (retranscribe, diarize, renaming) is a single action: its guard reads and
  its `send_task` follows at once, but the row the guard looks for is made by
  the worker later, so the race between check and effect is in the model.
- A budget bounds how often each request is made and each fault occurs; an instance has a
  set of them, `Budgets`, of which a behaviour has one. Faults
  are named: `io` (a call raises), `handler` (the transaction of an exception
  handler raises), `crash` (a worker dies, the message comes back), `lost` (a child
  dies and its parent acknowledges the message, the default of Celery),
  `redeliver` (the visibility timeout ends).
- `Diarization` is the set of values of `diarization.enabled` that running
  processes have loaded (`load_app_config` is cached per process), so a rollout
  is modelled by both values. Embeddings, an LLM provider and session summaries
  are taken to be enabled; when they are not the messages counted in `indexed`
  and `posted` are not sent.
- `RefetchRecommended` is `_refetch_recommended` with the queries it makes.

### How `RealtimeAudio` and `AudioSession` correspond to the code

- Audio has no content. `RealtimeAudio` keeps the length of a stream, the start of the
  buffer in it and the pieces cut; all bytes and seconds are one unit, so that 256 bytes
  and 0.05 s are the constants `ByteFloor` and `TimeFloor`. `Mode`, `ChunkLength` and
  `Build` are how a conversation's request and `limits.yaml` become a buffer; any mode other
  than `windowed` is treated as `chunk`, as in `feed`. `LimitsInOrder` says of `limits.yaml`
  that `chunk_ms_min` (500) is no more than `chunk_ms_max` (3000) and no less than 0.05 s.
- In `AudioSession` a chunk is its number. MediaRecorder's first chunk holds the header of
  the stream, so a decoder that did not get it decodes nothing (`Decodable`). `fed` is
  what was written to ffmpeg, `heard` what the reader thread has put into `session_pcm`;
  the two differ, at the end too, as `close` waits for the process and not for the thread.
  How much is left unread is `PipeChunks`.
- A connection delivers in order until it is `cut` (what was under way is lost, the ends
  find out separately) or `closed` (what was sent arrives). A handler's `await`s end
  steps: claim and flush, audio, row, task, answer.
- `claims` is Redis. A pending claim whose handler is gone expires (30 minutes); that of a
  finished finalize (a week) does not. `Autoprolong` finalizes under an id of its own
  (0 here) without a claim. `RepeatFinalize` is a client that sends its finalize again,
  which the server supports; the extension falls back to the upload instead.
- `AllHeard` and `TextKept` look up a table of `RealtimeAudio` over all streams of so many
  messages. They are invariants of the session because the number of messages a decoder
  was fed is a state of it; the streams are not in the state. `StreamsAreTabled` makes the
  table as long as a recording.

### How `ExtensionRecording` corresponds to the code

A step is what a function does up to its next `await`. `starts[c]` and `stops[k]` are
`startOffscreenRecording` and `stopOffscreenRecording` of the service worker, `at[p]` is
`handleStart` or `handleStop` of a panel, `starting` and `stopping` the calls of the
recorder in each document. `recorder.parts` has the conversations whose audio is in
`recordedParts`: two starts that cross mix them. `waiters` and `resolver` are the module's
variables and vanish when the browser ends the service worker (`worker`).

### How `SessionSummary` corresponds to the code

Names are who gave them: `none`, `suggested`, `auto`, `manual`. `rows[c]` has the names in
the text of each diarized revision and those its vector was made from. A request that
writes names is read (`req`) and committed in two steps, tasks in as many as they have
transactions and calls. Messages are a bag, redelivered and executed by several workers:
`docker/docker-compose.yml:300` starts one Celery process with default concurrency for
the queues of `llm`. A worker that dies with its parent has its message returned
(`WorkerDies`); when only the child is killed the parent acknowledges it (`ChildLost`, the
`lost` of `Pipeline`: `task_reject_on_worker_lost` is not set), as it does when an exception
handler raises. `DiarizerLost` is the same for a diarization that has not yet queued what
follows it. `Bundle` has for each conversation the names in its text, the participants, which
come from the map, and whether it is `whole`: the bundle is cut at
`session_summary_max_input_chars`, at the end, where the newest conversations are. How many
are left whole is any number in `Fits`, as texts have no length here.

Requests that write names are not concurrent with each other: their handlers have no `await`
between read and commit, so that one API process does one at a time. That is the one
API process that `docker/docker-compose.yml` starts. Its line 98 speaks of several replicas;
two that write one conversation's names at once are not modelled. `Plans` lists which events may follow each
other, so that deep sequences are checked without all of them at once.

### How `AuthSession` corresponds to the code

A call is a slot with its page and its place in the handler; each place ends at a commit
or a Redis call. Google and Yandex have handlers of the same shape and share the actions.
A refresh token is its row of `auth_refresh_sessions`; `root` is the first one of its
sign-in. `store[a]` is the storage that all pages of one application share;
`refreshInFlight` is per page. Access tokens may expire at any time. The PKCE finalize
of `api/auth.py` is a place of the sign-in the current extension does not reach. The mark of a
pending sign-in (`voiceTranscriberOAuthFlow`) is not in the model: `Pending` says that the
buttons of the extension are disabled while it signs in, and the panel stays open until then.

Operators and actions that come directly before one of the same meaning and are said to
be "mutated" are plausible bugs of it. Nothing uses them; each is put in the place of its
original to see that the properties notice.

## 3. Properties

Each module has one type invariant.

`Pipeline`. Invariants: `ActiveIsSuccess`, with one worker of each kind what users see is
never a running or failed row; `DerivedFromSuccess`, likewise, a diarized row has an earlier,
lasting success as its base; `OneAttemptPerRow`, no two tasks write the same row except two
deliveries of one merge, and a row is never at once with a task and its chord;
`RunningHasWriter`, a running row is being worked on. Action properties:
`FailureMarksOwnRow`; `SnapshotsHideNothing`. Refinement: `ImplementsVersions`.
`TranscriptVersions` has the weakest promise the code keeps with any number of workers: the
history only grows, only a success is promoted, a version marked failed may still become a
success (its handlers can fail the row of another task, which later completes), and a success
becomes failed only when a handler had found it running (it is `doomed`; `Condemn`, `Forget`
and `Fail` are the handler's steps). Liveness: `UploadIsTranscribed`, an upload whose message was sent is
transcribed; `FinalIsPosted`, each final is followed by its LLM task or one for a newer
revision; `Settles`, the pipeline comes to rest with no row left running.

`AudioSession`. `AudioKept`, a recording is dropped only when a task is queued that finds
all of it in S3, whatever was cut, repeated, timed out or uploaded as well, save for what
the pipe of the decoder holds or, after an autoprolong, what came after the limit;
`OneFinalPerId` and `AckedIsQueued`, what a claim is for; `AllHeard` and `TextKept`,
nothing of the audio is kept from the recognizer and nothing of its text from the draft;
`DraftGrows`, reconnects do not shorten the draft; `StopEnds`, a stop is answered.

`ExtensionRecording`. `MicVisible`, a microphone that is on is in the session record, by
which it is shown and stopped; `AudioDelivered`, nobody closes the offscreen page while it
has audio that is not on the server; `StartEnds` and `StopEnds`, who starts or stops is
answered.

`SessionSummary`. `RunningIsWorked`, a status that makes others wait or refuses them has
someone at work on it, or its message was lost; `SummaryCurrent`, identification and
summaries that overtake each other leave a summary that lists every conversation, and is of
the newest text, names and participants of each that was not cut off; `ChainInOrder`, forks,
missing links and deletions leave each segment once and in order; `NamesShown`, the text
shows the names of the map; `IndexFits`, once no task of the index is left, the vector is
of the text, whatever requests and tasks of other kinds are under way.

`AuthSession`. `SessionKept`, who signed in stays so; `OneLivePerSignIn`, a rotated token is
dead; `TokenOfOwner`, across sign-ins and links that cross; `CounterHasExpiry`, a counter of
failures is forgotten.

Several of them except states by history variables (`crossed`, `lost`, `drifted`, `stale`, `renamed`,
`missed`, `disturbed`, `raced`, `orphan`), set where the code is
known to let the property go. The exceptions are part of the statement: they name,
completely for the instance, the ways in which it can fail. Section 5 lists them.

### Fairness

`FairSpec` of `Pipeline` has weak fairness for each worker (a worker process that has a
message, or can take one, goes on), for the chord (slices are tasks of workers of
their own) and for each accepted request (a handler runs to its end unless it
raises). Requests and faults are not fair. A Celery worker consumes as long as there
are messages and an async handler is resumed by its event loop, which is weak
fairness; nothing needs strong fairness. One assumption is about operation, not
code: a worker that died is started again, since `docker/docker-compose.yml` has
no restart policy. Without it `UploadIsTranscribed` and `FinalIsPosted` hold only as
long as one worker per queue lives.

`AudioSession` is fair to the client's timers and answers (`Recorder`: the 30 s of
`waitForFinalizeAck` always pass), to the handler of each connection and to the handlers
of uploads. `ExtensionRecording` is fair to the service worker's two functions, each of which
has a timeout, and to the panels; the recorder in the offscreen page is not fair, as
it may wait for a permission prompt or the server. Recording, stopping, requests, and
faults are never fair. `AuthSession` and `SessionSummary` state safety only.

## 4. Runs

| run | instance | shows |
|---|---|---|
| `faults` | 2 ASR workers, parallel chunks; upload, delete, 2 io, crash, lost, redeliver, handler | types, one attempt a row and the refinement under every kind of fault (586 099 states with symmetry) |
| `delivery` | 2 ASR workers, parallel chunks, both values of diarization; upload, 2 crashes, redeliver | at-least-once delivery is enough for the two liveness properties (127 577 states) |
| `oneworker` | 1 ASR worker, 2 clients; either upload, retranscribe, delete, 2 io, or 2 snapshots, finalize, admin retranscription, diarize, rename, io | with one worker per queue and faults that reach a handler: what is shown is a success, handlers mark the right row, drafts hide no final, nothing is left running (503 882 states) |
| `audio` | 3 chunks, 2 connections, 1 chunk in the pipe, limit of 2, two events of any kind; streams of up to 3 messages and 22 units, six settings | `AudioSession` and `RealtimeAudio` (977 248 states) |
| `extension` | 2 panels, both sources, 2 starts, 2 stops at a time, one event | `ExtensionRecording` (482 602 states) |
| `auth` | 2 tabs, panel, console, CLI; 2 identities with addresses, 2 users, 3 tokens, 2 calls at a time, one event | `AuthSession` (2 126 416 states with symmetry) |
| `llm` | 2 speakers, 2 workers, 3 answers of the LLM; sessions of 1, 2 and 4 conversations with plans of events, of which one or all fit the limit of the model | `SessionSummary` (3 298 064 states with symmetry) |
| `wrongrow` | 2 ASR workers; upload, retranscribe, io | `FailureMarksOwnRow` violated, see section 5 |
| `lostsuccess` | the same | `ActiveIsSuccess` violated |
| `secondfinal` | finalize, upload | violated |
| `polling` | upload, io; fair | violated |
| `names` | upload, rename, diarize | violated |

Bounds. Two ASR workers are enough for every pair of tasks to interleave, since
each property speaks of one row or of two writers; a third attempt only repeats
one of the two. The same holds of two connections (before and after a reconnect; a third
would be one more that has no header), two panels, two calls at the API and two workers
of `llm`. The faults are all in one budget where they can meet, and left out
where the property is not promised under them: a lost child or a broken chord
leaves its row running (nothing repairs it), so `delivery` and `oneworker` have
only faults after which the broker, or a handler, acts. `SYMMETRY` is used only
in `faults`, which has no liveness property. `CHECK_DEADLOCK FALSE` is set
because the system rests when the budget is used up and all queues are empty.

`audio` takes Redis to work (`RedisUp`); when it does not, each finalize counts as the
first, by design (`ws_finalize_store.py`), and one id can queue two tasks. Three chunks are
a header, a middle and a tail; the limit of two makes autoprolong happen before, at and
after the finalize. The streams have empty frames, frames shorter than a step, longer than a
window and longer than the cap. That the events are few hides nothing in these two: the
safety properties also held with three events in `audio` (3 769 389 states), with a fourth
chunk (2 382 104), with a fourth chunk and a limit of one (3 717 019), and with two events
in `extension` (4 599 661), which are too large for regular runs. In `audio` the two cases
of `AudioKept` are only told apart by the fourth chunk. In `auth` an event is anything but a
sign-in, link, request or refresh, which are not bounded except by the tokens. In `llm` one
conversation meets every pair of events after its diarization and the reruns that interact;
two meet a failure or a deletion; four only make the chain, whose orders need three links
and a gap.

## 5. What the code does and its documents deny

- `wrongrow`: the handler of `transcribe_file` looks for the newest running ASR
  row rather than its own. With two workers it fails the other task's row, and
  its own stays running (and then every retranscribe gets 409).
- `lostsuccess`: between that query and the handler's update by id, without a lock or a
  condition on the status, the other task may succeed and be promoted. The update then
  writes `failed` over the row users are shown; with the handler of `run_diarization`
  likewise, and over the base of a diarized row. With one worker of each kind it cannot
  happen (`ActiveSafe`, `DerivedSafe`).
- `secondfinal`: `_final_transcript_already_queued` looks for a row, which the
  queued task has not made yet. An upload after finalize queues a second final.
- `polling`: `_refetch_recommended` stays true when diarization failed before its
  row was committed.
- `names`: speaker names are reset when a rerun of diarization starts.

What follows was met while modelling. It is no violation of a run, but the properties
state it as an exception or a constant excludes it:

- A conversation may ask for `chunk_ms` from 500 to 3000 (`clamp_chunk_ms`) whatever
  `window_overlap_ms` is (1500). From 500 to 1550 the buffer then advances by 256 bytes,
  the merge by 0.05 s a piece, and nearly all text after the first frame is dropped from
  the fast draft (`RoomToStep` in `TextKept`). The final transcript is not affected.
- A frame longer than the window less a step loses its beginning to the recognizer
  (`Fits` in `AllHeard`); in mode `chunk` all pieces of a frame get the end of the stream
  as their end, and a last piece shorter than a step is never transcribed.
- Without ffmpeg (`_use_pcm_pipeline` false) a finalize after a reconnect replaces the
  audio by the part after it and is acknowledged (`AllPcm` in `AudioKept`;
  `websocket.py:604`).
- When Redis fails as a claim is released it stays pending until it expires. After an
  autoprolong that could not branch, `handoff_sent` stays set.
- The extension does not read `autoprolong_handoff`: it uploads the whole recording. The
  upload is skipped when the final task of the autoprolong is queued already; what was
  recorded between the limit and the stop is then in no task (`Prolonged` in `AudioKept`,
  found when the proof without it failed).
- Two starts of the extension that cross, or a service worker ended during a call, can leave
  a microphone on that is not in the session record (`crossed`, `lost`).
- A panel closed during a sign-in leaves `pending` set, and with it the buttons of every
  later panel disabled (`popup/App.tsx:992`; not in the model).
- A killed child of queue `llm`, or an exception handler that raises, leaves the status
  "running" for ever: identification and an admin's resummary then are refused (`lost`). An
  index task lost in this way leaves an old vector (`stale`).
- A session longer than `session_summary_max_input_chars` loses its newest conversations
  from the summary, which lists them and says success (`whole` in `SummaryCurrent`;
  `llm.py:144`).
- A sign-in whose state expired at the provider is taken for one of the web UI
  (`auth.py:202`).
- Two tabs that refresh at once, or a setting saved during a refresh, can sign the user
  out (`disturbed`); two uses of one refresh token at once leave two live (`raced`); a
  failure between `INCR` and `EXPIRE` leaves a counter for ever (`orphan`).
- An LLM suggestion replaces a manual name in the map (`drifted`), though mode `suggest` of
  `docs/SPEAKER_IDENTIFICATION.md` changes nothing that is shown.
- The summary keeps the text of a deleted conversation until the next one is made.

## 6. Proofs

Eight modules, all checked to the last leaf. The constants are unbounded everywhere:
workers, panels, tabs, connections, chunks, conversations, messages and budgets are any sets
and any numbers that the assumptions of the specifications allow. Every theorem is
`Spec => []P` or `Spec => [][A]_vars` from an inductive invariant; the proof that a step
keeps it has a case for each action, and lemmas say what the operators do from which the
actions are built. Each inductive invariant was checked by TLC, whole or in its parts,
before it was proved.

### `PipelineProofs`

Any workers and clients, budgets and switches (the assumptions of `Pipeline`):

| theorem | statement |
|---|---|
| `Invariance` | `IInv` |
| `TypeCorrect`, `AttemptsSafe` | the invariants of run `faults` |
| `SnapshotsSafe` | `SnapshotsHideNothing` |
| `Implementation` | `Spec => ImplementsVersions` |
| `ActiveSafe`, `DerivedSafe` | `ActiveIsSuccess`, `DerivedFromSuccess`, with one worker of each kind |
| `RunningTended` | `RunningHasWriter`, with one worker of each kind, no parallel chunks and no `crash`, `lost` or `handler` |
| `FailureSafe` | `FailureMarksOwnRow`, likewise, with any number of diarization workers |

The inductive invariant `IInv` adds to the properties what they rest on:

- `KnownRevisions`: a worker at work has a revision that exists;
- `HeldMerge`: a worker that merges writes the row its message names, and a merge with
  failed slices is never held;
- `ExclusiveRows`: each row is with at most one task, chord or merge message. It
  is `OneAttemptPerRow` with the cases in between, and holds because a row is
  made by the task that will write it;
- `OpenRows`: a row that its task, its chord or a failing merge still has in hand
  has not succeeded;
- `NoFastWork`, `RightKind`: rows of realtime drafts are never in a worker's hands, and
  those that are, are of the kind its tasks write;
- `FoundKnown`: a handler between its two steps has found a row of its kind;
- `FinalIsAsr`: only ASR rows have tier final.

The refinement maps each action to a step of `TranscriptVersions` or a stutter under
`IInv`; `doomed` is the set of rows that handlers have found. That an update can hit a
success is what it allows (`Fail`), and all it allows.

`ActiveSafe` and `DerivedSafe` need more, and hold with one worker of each kind only:
`FoundOpen`, the row a handler has found has not succeeded, since the only worker that
could complete a row of that kind is in the handler (`Succeeds`: a row becomes a success by
the commit of a worker that has it, and `RightKind` says which).

The last two theorems keep the faults that reach a handler, redeliveries, deletions and
every request. `Tended` says that each running row is the row of a worker that writes it or
is about to mark it. A start needs an idle worker, so with one worker nothing of the kind
runs before (`RunningStarts`), and the newest running row, which the handler marks, is its
own (`TendedEnds`). The hypotheses are those under which the code keeps the promise: runs
`wrongrow`, `lostsuccess` and `faults` have what happens without them.

### `AudioSessionProofs` and `AudioKeptProofs`

Any number of chunks, connections (at least one) and events of every kind:

| theorem | statement | Redis |
|---|---|---|
| `Invariance` | `IInv` | works |
| `OneFinal`, `AcksSafe` | `OneFinalPerId`, `AckedIsQueued` | works |
| `TypeCorrect` | `TypeOK` | any |
| `DraftNeverShrinks` | `DraftGrows` | any |
| `DroppedIsQueued` | `AudioKept` | works |
| `RecognizerHearsAll` | `AllHeard` | any |
| `DraftKeepsText` | `TextKept` | any |

The server calls a second finalize a duplicate when there is a claim, also one whose
handler has died. That this never makes the client drop a recording rests on the
connections: `Turns`, they are opened one after the other; `Phases`, nothing is recorded
after the finalize, so that a connection opened later carries no audio; hence
`LastFinalizes`, only the last connection with audio can be finalized; hence `ClaimMeans`
and `TaskClaimed`: a claim that is not done, and a task whose claim has expired, belongs to
that connection, whose handler is busy or gone and reads no second finalize, and any other
one answers that it has not enough audio. `ActiveOwns` says that a handler within a finalize
has the claim, alone, and has queued its task or not according to its place. The part of the
invariant about connections and types (`Nets`, `Types`) does not depend on Redis.

`AudioKeptProofs` follows the audio. `BoundsInv` bounds what is sent, decoded and stored by
what was recorded. `PcmInv` is about connections that decode: `Header`, a connection's
decoder gets all chunks in order or lacks the header and decodes nothing, and one
connection has the header; `Decoded`, what a handler finalizes is all that was recorded but
for the pipe, or reaches the limit; `Stored`, the objects of queued tasks hold that much.
`DraftGrows` follows because every draft is a prefix that one connection decoded. The
assumption `LimitIsReached` of `AudioSession` (an autoprolong is only taken with something
recorded) is what makes an autoprolong's task worth having. A first proof of `AudioKept` for
any number of chunks failed, and the failure was real: section 5 tells of the audio after an
autoprolong.

The last two theorems are about `RealtimeAudio`, for any settings (`ChunksAreNumbers`,
`LimitsInOrder`), any number of messages and any lengths of frames. `FeedFits` says what every
message leaves: less than a step in the buffer (`BaseFits`), and pieces that are not empty,
start in order, and of which the j-th ends more than j - 1 advances into the stream
(`PiecesFit`). From this each property has an argument of its own.

- `AllHeard`: `HeardSoFar` is what is heard before the flush. In mode `windowed` all that lies
  before the buffer is in a piece: a cut goes on at most an advance, which is at most a
  window, and frames that fit (`Fits`) leave nothing between the last cut and the window. In
  mode `chunk` the j-th piece is the j-th step of the stream, and the cap removes nothing. The
  flush adds what is left, unless the last frame made a piece that reaches the end.
- `TextKept`: an entry is dropped when it ends before as many advances of the merge as its
  place in the list of pieces with text. A place in the list is at most the place among all
  pieces (`AscendsInOrder`), and an advance of the merge is at most one of the buffer when
  the overlap leaves room (`MergeKeepsUp`), so none is dropped. The starts are in order
  because the larger of two ordered sequences is ordered. The cap only makes pieces end later.

The feeds of a stream are a recursive function, so its values exist by an induction over sets
of numbers (`Fed`); `FedBounded` carries the two results to the session.

### `ExtensionRecordingProofs`

Any windows and any bounds (`RecorderBounds`, `RecorderInputs`, `PanelsAreNew`, and
`OneStopFollowed`, which lets the model follow at least one stop of a recorder):

| theorem | statement |
|---|---|
| `TypeCorrect` | `TypeOK` |
| `MicrophoneIsVisible` | `MicVisible` |
| `AudioIsDelivered` | `AudioDelivered` |

The invariant has two layers. Some of it always holds: promises of the service worker belong
to calls that wait for them (`ResolverWaits`, `WaitersWait`), a recorder at work has its
document (`HasDocumentOpen`), a panel that waits for a stream is in `handleStart`
(`PanelRecords`, `PanelAsks`). The rest, `Uncrossed`, holds until a start crosses another
call: everything any recorder holds is of the last conversation (`LastHeld`); there is one
start (`OneStart`) and one recorder at work (`OneRecorder`); no stop runs while a start does,
and a stop that waits has turned the microphone off (`StopsAlone`); a conversation is told to
a panel once its start is through (`ToldLast`); the microphone is on for a start under way or
for the session (`LiveShown`); and audio that a panel was told of and that was heard is
delivered, failed or still held (`Kept`). Stops may come in any number at once.

### `SessionSummaryProofs` and `SessionCurrentProofs`

Any speakers, workers, conversations, revisions and copies, any answers and any plans:

| theorem | statement |
|---|---|
| `Invariance` | `IInv` |
| `Worked` | `RunningIsWorked` |
| `NamesSafe` | `NamesShown` |
| `Shapes`, `TypeCorrect` | `TInv`, `TypeOK` |
| `ChainOrdered` | `ChainInOrder` |
| `SummaryIsCurrent` | `SummaryCurrent` |
| `VectorsFitTexts` | `IndexFits` |

`RunningIsWorked` is three statements of the form "a status, or someone who will change it".
The invariant has `PlacesFit`, which tells what a task has at each place, `RowIsThere`, and
makes each statement inductive with an operator that names who will change the status
(`WillIdentify`, `WillSummarize`, `Waits`): a task that is past its last check, a
message, a rerun that has yet to send it, or a message in `lost`. `NamesSafe` needs of a writer between its read and
its commit that its copy of the map still is the map, or that the conversation is in
`drifted` (`NamesInv`).

`TInv` adds what rows, maps, messages and tasks name. `CInv` makes `SummaryCurrent`
inductive: unless a summary is missed there is one task of it (`OneSummary`), and what it
has read, and what has been stored, lists each conversation that no later summary will read
(`Later`), as it is when it is whole (`Current`). `XInv` does the same for each vector: a task will read the text (`Will`), the row
is excepted, or nobody is writing names and those at work on the vector, or the vector
itself, have the names of the text. This proof needed two hypotheses of `IndexFits` less
than the property had, so they were dropped. `ChainOrdered` needs that along the links each
conversation comes later than all before it; this is proved by induction over sets of
numbers (`LeastNumber` and `Inductive` of `EnumerationProofs`, `Rises`), since the induction theorems of the library
take an operator as parameter. For this proof the order by time is stated as an enumeration
by rank (`Ascending`) rather than with `SelectSeq`.

### `AuthSessionProofs`

Any tabs, identities, addresses, slots and bounds:

| theorem | statement |
|---|---|
| `Invariance` | `IInv` |
| `TypeCorrect`, `OneLive`, `TokensSafe`, `CountersSafe` | `TypeOK`, `OneLivePerSignIn`, `TokenOfOwner`, `CounterHasExpiry` |
| `SessionsStay` | `SessionKept` |

`CallsFit` tells what a call has at each place of its handler: the identity and the user
looked up at `issue` are those of the owner, which is why a token is never given for the
wrong one. `OneLivePerSignIn` is not inductive: a refresh that has read a live token rotates
it later. `RotatesTheLiveOne` adds that until then no other token of the sign-in is live, and
`OneRotates` that two refreshes of one sign-in at this place make it `raced`.

`SessionKept` is about pages and server at once. `OneHolder`: a refresh token is in the hands
of one application, in its storage or in a call that will bring it there, so no other one
rotates it. `Undisturbed`: as long as nothing disturbed an application, its storage agrees
with what its user did or a call is bringing the new token, and a call under way is alone,
uses the stored token and will not be refused. What disturbs is in `disturbed`: calls of
several pages that cross, a call that is lost, a block, an expired token.

### Only model-checked

- Liveness: `UploadIsTranscribed`, `FinalIsPosted`, `Settles`, `StopEnds`, `StartEnds`. The
  prover has no rule for fairness that it can apply without `ENABLED`.
- The five violations of section 5 are counterexamples and have nothing to prove.

## 7. Plan

1. An abstract specification of a recording (recorded, queued, transcribed) that
   `AudioSession` implements, proved like `Implementation`.
2. `ParallelAsr`: slices, counters and the chord of one row; the counter never exceeds the
   total, proved over steps.
3. A composition of `AudioSession` with `Pipeline` in place of its `Worker`, with
   one chunk, for the second final that section 5 shows.

## 8. Not modelled

- Inference, formatting, encryption, HTTP parsing, rendering, metrics and deployment:
  pure computation or I/O without protocol. Search, settings and monitoring: single
  queries and updates.
- Several conversations in `Pipeline`: every guard and lock is per conversation; the
  sessions that link several are in `SessionSummary`.
- Transcript hub: it publishes to bounded queues that drop when full. Nothing waits for it
  and no state is made from it; a viewer reads the segments again when it polls.
- Retention cleanup: the two steps of the delete request (which `Pipeline` has) one
  conversation at a time, of conversations too old to be worked on. The purge of a
  deleted conversation's rows does not exist in the code.
- Messages of slices are within `chord` until `ParallelAsr` exists.
- Authentication: creation and encryption of API keys, the password sign-in of tests,
  `POST logout`, which changes nothing.
- Extension: the mark of a pending sign-in, the repair of a stale session record when the browser starts
  (`background.ts:202`), the upload of a file. Web UI: its own recorder.
- The authentication of the WebSocket, and a decoder process that dies early.
