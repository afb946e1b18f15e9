---------------------------- MODULE AudioKeptProofs ----------------------------
(***************************************************************************)
(* Proofs about AudioSession of what becomes of the audio, for any number  *)
(* of chunks, connections and faults, when connections decode: the draft   *)
(* never covers less than it did, and, as long as Redis works, a recording *)
(* is dropped by the client when a task for its audio is queued. Then the  *)
(* buffer of RealtimeAudio: the recognizer hears all that is decoded, and  *)
(* the merge keeps all of its text, however the audio is divided.          *)
(***************************************************************************)
EXTENDS AudioSessionProofs, EnumerationProofs

-----------------------------------------------------------------------------
\* The inductive invariant

\* Only chunks that were recorded are sent, decoded and stored.
Recorded == 1 .. n
ChunkBounds ==
  /\ n \in 0 .. MaxChunks
  /\ \A i \in DOMAIN pending : pending[i] \in Recorded
  /\ \A k \in Conns : \A i \in DOMAIN sent[k] :
       sent[k][i].type = "chunk" => sent[k][i].val \in Recorded
DecodeBounds ==
  \A k \in Conns : heard[k] <= fed[k] /\ fed[k] <= n /\ raw[k] \subseteq Recorded
KeptBounds ==
  object \in [Exts -> SUBSET Recorded] /\ draft \subseteq Recorded
InBounds == ChunkBounds /\ DecodeBounds /\ KeptBounds

SwitchTypes ==
  /\ pcm \in [Conns -> Pipelines] /\ flushed \in [Conns -> BOOLEAN]
  /\ handoff \in [Conns -> BOOLEAN]
RowTypes ==
  /\ \A f \in DOMAIN claims : claims[f] \in {"pending", "done"}
  /\ final \in {"none", "running", "failed", "success"}
  /\ audioAt \in BOOLEAN /\ deleted \in BOOLEAN /\ branches \in Nat
  /\ budget \in 0 .. MaxEvents
UploadTypes == upload \in Seq({"store", "send", "done", "error"})
Rest == SwitchTypes /\ RowTypes /\ UploadTypes

\* The client uploads a recording that is over. An upload that is done, and a worker, have
\* seen a task.
Uploads ==
  /\ upload # <<>> => rec \in {"uploading", "idle", "failed"}
  /\ rec = "uploading" => upload # <<>>
  /\ (final # "none" \/ \E i \in DOMAIN upload : upload[i] = "done") => tasks # <<>>

\* A connection gives its decoder all chunks in order, and then the finalize; or the header
\* went elsewhere, and it decodes nothing.
InOrder(k) ==
  \A i \in DOMAIN sent[k] :
    IF sent[k][i].type = "chunk" THEN sent[k][i].val = fed[k] + i ELSE n <= fed[k] + i - 1
NoHeader(k) == n > 0 /\ fed[k] = 0 /\ \A i \in DOMAIN sent[k] : sent[k][i] # Chunk(1)
Lines == \A k \in Conns : InOrder(k) \/ NoHeader(k)

\* The open connection has been sent all that was recorded.
Current ==
  \A k \in Conns : (k = sock /\ link[k] = "up") =>
    NoHeader(k) \/ (n <= fed[k] + Len(sent[k]) /\ (fid = 0 => n = fed[k] + Len(sent[k])))

\* What waits for a connection is the end of the recording.
Waiting == \A i \in DOMAIN pending : pending[i] = n - Len(pending) + i

\* One connection gets the header.
Heads(k) == fed[k] > 0 \/ \E i \in DOMAIN sent[k] : sent[k][i] = Chunk(1)
OneHead ==
  /\ \A j, k \in Conns : Heads(j) /\ Heads(k) => j = k
  /\ (n = 0 \/ \E i \in DOMAIN pending : pending[i] = 1) => \A k \in Conns : ~Heads(k)
Header == Lines /\ Current /\ Waiting /\ OneHead

\* A handler finalizes what its decoder gave: all but what the pipe holds, for a client;
\* up to the limit at least, for an autoprolong.
Busy(k) == srv[k] \in {"store", "row", "send", "settle"}
Decoded ==
  \A k \in Conns :
    /\ raw[k] = {}
    /\ flushed[k] => fid = 1 /\ n <= fed[k] /\ n <= heard[k] + PipeChunks
    /\ Busy(k) => heard[k] > 0 /\ (job[k].id = 1 => flushed[k])
                                  /\ (job[k].id = 0 => Limit <= heard[k])

\* The draft and the WAV object are what a connection has decoded, and so of the one that
\* has the header.
HeardAll(S) == \A x \in S : \E k \in Conns : x <= heard[k]
Stores(k) == srv[k] \in {"row", "send"} \/ (srv[k] = "settle" /\ job[k].ok)
WavStored == \A k \in Conns : Stores(k) => 1 .. heard[k] \subseteq object["wav"]
WebmStored ==
  (\E i \in DOMAIN upload : upload[i] = "send") => 1 .. n \subseteq object["webm"]

\* What the object of a task holds.
Holds(t) ==
  /\ t.ext = "webm" => upload # <<>> /\ 1 .. n \subseteq object["webm"]
  /\ t.ext = "wav" /\ t.id = 1 => fid = 1 /\ 1 .. n - PipeChunks \subseteq object["wav"]
  /\ t.ext = "wav" /\ t.id = 0 => 1 .. Limit \subseteq object["wav"]
TaskStored == \A i \in DOMAIN tasks : Holds(tasks[i])
Stored == HeardAll(draft) /\ HeardAll(object["wav"]) /\ WavStored /\ WebmStored /\ TaskStored

\* A recording that was dropped has a task.
DropQueued == (rec = "idle" /\ n > 0) => tasks # <<>>

BoundsInv == Types /\ Nets /\ InBounds /\ Rest /\ Uploads
PcmInv == AllPcm => Header /\ Decoded /\ Stored

-----------------------------------------------------------------------------
\* What the steps do

\* Who writes what is recorded, decoded, stored and queued. The steps of the recorder:
Client == Record \/ Stop \/ NoticeClose \/ SendFinalize \/ ReceiveReply \/ FinalizeTimeout
          \/ RepeatFinalize
LEMMA ClientWrites ==
  ASSUME Client
  PROVE  /\ UNCHANGED <<sessionVars, upload, storeVars>>
         /\ Record \/ UNCHANGED n
         /\ rec' = rec \/ rec' \notin {"recording", "uploading"}
         /\ rec \notin {"uploading", "idle", "failed"}  \/ rec' = rec
         /\ budget' = budget \/ (budget > 0 /\ budget' = budget - 1)
BY DEF Client, Record, Stop, NoticeClose, SendFinalize, ReceiveReply, FinalizeTimeout,
   RepeatFinalize, CloseAnd, Spend

\* The handlers, but for what they read and where they go.
LEMMA HandlerWrites ==
  ASSUME NEW k \in Conns, Handler(k) \/ FinalizeRaises(k) \/ Cut(k)
  PROVE  /\ UNCHANGED <<clientVars, pcm, upload, final, deleted>>
         /\ UNCHANGED <<fed, heard, raw, flushed>> \/ HandleChunk(k) \/ FinalizeBegin(k)
         /\ UNCHANGED object \/ StoreAudio(k)
         /\ UNCHANGED draft \/ HandleChunk(k) \/ AddFastRow(k)
         /\ UNCHANGED tasks \/ QueueFinal(k)
         /\ UNCHANGED claims \/ FinalizeBegin(k) \/ SettleFinalize(k)
         /\ UNCHANGED branches \/ branches' = branches + 1
         /\ audioAt' \in {audioAt, TRUE}
         /\ UNCHANGED handoff \/ HandleChunk(k) \/ NoHandoff(k)
         /\ budget' = budget \/ (budget > 0 /\ budget' = budget - 1)
<1> USE DEF clientVars, netVars, sessionVars, decodeVars, storeVars, Spend
<1>1. CASE HandleChunk(k)
  BY <1>1 DEF HandleChunk
<1>2. CASE FinalizeTooShort(k) \/ FinalizeDuplicate(k)
  BY <1>2 DEF FinalizeTooShort, FinalizeDuplicate
<1>3. CASE FinalizeBegin(k)
  BY <1>3 DEF FinalizeBegin
<1>4. CASE StoreAudio(k) \/ AddFastRow(k) \/ QueueFinal(k) \/ FinalizeRaises(k)
  BY <1>4 DEF StoreAudio, AddFastRow, QueueFinal, FinalizeRaises
<1>5. CASE SettleFinalize(k) \/ Handoff(k) \/ NoHandoff(k) \/ Disconnected(k) \/ Cut(k)
  BY <1>5 DEF SettleFinalize, Handoff, NoHandoff, Disconnected, Cut
<1> QED
  BY <1>1, <1>2, <1>3, <1>4, <1>5 DEF Handler

\* The steps away from the connections.
Others ==
  \/ BeginUpload \/ UploadAnswered \/ UploadAnswerLost \/ Worker \/ Delete \/ UNCHANGED vars
  \/ \E i \in DOMAIN upload : Uploader(i) \/ UploadRaises(i)
  \/ \E f \in DOMAIN claims : ExpireClaim(f)
LEMMA OthersWrite ==
  ASSUME Others
  PROVE  /\ UNCHANGED <<n, pending, sock, waitOn, fid, acked, netVars, sessionVars, draft,
                        branches>>
         /\ UNCHANGED object \/ \E i \in DOMAIN upload : UploadStore(i)
         /\ UNCHANGED tasks \/ \E i \in DOMAIN upload : UploadSend(i)
         /\ UNCHANGED claims \/ \E f \in DOMAIN claims : DropClaim(f)
         /\ UNCHANGED rec \/ BeginUpload \/ UploadAnswered \/ UploadAnswerLost
         /\ UNCHANGED upload \/ BeginUpload
            \/ \E i \in DOMAIN upload : UploadStore(i) \/ UploadSend(i) \/ UploadRaises(i)
         /\ UNCHANGED audioAt \/ BeginUpload
         /\ UNCHANGED final \/ Worker
         /\ deleted' \in {deleted, TRUE}
         /\ budget' = budget \/ (budget > 0 /\ budget' = budget - 1)
<1> USE DEF vars, clientVars, netVars, sessionVars, decodeVars, storeVars, Spend
<1>1. CASE BeginUpload
  BY <1>1 DEF BeginUpload
<1>2. CASE UploadAnswered \/ UploadAnswerLost \/ Worker \/ Delete \/ UNCHANGED vars
  BY <1>2 DEF UploadAnswered, UploadAnswerLost, Worker, Delete
<1>3. CASE \E i \in DOMAIN upload : Uploader(i) \/ UploadRaises(i)
  BY <1>3 DEF Uploader, UploadStore, UploadSend, UploadRaises
<1>4. CASE \E f \in DOMAIN claims : ExpireClaim(f)
  BY <1>4 DEF ExpireClaim
<1> QED
  BY <1>1, <1>2, <1>3, <1>4 DEF Others

LEMMA Steps ==
  ASSUME [Next]_vars
  PROVE  \/ Client \/ Others \/ Crash
         \/ \E k \in Conns : Handler(k) \/ FinalizeRaises(k) \/ Cut(k) \/ Reconnect(k)
BY DEF Next, Client, Others, Recorder

-----------------------------------------------------------------------------
\* Messages, in their order

LEMMA TakeShape ==
  ASSUME LinkTypes, NEW c \in Conns, NEW type, Take(c, type)
  PROVE  /\ sent[c] # <<>> /\ 1 \in DOMAIN sent[c] /\ sent[c][1] = Head(sent[c])
         /\ sent[c][1] \in Message /\ sent[c][1].type = type /\ srv[c] = "ready"
         /\ Len(sent[c]) \in Nat /\ Len(sent'[c]) = Len(sent[c]) - 1
         /\ \A i \in DOMAIN sent'[c] : i \in Nat /\ i + 1 \in DOMAIN sent[c]
                                       /\ sent'[c][i] = sent[c][i + 1]
         /\ \A k \in Conns \ {c} : sent'[k] = sent[k]
<1>1. sent[c] \in Seq(Message) /\ sent[c] # <<>> /\ sent' = [sent EXCEPT ![c] = Tail(sent[c])]
  BY DEF LinkTypes, Take
<1>2. sent'[c] = Tail(sent[c]) /\ \A k \in Conns \ {c} : sent'[k] = sent[k]
  BY <1>1 DEF LinkTypes
<1>3. Head(sent[c]) \in Message /\ Head(sent[c]).type = type
  BY <1>1, WithoutHead DEF Take
<1>4. /\ Len(sent[c]) \in Nat /\ Len(Tail(sent[c])) = Len(sent[c]) - 1
      /\ 1 \in DOMAIN sent[c] /\ Head(sent[c]) = sent[c][1]
      /\ \A i \in DOMAIN Tail(sent[c]) : i \in Nat /\ i + 1 \in DOMAIN sent[c]
                                         /\ Tail(sent[c])[i] = sent[c][i + 1]
  BY <1>1
<1> QED
  BY <1>1, <1>2, <1>3, <1>4 DEF Take

\* What is left of the messages is a beginning of them; on an open connection, all.
Beginning ==
  \A k \in Conns :
    /\ \A i \in DOMAIN sent'[k] : i \in DOMAIN sent[k] /\ sent'[k][i] = sent[k][i]
    /\ link'[k] = "up" => link[k] = "up" /\ sent'[k] = sent[k]
LEMMA SameBegins == ASSUME UNCHANGED <<sent, link>> PROVE Beginning
BY DEF Beginning

LEMMA HandlerBegins ==
  ASSUME LinkTypes, NEW c \in Conns,
         StoreAudio(c) \/ AddFastRow(c) \/ QueueFinal(c) \/ FinalizeRaises(c) \/ Cut(c)
         \/ SettleFinalize(c) \/ Handoff(c) \/ NoHandoff(c) \/ Disconnected(c)
  PROVE  Beginning
<1>1. CASE UNCHANGED <<sent, link>>
  BY <1>1, SameBegins
<1>2. CASE Cut(c)
  <2>1. PICK i \in 0 .. Len(sent[c]) : sent' = [sent EXCEPT ![c] = SubSeq(sent[c], 1, i)]
    BY <1>2 DEF Cut
  <2>2. sent[c] \in Seq(Message)
    BY DEF LinkTypes
  <2>3. \A j \in DOMAIN SubSeq(sent[c], 1, i) :
          j \in DOMAIN sent[c] /\ SubSeq(sent[c], 1, i)[j] = sent[c][j]
    BY <2>2, Shorter
  <2>4. sent'[c] = SubSeq(sent[c], 1, i) /\ \A k \in Conns \ {c} : sent'[k] = sent[k]
    BY <2>1 DEF LinkTypes
  <2>5. link'[c] = "cut" /\ \A k \in Conns \ {c} : link'[k] = link[k]
    BY <1>2 DEF Cut, LinkTypes
  <2> QED
    BY <2>3, <2>4, <2>5 DEF Beginning
<1>3. CASE Handoff(c) \/ Disconnected(c)
  <2>1. sent'[c] = <<>> /\ \A k \in Conns \ {c} : sent'[k] = sent[k] /\ link'[k] = link[k]
    BY <1>3 DEF Handoff, Disconnected, LinkTypes
  <2>2. link'[c] # "up"
    BY <1>3 DEF Handoff, Disconnected, LinkTypes
  <2> QED
    BY <2>1, <2>2 DEF Beginning
<1> QED
  BY <1>1, <1>2, <1>3
  DEF StoreAudio, AddFastRow, QueueFinal, FinalizeRaises, SettleFinalize, NoHandoff, netVars

LEMMA CrashBegins ==
  ASSUME LinkTypes, Crash
  PROVE  Beginning
<1>1. \A k \in Conns : sent'[k] = <<>> /\ link'[k] # "up"
  BY DEF Crash, LinkTypes
<1> QED
  BY <1>1 DEF Beginning

\* A message sent is the last one, or is lost.
LEMMA SendShape ==
  ASSUME LinkTypes, NEW c \in Conns, NEW m \in Message, Send(c, <<m>>)
  PROVE  /\ link[c] # "up" => sent' = sent
         /\ link[c] = "up" =>
              /\ Len(sent'[c]) = Len(sent[c]) + 1 /\ Len(sent[c]) \in Nat
              /\ DOMAIN sent[c] = 1 .. Len(sent[c]) /\ DOMAIN sent'[c] = 1 .. Len(sent[c]) + 1
              /\ \A i \in DOMAIN sent[c] : sent'[c][i] = sent[c][i]
              /\ sent'[c][Len(sent[c]) + 1] = m
              /\ \A k \in Conns \ {c} : sent'[k] = sent[k]
<1>1. CASE link[c] # "up"
  BY <1>1 DEF Send
<1>2. CASE link[c] = "up"
  <2>1. sent[c] \in Seq(Message) /\ sent' = [sent EXCEPT ![c] = sent[c] \o <<m>>]
    BY <1>2 DEF Send, LinkTypes
  <2>2. sent'[c] = sent[c] \o <<m>> /\ \A k \in Conns \ {c} : sent'[k] = sent[k]
    BY <2>1 DEF LinkTypes
  <2>3. /\ Len(sent[c] \o <<m>>) = Len(sent[c]) + 1 /\ Len(sent[c]) \in Nat
        /\ DOMAIN sent[c] = 1 .. Len(sent[c]) /\ DOMAIN (sent[c] \o <<m>>) = 1 .. Len(sent[c]) + 1
        /\ \A i \in DOMAIN sent[c] : (sent[c] \o <<m>>)[i] = sent[c][i]
        /\ (sent[c] \o <<m>>)[Len(sent[c]) + 1] = m
    BY <2>1
  <2> QED
    BY <1>2, <2>2, <2>3
<1> QED
  BY <1>1, <1>2

\* A new connection is sent what waited.
LEMMA ReconnectShape ==
  ASSUME Types, NEW c \in Conns, Reconnect(c)
  PROVE  /\ DOMAIN sent'[c] = 1 .. Len(pending) /\ Len(sent'[c]) = Len(pending)
         /\ Len(pending) \in Nat /\ DOMAIN pending = 1 .. Len(pending)
         /\ \A i \in DOMAIN pending : sent'[c][i] = Chunk(pending[i])
         /\ \A k \in Conns \ {c} : sent'[k] = sent[k] /\ link'[k] = link[k]
<1>1. pending \in Seq(Nat) /\ sent \in [Conns -> Seq(Message)]
  BY DEF Types, ClientTypes, LinkTypes
<1>2. sent' = [sent EXCEPT ![c] = [i \in 1 .. Len(pending) |-> Chunk(pending[i])]]
  BY DEF Reconnect
<1>3. sent'[c] = [i \in 1 .. Len(pending) |-> Chunk(pending[i])]
      /\ \A k \in Conns \ {c} : sent'[k] = sent[k]
  BY <1>1, <1>2
<1>4. \A k \in Conns \ {c} : link'[k] = link[k]
  BY DEF Reconnect, Types, LinkTypes
<1> QED
  BY <1>1, <1>3, <1>4

-----------------------------------------------------------------------------
\* Reading a chunk, and beginning to finalize

LEMMA ChunkEffect ==
  ASSUME Types, NEW c \in Conns, HandleChunk(c)
  PROVE  /\ sent[c][1].type = "chunk" /\ srv[c] = "ready" /\ 1 \in DOMAIN sent[c]
         /\ UNCHANGED <<clientVars, link, pcm, flushed, object, tasks, upload, final>>
         /\ pcm[c] /\ ~flushed[c] =>
              /\ UNCHANGED raw /\ heard[c] <= heard'[c] /\ heard'[c] <= fed'[c]
              /\ IF sent[c][1].val = fed[c] + 1 THEN fed'[c] = fed[c] + 1 ELSE fed'[c] = fed[c]
         /\ ~(pcm[c] /\ ~flushed[c]) =>
              UNCHANGED <<fed, heard>> /\ raw'[c] = raw[c] \cup {sent[c][1].val}
         /\ \A k \in Conns \ {c} : fed'[k] = fed[k] /\ heard'[k] = heard[k] /\ raw'[k] = raw[k]
         /\ heard'[c] \in Nat /\ fed'[c] \in Nat
         /\ UNCHANGED draft \/ (heard'[c] > 0 /\ draft' = 1 .. heard'[c])
         /\ \/ UNCHANGED <<srv, job>>
            \/ /\ srv' = [srv EXCEPT ![c] = "store"] /\ job' = [job EXCEPT ![c] = NoJob]
               /\ LimitHit(c, heard'[c], raw'[c])
<1> DEFINE m == Head(sent[c])
<1>1. Take(c, "chunk") /\ UNCHANGED <<clientVars, link, pcm, flushed, object, tasks, upload, final>>
  BY DEF HandleChunk
<1>2. /\ sent[c][1].type = "chunk" /\ srv[c] = "ready" /\ 1 \in DOMAIN sent[c]
      /\ sent[c][1] = m
  BY <1>1, TakeShape DEF Types
<1>3. /\ pcm[c] /\ ~flushed[c] =>
           /\ fed' = IF Decodable(c, m.val) THEN [fed EXCEPT ![c] = @ + 1] ELSE fed
           /\ \E p \in heard[c] .. fed'[c] : heard' = [heard EXCEPT ![c] = p]
           /\ UNCHANGED raw
      /\ ~(pcm[c] /\ ~flushed[c]) =>
           raw' = [raw EXCEPT ![c] = @ \cup {m.val}] /\ UNCHANGED <<fed, heard>>
  BY DEF HandleChunk
<1> HIDE DEF m
<1>4. fed \in [Conns -> Nat] /\ heard \in [Conns -> Nat] /\ raw \in [Conns -> SUBSET Nat]
  BY DEF Types, DecodeTypes
<1>5. pcm[c] /\ ~flushed[c] =>
        /\ UNCHANGED raw
        /\ IF m.val = fed[c] + 1 THEN fed'[c] = fed[c] + 1 ELSE fed'[c] = fed[c]
        /\ fed' \in [Conns -> Nat] /\ \A k \in Conns \ {c} : fed'[k] = fed[k]
  BY <1>3, <1>4 DEF Decodable
<1>6. ASSUME pcm[c], ~flushed[c]
      PROVE  /\ heard[c] <= heard'[c] /\ heard'[c] <= fed'[c] /\ heard'[c] \in Nat
             /\ \A k \in Conns \ {c} : heard'[k] = heard[k]
  <2>1. PICK p \in heard[c] .. fed'[c] : heard' = [heard EXCEPT ![c] = p]
    BY <1>3, <1>6
  <2>2. heard'[c] = p /\ \A k \in Conns \ {c} : heard'[k] = heard[k]
    BY <1>4, <2>1
  <2> QED
    BY <1>4, <1>5, <1>6, <2>1, <2>2
<1>7. ~(pcm[c] /\ ~flushed[c]) =>
        /\ UNCHANGED <<fed, heard>> /\ raw'[c] = raw[c] \cup {m.val}
        /\ \A k \in Conns \ {c} : raw'[k] = raw[k]
  BY <1>3, <1>4
<1>8. UNCHANGED draft \/ (heard'[c] > 0 /\ draft' = 1 .. heard'[c])
  BY DEF HandleChunk
<1>9. \/ UNCHANGED <<srv, job>>
      \/ /\ srv' = [srv EXCEPT ![c] = "store"] /\ job' = [job EXCEPT ![c] = NoJob]
         /\ LimitHit(c, heard'[c], raw'[c])
  BY DEF HandleChunk, Goto
<1>10. \A k \in Conns \ {c} : fed'[k] = fed[k] /\ heard'[k] = heard[k] /\ raw'[k] = raw[k]
  BY <1>5, <1>6, <1>7
<1>11. heard'[c] \in Nat /\ fed'[c] \in Nat
  BY <1>4, <1>5, <1>6, <1>7
<1> QED
  BY <1>1, <1>2, <1>5, <1>6, <1>7, <1>8, <1>9, <1>10, <1>11

LEMMA BeginEffect ==
  ASSUME Types, NEW c \in Conns, FinalizeBegin(c)
  PROVE  /\ sent[c][1].type = "finalize" /\ srv[c] = "ready" /\ 1 \in DOMAIN sent[c] /\ Enough(c)
         /\ UNCHANGED <<clientVars, link, pcm, fed, raw, object, draft, tasks, upload, final>>
         /\ heard'[c] \in Nat /\ heard[c] <= heard'[c]
         /\ heard'[c] <= heard[c] \/ heard'[c] <= fed[c]
         /\ pcm[c] /\ ~flushed[c] => fed[c] <= heard'[c] + PipeChunks
         /\ \A k \in Conns \ {c} : heard'[k] = heard[k]
         /\ flushed' = [flushed EXCEPT ![c] = TRUE]
         /\ srv' = [srv EXCEPT ![c] = "store"]
         /\ job' = [job EXCEPT ![c] = [id |-> 1, ok |-> TRUE]]
<1>1. /\ Take(c, "finalize") /\ Enough(c)
      /\ UNCHANGED <<clientVars, link, pcm, fed, raw, object, draft, tasks, upload, final>>
      /\ flushed' = [flushed EXCEPT ![c] = TRUE] /\ srv' = [srv EXCEPT ![c] = "store"]
  BY DEF FinalizeBegin, Goto
<1>2. /\ sent[c][1].type = "finalize" /\ srv[c] = "ready" /\ 1 \in DOMAIN sent[c]
      /\ sent[c][1] = Head(sent[c]) /\ sent[c][1] \in Message
  BY <1>1, TakeShape DEF Types
<1>3. job' = [job EXCEPT ![c] = [id |-> 1, ok |-> TRUE]]
  <2>1. Head(sent[c]).val = 1
    BY <1>2 DEF Message
  <2> QED
    BY <2>1 DEF FinalizeBegin
<1>4. fed \in [Conns -> Nat] /\ heard \in [Conns -> Nat] /\ PipeChunks \in Nat
  BY BoundsAreNat DEF Types, DecodeTypes
<1>5. CASE pcm[c] /\ ~flushed[c]
  <2>1. PICK p \in heard[c] .. fed[c] : p >= Tail0(c) /\ heard' = [heard EXCEPT ![c] = p]
    BY <1>5 DEF FinalizeBegin
  <2>2. heard'[c] = p /\ \A k \in Conns \ {c} : heard'[k] = heard[k]
    BY <1>4, <2>1
  <2>3. p \in Nat /\ heard[c] <= p /\ p <= fed[c] /\ fed[c] <= p + PipeChunks
    BY <1>4, <2>1 DEF Tail0
  <2> QED
    BY <1>1, <1>2, <1>3, <2>2, <2>3
<1>6. CASE ~(pcm[c] /\ ~flushed[c])
  <2>1. UNCHANGED heard
    BY <1>6 DEF FinalizeBegin
  <2> QED
    BY <1>1, <1>2, <1>3, <1>4, <1>6, <2>1
<1> QED
  BY <1>5, <1>6

-----------------------------------------------------------------------------
\* Only what was recorded

LEMMA ChunkBoundsKept ==
  ASSUME Types, Nets, ChunkBounds, [Next]_vars
  PROVE  ChunkBounds'
<1>1. CASE Record
  <2>1. n \in Nat /\ n' = n + 1 /\ n' \in 0 .. MaxChunks
    BY <1>1, BoundsAreNat DEF Record, ChunkBounds
  <2>2. Recorded \subseteq Recorded' /\ n + 1 \in Recorded'
    BY <2>1 DEF Recorded
  <2>3. CASE sock = 0
    <3>1. pending' = Append(pending, n + 1) /\ UNCHANGED sent
      BY <1>1, <2>3 DEF Record
    <3>2. \A i \in DOMAIN pending' : pending'[i] \in Recorded'
      BY <2>1, <2>2, <3>1 DEF Types, ClientTypes, ChunkBounds
    <3> QED
      BY <2>1, <2>2, <3>1, <3>2 DEF ChunkBounds
  <2>4. CASE sock # 0
    <3>1. Send(sock, <<Chunk(n + 1)>>) /\ UNCHANGED pending
      BY <1>1, <2>4 DEF Record
    <3>2. sock \in Conns /\ Chunk(n + 1) \in Message /\ Chunk(n + 1).val = n + 1
      BY <2>1, <2>4, BoundsAreNat DEF Types, ClientTypes, Conns, Chunk, Message
    <3>3. LinkTypes
      BY DEF Types
    <3>4. CASE link[sock] # "up"
      BY <2>1, <2>2, <3>1, <3>2, <3>3, <3>4, SendShape DEF ChunkBounds
    <3>5. CASE link[sock] = "up"
      <4>1. \A k \in Conns : \A i \in DOMAIN sent'[k] :
              \/ sent'[k][i] = Chunk(n + 1)
              \/ i \in DOMAIN sent[k] /\ sent'[k][i] = sent[k][i]
        BY <3>1, <3>2, <3>3, <3>5, SendShape
      <4> QED
        BY <2>1, <2>2, <3>1, <3>2, <4>1 DEF ChunkBounds
    <3> QED
      BY <3>4, <3>5
  <2> QED
    BY <2>3, <2>4
<1>2. ASSUME UNCHANGED n, pending' = pending \/ pending' = <<>>,
             \A k \in Conns : \A i \in DOMAIN sent'[k] :
               \/ sent'[k][i].type # "chunk"
               \/ \E j \in DOMAIN sent[k] : sent'[k][i] = sent[k][j]
      PROVE  ChunkBounds'
  BY <1>2 DEF ChunkBounds, Recorded
<1>3. CASE SendFinalize \/ RepeatFinalize
  <2>1. UNCHANGED n /\ (pending' = pending \/ pending' = <<>>)
    BY <1>3 DEF SendFinalize, RepeatFinalize, CloseAnd
  <2>2. CASE UNCHANGED sent
    BY <1>2, <2>1, <2>2
  <2>3. ASSUME NEW f \in {1}, sock # 0, Send(sock, <<Finalize(f)>>) PROVE ChunkBounds'
    <3>1. /\ sock \in Conns /\ Finalize(f) \in Message /\ Finalize(f).type = "finalize"
          /\ LinkTypes
      BY <2>3, BoundsAreNat DEF Types, ClientTypes, Conns, Finalize, Message
    <3>2. CASE link[sock] # "up"
      BY <1>2, <2>1, <2>3, <3>1, <3>2, SendShape
    <3>3. CASE link[sock] = "up"
      <4>1. \A k \in Conns : \A i \in DOMAIN sent'[k] :
              \/ sent'[k][i] = Finalize(f)
              \/ i \in DOMAIN sent[k] /\ sent'[k][i] = sent[k][i]
        BY <2>3, <3>1, <3>3, SendShape
      <4> QED
        BY <1>2, <2>1, <3>1, <4>1
    <3> QED
      BY <3>2, <3>3
  <2>4. (rec = "stopped" => fid + 1 = 1) /\ (rec = "waiting" => fid = 1)
    BY DEF Nets, Phases
  <2>5. CASE SendFinalize
    BY <2>2, <2>3, <2>4, <2>5 DEF SendFinalize
  <2>6. CASE RepeatFinalize
    BY <2>3, <2>4, <2>6 DEF RepeatFinalize
  <2> QED
    BY <1>3, <2>5, <2>6
<1>4. CASE Stop \/ NoticeClose \/ ReceiveReply \/ FinalizeTimeout \/ Others
  <2>1. UNCHANGED <<n, sent>> /\ (pending' = pending \/ pending' = <<>>)
    BY <1>4, OthersWrite
    DEF Stop, NoticeClose, ReceiveReply, FinalizeTimeout, CloseAnd, netVars
  <2> QED
    BY <1>2, <2>1
<1>5. CASE Crash
  <2>1. UNCHANGED <<n, pending>>
    BY <1>5 DEF Crash, clientVars
  <2> QED
    BY <1>2, <1>5, <2>1, CrashBegins DEF Beginning, Types
<1>6. ASSUME NEW c \in Conns, Handler(c) \/ FinalizeRaises(c) \/ Cut(c) PROVE ChunkBounds'
  <2>1. UNCHANGED <<n, pending>>
    BY <1>6, HandlerWrites DEF clientVars
  <2>2. ASSUME NEW type, Take(c, type) PROVE ChunkBounds'
    BY <1>2, <2>1, <2>2, TakeShape DEF Types
  <2>3. ASSUME Beginning PROVE ChunkBounds'
    BY <1>2, <2>1, <2>3 DEF Beginning
  <2> QED
    BY <1>6, <2>2, <2>3, HandlerBegins
    DEF Types, Handler, HandleChunk, FinalizeTooShort, FinalizeDuplicate, FinalizeBegin
<1>7. ASSUME NEW c \in Conns, Reconnect(c) PROVE ChunkBounds'
  <2>1. UNCHANGED n /\ pending' = <<>>
    BY <1>7 DEF Reconnect
  <2>2. \A k \in Conns : \A i \in DOMAIN sent'[k] :
          \/ i \in DOMAIN sent[k] /\ sent'[k][i] = sent[k][i]
          \/ i \in DOMAIN pending /\ sent'[k][i] = Chunk(pending[i])
    BY <1>7, ReconnectShape
  <2>3. \A i \in DOMAIN pending : Chunk(pending[i]).val \in Recorded
    BY DEF ChunkBounds, Chunk
  <2>4. \A k \in Conns : \A i \in DOMAIN sent'[k] :
          sent'[k][i].type = "chunk" => sent'[k][i].val \in Recorded
    BY <2>2, <2>3 DEF ChunkBounds
  <2> QED
    BY <2>1, <2>4 DEF ChunkBounds, Recorded
<1> QED
  BY <1>1, <1>3, <1>4, <1>5, <1>6, <1>7, Steps DEF Client

LEMMA DecodeBoundsKept ==
  ASSUME Types, InBounds, [Next]_vars
  PROVE  DecodeBounds'
<1> USE DEF InBounds
<1>1. n \in Nat /\ \A k \in Conns : fed[k] \in Nat /\ heard[k] \in Nat
  BY DEF Types, ClientTypes, DecodeTypes
<1>2. ASSUME n' \in Nat, n <= n', UNCHANGED <<fed, heard, raw>> PROVE DecodeBounds'
  <2>1. Recorded \subseteq Recorded'
    BY <1>1, <1>2 DEF Recorded
  <2> QED
    BY <1>1, <1>2, <2>1 DEF DecodeBounds
<1>3. CASE Client
  <2>1. Record \/ UNCHANGED n
    BY <1>3, ClientWrites
  <2>2. n' \in Nat /\ n <= n'
    BY <1>1, <2>1 DEF Record
  <2>3. UNCHANGED <<fed, heard, raw>>
    BY <1>3, ClientWrites DEF sessionVars, decodeVars
  <2> QED
    BY <1>2, <2>2, <2>3
<1>4. CASE Others
  BY <1>1, <1>2, <1>4, OthersWrite DEF sessionVars, decodeVars
<1>5. CASE Crash
  BY <1>1, <1>2, <1>5 DEF Crash, clientVars, decodeVars
<1>6. ASSUME NEW c \in Conns, Reconnect(c) PROVE DecodeBounds'
  BY <1>1, <1>2, <1>6 DEF Reconnect, decodeVars
<1>7. ASSUME NEW c \in Conns, HandleChunk(c) PROVE DecodeBounds'
  <2>1. UNCHANGED n /\ sent[c][1].val \in Recorded
    BY <1>7, ChunkEffect DEF clientVars, ChunkBounds
  <2>2. CASE pcm[c] /\ ~flushed[c]
    <3>1. sent[c][1].val <= n /\ sent[c][1].val \in Nat
      BY <1>1, <2>1 DEF Recorded
    <3>2. heard'[c] <= fed'[c] /\ fed'[c] <= n /\ UNCHANGED raw
      BY <1>1, <1>7, <2>2, <3>1, ChunkEffect DEF DecodeBounds
    <3>3. \A k \in Conns \ {c} : fed'[k] = fed[k] /\ heard'[k] = heard[k]
      BY <1>7, ChunkEffect
    <3> QED
      BY <2>1, <3>2, <3>3 DEF DecodeBounds, Recorded
  <2>3. CASE ~(pcm[c] /\ ~flushed[c])
    <3>1. /\ UNCHANGED <<fed, heard>> /\ raw'[c] = raw[c] \cup {sent[c][1].val}
          /\ \A k \in Conns \ {c} : raw'[k] = raw[k]
      BY <1>7, <2>3, ChunkEffect
    <3> QED
      BY <2>1, <3>1 DEF DecodeBounds, Recorded
  <2> QED
    BY <2>2, <2>3
<1>8. ASSUME NEW c \in Conns, FinalizeBegin(c) PROVE DecodeBounds'
  <2>1. /\ UNCHANGED <<n, fed, raw>> /\ heard'[c] \in Nat
        /\ heard'[c] <= heard[c] \/ heard'[c] <= fed[c]
        /\ \A k \in Conns \ {c} : heard'[k] = heard[k]
    BY <1>8, BeginEffect DEF clientVars
  <2>2. heard'[c] <= fed[c]
    BY <1>1, <2>1 DEF DecodeBounds
  <2> QED
    BY <2>1, <2>2 DEF DecodeBounds, Recorded
<1>9. ASSUME NEW c \in Conns, Handler(c) \/ FinalizeRaises(c) \/ Cut(c) PROVE DecodeBounds'
  <2>1. UNCHANGED n /\ (UNCHANGED <<fed, heard, raw>> \/ HandleChunk(c) \/ FinalizeBegin(c))
    BY <1>9, HandlerWrites DEF clientVars
  <2>2. CASE UNCHANGED <<fed, heard, raw>>
    BY <1>1, <1>2, <2>1, <2>2
  <2> QED
    BY <1>7, <1>8, <2>1, <2>2
<1> QED
  BY <1>3, <1>4, <1>5, <1>6, <1>9, Steps

\* What finalize stores was recorded.
LEMMA AudioRecorded ==
  ASSUME Types, DecodeBounds, NEW k \in Conns
  PROVE  AudioOf(k) \subseteq Recorded /\ ExtOf(k) \in Exts
<1>1. n \in Nat /\ heard[k] \in Nat /\ fed[k] \in Nat /\ heard[k] <= n
  BY DEF Types, ClientTypes, DecodeTypes, DecodeBounds
<1> QED
  BY <1>1 DEF AudioOf, ExtOf, Exts, DecodeBounds, Recorded

LEMMA KeptBoundsKept ==
  ASSUME Types, InBounds, [Next]_vars
  PROVE  KeptBounds'
<1> USE DEF InBounds
<1>1. n \in Nat
  BY DEF Types, ClientTypes
<1>2. ASSUME n' \in Nat, n <= n', UNCHANGED object \/ object' \in [Exts -> SUBSET Recorded],
             UNCHANGED draft \/ draft' \subseteq Recorded
      PROVE  KeptBounds'
  <2>1. Recorded \subseteq Recorded'
    BY <1>1, <1>2 DEF Recorded
  <2> QED
    BY <1>2, <2>1 DEF KeptBounds
<1>3. ASSUME NEW ext \in Exts, NEW S \in SUBSET Recorded, object' = [object EXCEPT ![ext] = S]
      PROVE  object' \in [Exts -> SUBSET Recorded]
  BY <1>3 DEF KeptBounds
<1>4. CASE Client
  <2>1. Record \/ UNCHANGED n
    BY <1>4, ClientWrites
  <2>2. n' \in Nat /\ n <= n'
    BY <1>1, <2>1 DEF Record
  <2>3. UNCHANGED <<object, draft>>
    BY <1>4, ClientWrites DEF storeVars
  <2> QED
    BY <1>2, <2>2, <2>3
<1>5. CASE Others
  <2>1. UNCHANGED <<n, draft>> /\ (UNCHANGED object \/ \E i \in DOMAIN upload : UploadStore(i))
    BY <1>5, OthersWrite
  <2>2. ASSUME NEW i \in DOMAIN upload, UploadStore(i)
        PROVE  object' \in [Exts -> SUBSET Recorded]
    <3>1. "webm" \in Exts /\ 1 .. n \in SUBSET Recorded
      BY DEF Exts, Recorded
    <3> QED
      BY <1>3, <2>2, <3>1 DEF UploadStore
  <2> QED
    BY <1>1, <1>2, <2>1, <2>2
<1>6. CASE Crash
  BY <1>1, <1>2, <1>6 DEF Crash, clientVars, storeVars
<1>7. ASSUME NEW c \in Conns, Reconnect(c) PROVE KeptBounds'
  BY <1>1, <1>2, <1>7 DEF Reconnect, storeVars
<1>8. ASSUME NEW c \in Conns, Handler(c) \/ FinalizeRaises(c) \/ Cut(c) PROVE KeptBounds'
  <2>1. UNCHANGED n /\ (UNCHANGED object \/ StoreAudio(c))
        /\ (UNCHANGED draft \/ HandleChunk(c) \/ AddFastRow(c))
    BY <1>8, HandlerWrites DEF clientVars
  <2>2. ASSUME StoreAudio(c) PROVE object' \in [Exts -> SUBSET Recorded]
    BY <1>3, <2>2, AudioRecorded DEF StoreAudio
  <2>3. ASSUME AddFastRow(c) PROVE draft' \subseteq Recorded
    BY <2>3, AudioRecorded DEF AddFastRow
  <2>4. ASSUME HandleChunk(c) PROVE draft' \subseteq Recorded
    <3>1. DecodeBounds' /\ UNCHANGED n
      BY <2>1, DecodeBoundsKept
    <3>2. heard'[c] <= n /\ heard'[c] \in Nat
      <4>1. heard'[c] <= fed'[c] /\ fed'[c] <= n'
        BY <3>1 DEF DecodeBounds
      <4>2. heard'[c] \in Nat /\ fed'[c] \in Nat
        BY <2>4, ChunkEffect
      <4> QED
        BY <1>1, <3>1, <4>1, <4>2
    <3>3. UNCHANGED draft \/ draft' = 1 .. heard'[c]
      BY <2>4, ChunkEffect
    <3>4. CASE UNCHANGED draft
      BY <3>4 DEF KeptBounds
    <3>5. CASE draft' = 1 .. heard'[c]
      BY <1>1, <3>2, <3>5 DEF Recorded
    <3> QED
      BY <3>3, <3>4, <3>5
  <2> QED
    BY <1>1, <1>2, <2>1, <2>2, <2>3, <2>4
<1> QED
  BY <1>4, <1>5, <1>6, <1>7, <1>8, Steps

-----------------------------------------------------------------------------
\* The other types, and the uploads

LEMMA SwitchesKept ==
  ASSUME Types, SwitchTypes, [Next]_vars
  PROVE  SwitchTypes'
<1>1. CASE Client
  BY <1>1, ClientWrites DEF SwitchTypes, sessionVars, decodeVars
<1>2. CASE Others
  BY <1>2, OthersWrite DEF SwitchTypes, sessionVars, decodeVars
<1>3. CASE Crash
  BY <1>3 DEF Crash, SwitchTypes, decodeVars
<1>4. ASSUME NEW c \in Conns, Reconnect(c) PROVE SwitchTypes'
  BY <1>4 DEF Reconnect, SwitchTypes, decodeVars
<1>5. ASSUME NEW c \in Conns, Handler(c) \/ FinalizeRaises(c) \/ Cut(c) PROVE SwitchTypes'
  <2>1. UNCHANGED pcm
    BY <1>5, HandlerWrites
  <2>2. flushed' \in [Conns -> BOOLEAN]
    <3>1. CASE UNCHANGED flushed
      BY <3>1 DEF SwitchTypes
    <3>2. CASE HandleChunk(c)
      BY <3>2, ChunkEffect DEF SwitchTypes
    <3>3. CASE FinalizeBegin(c)
      BY <3>3, BeginEffect DEF SwitchTypes
    <3> QED
      BY <1>5, <3>1, <3>2, <3>3, HandlerWrites
  <2>3. handoff' \in [Conns -> BOOLEAN]
    <3>1. UNCHANGED handoff \/ handoff' = [handoff EXCEPT ![c] = TRUE]
          \/ handoff' = [handoff EXCEPT ![c] = job[c].ok]
      BY <1>5, HandlerWrites DEF HandleChunk, NoHandoff
    <3>2. job[c].ok \in BOOLEAN
      BY DEF Types, HandlerTypes
    <3> QED
      BY <3>1, <3>2 DEF SwitchTypes
  <2> QED
    BY <2>1, <2>2, <2>3 DEF SwitchTypes
<1> QED
  BY <1>1, <1>2, <1>3, <1>4, <1>5, Steps

LEMMA RowsKept ==
  ASSUME Types, Nets, RowTypes, [Next]_vars
  PROVE  RowTypes'
<1>1. \A f \in DOMAIN claims : claims[f] \in {"pending", "done"}
  BY DEF RowTypes
<1>2. ASSUME NEW f, NEW v \in {"pending", "done"}, SetClaim(f, v)
      PROVE  \A g \in DOMAIN claims' : claims'[g] \in {"pending", "done"}
  BY <1>1, <1>2 DEF SetClaim
<1>3. ASSUME NEW f, DropClaim(f)
      PROVE  \A g \in DOMAIN claims' : claims'[g] \in {"pending", "done"}
  BY <1>1, <1>3 DEF DropClaim
<1>4. ASSUME budget' = budget \/ (budget > 0 /\ budget' = budget - 1)
      PROVE  budget' \in 0 .. MaxEvents
  BY <1>4, BoundsAreNat DEF RowTypes
<1>5. CASE Client
  BY <1>4, <1>5, ClientWrites DEF RowTypes, storeVars
<1>6. CASE Others
  <2>1. \A g \in DOMAIN claims' : claims'[g] \in {"pending", "done"}
    BY <1>1, <1>3, <1>6, OthersWrite
  <2>2. final' \in {"none", "running", "failed", "success"}
    BY <1>6, OthersWrite DEF RowTypes, Worker
  <2>3. audioAt' \in BOOLEAN
    <3>1. UNCHANGED audioAt \/ audioAt' = (audioAt \/ ~deleted)
      BY <1>6, OthersWrite DEF BeginUpload
    <3> QED
      BY <3>1 DEF RowTypes
  <2>4. deleted' \in BOOLEAN /\ branches' \in Nat
    BY <1>6, OthersWrite DEF RowTypes
  <2>5. budget' \in 0 .. MaxEvents
    BY <1>4, <1>6, OthersWrite
  <2> QED
    BY <2>1, <2>2, <2>3, <2>4, <2>5 DEF RowTypes
<1>7. CASE Crash
  BY <1>4, <1>7 DEF Crash, Spend, RowTypes, storeVars
<1>8. ASSUME NEW c \in Conns, Reconnect(c) PROVE RowTypes'
  BY <1>8 DEF Reconnect, RowTypes, storeVars
<1>9. ASSUME NEW c \in Conns, Handler(c) \/ FinalizeRaises(c) \/ Cut(c) PROVE RowTypes'
  <2>1. \A g \in DOMAIN claims' : claims'[g] \in {"pending", "done"}
    <3>1. UNCHANGED claims \/ (\E f : SetClaim(f, "pending")) \/ (\E f : SetClaim(f, "done"))
          \/ (\E f : DropClaim(f))
      BY <1>9, HandlerWrites DEF FinalizeBegin, SettleFinalize, Settle
    <3> QED
      BY <1>1, <1>2, <1>3, <3>1
  <2>2. UNCHANGED <<final, deleted>> /\ (UNCHANGED branches \/ branches' = branches + 1)
        /\ audioAt' \in {audioAt, TRUE}
    BY <1>9, HandlerWrites
  <2>3. audioAt' \in BOOLEAN /\ branches' \in Nat
    <3>1. audioAt' \in BOOLEAN
      BY <2>2, Zenon DEF RowTypes
    <3>2. branches' \in Nat
      BY <2>2 DEF RowTypes
    <3> QED
      BY <3>1, <3>2
  <2>4. budget' \in 0 .. MaxEvents
    BY <1>4, <1>9, HandlerWrites
  <2> QED
    BY <2>1, <2>2, <2>3, <2>4 DEF RowTypes
<1> QED
  BY <1>5, <1>6, <1>7, <1>8, <1>9, Steps

\* What an attempt to upload becomes.
LEMMA UploadStep ==
  ASSUME UploadTypes, NEW i \in DOMAIN upload, NEW l \in {"store", "send", "done", "error"},
         UploadTo(i, l)
  PROVE  /\ UploadTypes' /\ upload' # <<>> /\ upload # <<>> /\ upload'[i] = l
         /\ DOMAIN upload' = DOMAIN upload
         /\ \A j \in DOMAIN upload \ {i} : upload'[j] = upload[j]
BY DEF UploadTypes, UploadTo

LEMMA UploadsKept ==
  ASSUME Types, Nets, UploadTypes, Uploads, [Next]_vars
  PROVE  UploadTypes' /\ Uploads'
<1>1. tasks \in Seq(Task) /\ \A t \in Task : Append(tasks, t) # <<>>
  BY DEF Types, StoreTypes
<1>2. ASSUME UNCHANGED <<rec, upload, final>>, UNCHANGED tasks \/ tasks' # <<>>
      PROVE  UploadTypes' /\ Uploads'
  BY <1>2 DEF UploadTypes, Uploads
<1>3. CASE Client
  <2>1. UNCHANGED <<upload, final, tasks>>
        /\ (rec' = rec \/ (rec' \notin {"recording", "uploading"}
                           /\ rec \notin {"uploading", "idle", "failed"}))
    BY <1>3, ClientWrites DEF storeVars
  <2> QED
    BY <2>1 DEF UploadTypes, Uploads
<1>4. CASE BeginUpload
  <2>1. PICK l \in {"error", "done", "store"} :
          upload' = Append(upload, l) /\ (l = "done" => FinalExists)
    BY <1>4 DEF BeginUpload
  <2>2. /\ Append(upload, l) \in Seq({"store", "send", "done", "error"})
        /\ Append(upload, l) # <<>>
        /\ \A i \in DOMAIN Append(upload, l) :
             Append(upload, l)[i] = l \/ (i \in DOMAIN upload /\ Append(upload, l)[i] = upload[i])
    BY DEF UploadTypes
  <2>3. rec' = "uploading" /\ UNCHANGED <<final, tasks>>
    BY <1>4 DEF BeginUpload
  <2> QED
    BY <2>1, <2>2, <2>3 DEF UploadTypes, Uploads, FinalExists
<1>5. CASE UploadAnswered \/ UploadAnswerLost
  <2>1. UNCHANGED <<upload, final, tasks>> /\ rec' \in {"idle", "failed"}
    BY <1>5 DEF UploadAnswered, UploadAnswerLost, storeVars
  <2> QED
    BY <2>1 DEF UploadTypes, Uploads
<1>6. CASE Worker
  <2>1. UNCHANGED <<rec, upload, tasks>> /\ tasks # <<>>
    BY <1>6 DEF Worker, clientVars, Uploads
  <2> QED
    BY <2>1 DEF UploadTypes, Uploads
<1>7. CASE Delete \/ UNCHANGED vars \/ \E f \in DOMAIN claims : ExpireClaim(f)
  BY <1>2, <1>7 DEF Delete, ExpireClaim, vars, clientVars, storeVars
<1>8. ASSUME NEW i \in DOMAIN upload, Uploader(i) \/ UploadRaises(i)
      PROVE  UploadTypes' /\ Uploads'
  <2>1. PICK l \in {"store", "send", "done", "error"} :
          /\ UploadTo(i, l) /\ UNCHANGED <<rec, final>>
          /\ UNCHANGED tasks \/ tasks' # <<>>
          /\ l = "done" => tasks' # <<>>
    <3>1. [id |-> 0, ext |-> "webm"] \in Task
      BY DEF Task, Exts
    <3> QED
      BY <1>1, <1>8, <3>1
      DEF Uploader, UploadStore, UploadSend, UploadRaises, clientVars, storeVars
  <2>2. /\ UploadTypes' /\ upload' # <<>> /\ upload # <<>> /\ upload'[i] = l
        /\ DOMAIN upload' = DOMAIN upload
        /\ \A j \in DOMAIN upload \ {i} : upload'[j] = upload[j]
    BY <2>1, UploadStep
  <2> QED
    BY <2>1, <2>2 DEF Uploads
<1>9. CASE Crash
  <2>1. /\ DOMAIN upload' = DOMAIN upload /\ UNCHANGED <<rec, final, tasks>>
        /\ \A i \in DOMAIN upload : upload'[i] \in {"error", upload[i]}
    BY <1>9 DEF Crash, clientVars, storeVars
  <2>2. UploadTypes' /\ (upload' = <<>> <=> upload = <<>>)
    <3>1. upload' = [i \in DOMAIN upload |-> IF upload[i] \in {"store", "send"}
                                             THEN "error" ELSE upload[i]]
      BY <1>9 DEF Crash
    <3> QED
      BY <3>1 DEF UploadTypes
  <2> QED
    BY <2>1, <2>2 DEF Uploads
<1>10. ASSUME NEW c \in Conns, Reconnect(c) PROVE UploadTypes' /\ Uploads'
  BY <1>2, <1>10 DEF Reconnect, storeVars
<1>11. ASSUME NEW c \in Conns, Handler(c) \/ FinalizeRaises(c) \/ Cut(c)
       PROVE  UploadTypes' /\ Uploads'
  <2>1. UNCHANGED <<rec, upload, final>> /\ (UNCHANGED tasks \/ QueueFinal(c))
    BY <1>11, HandlerWrites DEF clientVars
  <2>2. ASSUME QueueFinal(c) PROVE tasks' # <<>>
    <3>1. [id |-> job[c].id, ext |-> ExtOf(c)] \in Task
      BY DEF Types, HandlerTypes, Task, ExtOf, Exts
    <3> QED
      BY <1>1, <2>2, <3>1 DEF QueueFinal
  <2> QED
    BY <1>2, <2>1, <2>2
<1> QED
  BY <1>3, <1>4, <1>5, <1>6, <1>7, <1>8, <1>9, <1>10, <1>11, Steps DEF Others

-----------------------------------------------------------------------------
\* Type correctness

LEMMA BoundsInitially == Init => BoundsInv
<1> SUFFICES ASSUME Init PROVE BoundsInv
  OBVIOUS
<1>1. Types /\ Nets
  BY Initially DEF IInv
<1>2. ChunkBounds
  BY BoundsAreNat DEF Init, ChunkBounds
<1>3. DecodeBounds /\ KeptBounds
  BY DEF Init, DecodeBounds, KeptBounds
<1>4. SwitchTypes /\ UploadTypes
  BY DEF Init, SwitchTypes, UploadTypes
<1>5. RowTypes
  <2>1. DOMAIN claims = {} /\ budget = MaxEvents /\ MaxEvents \in Nat
    BY BoundsAreNat DEF Init
  <2>2. budget \in 0 .. MaxEvents
    BY <2>1
  <2>3. final = "none" /\ audioAt = FALSE /\ deleted = FALSE /\ branches = 0
    BY DEF Init
  <2> QED
    BY <2>1, <2>2, <2>3 DEF RowTypes
<1>6. Uploads
  BY DEF Init, Uploads
<1> QED
  BY <1>1, <1>2, <1>3, <1>4, <1>5, <1>6 DEF BoundsInv, InBounds, Rest

LEMMA BoundsStep == BoundsInv /\ [Next]_vars => BoundsInv'
<1> SUFFICES ASSUME BoundsInv, [Next]_vars PROVE BoundsInv'
  OBVIOUS
<1>1. Types /\ Nets /\ InBounds /\ Rest /\ Uploads
  BY DEF BoundsInv
<1>2. Types' /\ Nets'
  BY <1>1, StepKept
<1>3. InBounds'
  BY <1>1, ChunkBoundsKept, DecodeBoundsKept, KeptBoundsKept DEF InBounds
<1>4. Rest' /\ Uploads'
  BY <1>1, SwitchesKept, RowsKept, UploadsKept DEF Rest
<1> QED
  BY <1>2, <1>3, <1>4 DEF BoundsInv

\* Every variable has its type, and no chunk is sent, decoded or stored that was not
\* recorded, whether Redis works or not.
THEOREM TypeCorrect == Spec => []TypeOK
<1>1. ASSUME BoundsInv PROVE TypeOK
  <2>1. Types /\ InBounds /\ Rest /\ n \in Nat /\ MaxChunks \in Nat /\ n <= MaxChunks
    BY <1>1, BoundsAreNat DEF BoundsInv, InBounds, ChunkBounds
  <2>2. Recorded \subseteq 1 .. MaxChunks
    BY <2>1 DEF Recorded
  <2>3. /\ rec \in {"recording", "stopped", "waiting", "upload", "uploading", "failed", "idle"}
        /\ n \in 0 .. MaxChunks /\ {sock, waitOn} \subseteq 0 .. MaxConns
        /\ fid \in Ids /\ acked \subseteq Ids
    BY <2>1 DEF Types, ClientTypes, Phase, InBounds, ChunkBounds, Ids
  <2>4. pending \in Seq(1 .. MaxChunks)
    <3>1. pending \in Seq(Nat) /\ \A i \in DOMAIN pending : pending[i] \in 1 .. MaxChunks
      BY <2>1, <2>2 DEF Types, ClientTypes, InBounds, ChunkBounds
    <3>2. Len(pending) \in Nat /\ pending \in [1 .. Len(pending) -> 1 .. MaxChunks]
      BY <3>1
    <3> DEFINE S == 1 .. MaxChunks
    <3>3. pending \in [1 .. Len(pending) -> S]
      BY <3>2
    <3> HIDE DEF S
    <3>4. pending \in Seq(S)
      BY <3>2, <3>3
    <3> QED
      BY <3>4 DEF S
  <2>5. /\ link \in [Conns -> {"none", "up", "cut", "closed"}]
        /\ \A k \in Conns : \A i \in DOMAIN sent[k] : sent[k][i].type \in {"chunk", "finalize"}
    <3>1. \A k \in Conns : sent[k] \in Seq(Message)
      BY <2>1 DEF Types, LinkTypes
    <3>2. \A k \in Conns : \A i \in DOMAIN sent[k] : sent[k][i] \in Message
      BY <3>1
    <3> QED
      BY <2>1, <3>2 DEF Types, LinkTypes, Message
  <2>6. replies \in [Conns -> SUBSET [id : Ids, status : {"accepted", "duplicate", "error"}]]
    <3>1. Answer \subseteq [id : Ids, status : {"accepted", "duplicate", "error"}]
      BY DEF Answer, Ids
    <3> QED
      BY <2>1, <3>1 DEF Types, LinkTypes
  <2>7. /\ srv \in [Conns -> {"none", "ready", "store", "row", "send", "settle", "gone"}]
        /\ job \in [Conns -> [id : Ids, ok : BOOLEAN]]
    <3>1. [id : {0, 1}, ok : BOOLEAN] = [id : Ids, ok : BOOLEAN]
      BY DEF Ids
    <3> QED
      BY <2>1, <3>1 DEF Types, HandlerTypes, Place
  <2>8. /\ fed \in [Conns -> Nat] /\ heard \in [Conns -> Nat]
        /\ raw \in [Conns -> SUBSET (1 .. MaxChunks)]
    BY <2>1, <2>2 DEF Types, DecodeTypes, InBounds, DecodeBounds
  <2>9. object \in [Exts -> SUBSET (1 .. MaxChunks)] /\ draft \subseteq 1 .. MaxChunks
    BY <2>1, <2>2 DEF InBounds, KeptBounds
  <2>10. DOMAIN claims \subseteq Ids /\ tasks \in Seq([id : Ids, ext : Exts])
    <3>1. Task = [id : Ids, ext : Exts] /\ {1} \subseteq Ids
      BY DEF Task, Ids
    <3> QED
      BY <2>1, <3>1 DEF Types, StoreTypes
  <2>11. /\ pcm \in [Conns -> Pipelines] /\ flushed \in [Conns -> BOOLEAN]
         /\ handoff \in [Conns -> BOOLEAN] /\ upload \in Seq({"store", "send", "done", "error"})
    BY <2>1 DEF Rest, SwitchTypes, UploadTypes
  <2>12. /\ \A f \in DOMAIN claims : claims[f] \in {"pending", "done"}
         /\ final \in {"none", "running", "failed", "success"}
         /\ {audioAt, deleted} \subseteq BOOLEAN /\ branches \in Nat /\ budget \in 0 .. MaxEvents
    BY <2>1 DEF Rest, RowTypes
  <2> QED
    BY <2>3, <2>4, <2>5, <2>6, <2>7, <2>8, <2>9, <2>10, <2>11, <2>12 DEF TypeOK
<1> QED
  BY <1>1, BoundsInitially, BoundsStep, PTL DEF Spec

-----------------------------------------------------------------------------
\* The header of the stream

\* A connection that was opened remains one, and decodes as it did.
LEMMA PcmBefore ==
  ASSUME Types, AllPcm', [Next]_vars
  PROVE  AllPcm
<1>1. ASSUME UNCHANGED <<pcm, link>> PROVE AllPcm
  BY <1>1 DEF AllPcm
<1>2. ASSUME UNCHANGED pcm, \A k \in Conns : link'[k] = "none" => link[k] = "none" PROVE AllPcm
  BY <1>2 DEF AllPcm
<1>3. CASE Client
  <2>1. link' = link \/ link' = [link EXCEPT ![sock] = "closed"]
    BY <1>3 DEF Client, Record, Stop, NoticeClose, SendFinalize, ReceiveReply, FinalizeTimeout,
       RepeatFinalize, CloseAnd, netVars
  <2>2. UNCHANGED pcm
    BY <1>3, ClientWrites DEF sessionVars, decodeVars
  <2> QED
    BY <1>2, <2>1, <2>2 DEF Types, LinkTypes
<1>4. CASE Others
  BY <1>1, <1>4, OthersWrite DEF netVars, sessionVars, decodeVars
<1>5. CASE Crash
  <2>1. UNCHANGED pcm /\ \A k \in Conns : link'[k] = IF link[k] = "up" THEN "cut" ELSE link[k]
    BY <1>5 DEF Crash, decodeVars
  <2> QED
    BY <1>2, <2>1
<1>6. ASSUME NEW c \in Conns, Reconnect(c) PROVE AllPcm
  <2>1. UNCHANGED pcm /\ link' = [link EXCEPT ![c] = "up"] /\ link[c] = "none"
    BY <1>6 DEF Reconnect, decodeVars
  <2>2. link'[c] = "up" /\ \A k \in Conns \ {c} : link'[k] = link[k]
    BY <2>1 DEF Types, LinkTypes
  <2> QED
    BY <2>1, <2>2 DEF AllPcm
<1>7. ASSUME NEW c \in Conns, Handler(c) \/ FinalizeRaises(c) \/ Cut(c) PROVE AllPcm
  <2>1. UNCHANGED pcm
    BY <1>7, HandlerWrites
  <2>2. UNCHANGED link \/ link' = [link EXCEPT ![c] = "cut"]
        \/ link' = [link EXCEPT ![c] = IF @ = "up" THEN "cut" ELSE @]
    BY <1>7 DEF Handler, HandleChunk, FinalizeTooShort, FinalizeDuplicate, FinalizeBegin,
       StoreAudio, AddFastRow, QueueFinal, FinalizeRaises, SettleFinalize, Handoff, NoHandoff,
       Disconnected, Cut, netVars
  <2> QED
    BY <1>2, <2>1, <2>2 DEF Types, LinkTypes
<1> QED
  BY <1>3, <1>4, <1>5, <1>6, <1>7, Steps

\* A step that sends nothing, or closes the connection.
LEMMA HeaderFrame ==
  ASSUME Header, Beginning, UNCHANGED <<n, fed>>, pending' = pending \/ pending' = <<>>,
         (sock' = sock /\ fid' = fid) \/ sock' = 0
  PROVE  Header'
<1>1. Lines'
  <2> SUFFICES ASSUME NEW k \in Conns PROVE InOrder(k)' \/ NoHeader(k)'
    BY DEF Lines
  <2>1. \A i \in DOMAIN sent'[k] : i \in DOMAIN sent[k] /\ sent'[k][i] = sent[k][i]
    BY DEF Beginning
  <2>2. CASE InOrder(k)
    BY <2>1, <2>2 DEF InOrder
  <2>3. CASE NoHeader(k)
    BY <2>1, <2>3 DEF NoHeader
  <2> QED
    BY <2>2, <2>3 DEF Header, Lines
<1>2. Current'
  <2> SUFFICES ASSUME NEW k \in Conns, k = sock', link'[k] = "up"
               PROVE  NoHeader(k)' \/ (n' <= fed'[k] + Len(sent'[k])
                                       /\ (fid' = 0 => n' = fed'[k] + Len(sent'[k])))
    BY DEF Current
  <2>1. sock' = sock /\ fid' = fid /\ link[k] = "up" /\ sent'[k] = sent[k]
    BY BoundsAreNat DEF Beginning, Conns
  <2> QED
    BY <2>1 DEF Header, Current, NoHeader
<1>3. Waiting'
  BY DEF Header, Waiting
<1>4. OneHead'
  <2>1. \A k \in Conns : Heads(k)' => Heads(k)
    BY DEF Heads, Beginning
  <2> QED
    BY <2>1 DEF Header, OneHead
<1> QED
  BY <1>1, <1>2, <1>3, <1>4 DEF Header

\* A chunk that is recorded follows the last one, on the connection or in what waits.
LEMMA HeaderRecord ==
  ASSUME Types, Nets, Header, Record
  PROVE  Header'
<1>1. /\ n \in Nat /\ n' = n + 1 /\ UNCHANGED <<sock, fid, link, fed>> /\ fid = 0
      /\ \A k \in Conns : fed[k] \in Nat /\ sent[k] \in Seq(Message)
  BY DEF Record, sessionVars, decodeVars, Types, ClientTypes, DecodeTypes, LinkTypes, Nets, Phases
<1>2. \A k \in Conns : \A i \in DOMAIN sent[k] : sent[k][i].type = "chunk"
  <2>1. \A k \in Conns : ~Has(k, "finalize")
    BY <1>1 DEF Nets, Phases, Finalizes
  <2>2. \A k \in Conns : \A i \in DOMAIN sent[k] : sent[k][i] \in Message
    BY <1>1
  <2> QED
    BY <2>1, <2>2 DEF Has, Message
<1>3. ASSUME NEW k \in Conns, sent'[k] = sent[k]
      PROVE  (InOrder(k)' \/ NoHeader(k)') /\ (Heads(k)' <=> Heads(k))
  <2>1. CASE InOrder(k)
    BY <1>1, <1>2, <1>3, <2>1 DEF InOrder, Heads
  <2>2. CASE NoHeader(k)
    BY <1>1, <1>3, <2>2 DEF NoHeader, Heads
  <2> QED
    BY <2>1, <2>2 DEF Header, Lines
<1>4. CASE sock = 0 \/ link[sock] # "up"
  <2>1. UNCHANGED sent
    BY <1>4 DEF Record, Send
  <2>2. Lines' /\ \A k \in Conns : Heads(k)' <=> Heads(k)
    BY <1>3, <2>1 DEF Lines
  <2>3. Current'
    <3>1. \A k \in Conns : ~(k = sock' /\ link'[k] = "up")
      BY <1>1, <1>4, BoundsAreNat DEF Conns
    <3> QED
      BY <3>1 DEF Current
  <2>4. CASE sock = 0
    <3>1. pending \in Seq(Nat) /\ pending' = Append(pending, n + 1)
      BY <2>4 DEF Record, Types, ClientTypes
    <3>2. /\ Len(pending) \in Nat /\ Len(pending') = Len(pending) + 1
          /\ pending'[Len(pending) + 1] = n + 1
          /\ \A i \in DOMAIN pending' : i \in Nat /\ (i = Len(pending) + 1
               \/ (i \in DOMAIN pending /\ pending'[i] = pending[i]))
      BY <1>1, <3>1
    <3>3. Waiting'
      BY <1>1, <3>2 DEF Header, Waiting
    <3>4. OneHead'
      <4>1. (\E i \in DOMAIN pending' : pending'[i] = 1)
              => n = 0 \/ \E i \in DOMAIN pending : pending[i] = 1
        BY <1>1, <3>2
      <4> QED
        BY <1>1, <2>2, <4>1 DEF Header, OneHead
    <3> QED
      BY <2>2, <2>3, <3>3, <3>4 DEF Header
  <2>5. CASE sock # 0
    <3>1. pending' = <<>> /\ pending = <<>>
      BY <2>5 DEF Record, Nets, Phases
    <3>2. Waiting'
      BY <3>1 DEF Waiting
    <3>3. OneHead'
      BY <1>1, <2>2, <3>1 DEF Header, OneHead
    <3> QED
      BY <2>2, <2>3, <3>2, <3>3 DEF Header
  <2> QED
    BY <2>4, <2>5
<1>5. CASE sock # 0 /\ link[sock] = "up"
  <2>1. sock \in Conns /\ Send(sock, <<Chunk(n + 1)>>) /\ pending' = <<>>
    BY <1>5, BoundsAreNat DEF Record, Types, ClientTypes, Conns, Nets, Phases
  <2>2. Chunk(n + 1) \in Message /\ LinkTypes /\ Chunk(n + 1).type = "chunk"
        /\ Chunk(n + 1).val = n + 1
    BY <1>1 DEF Chunk, Message, Types
  <2>3. /\ Len(sent'[sock]) = Len(sent[sock]) + 1 /\ Len(sent[sock]) \in Nat
        /\ DOMAIN sent[sock] = 1 .. Len(sent[sock])
        /\ DOMAIN sent'[sock] = 1 .. Len(sent[sock]) + 1
        /\ \A i \in DOMAIN sent[sock] : sent'[sock][i] = sent[sock][i]
        /\ sent'[sock][Len(sent[sock]) + 1] = Chunk(n + 1)
        /\ \A k \in Conns \ {sock} : sent'[k] = sent[k]
    BY <1>5, <2>1, <2>2, SendShape
  <2>4. \A i \in DOMAIN sent'[sock] : i \in Nat /\ (i = Len(sent[sock]) + 1
          \/ (i \in DOMAIN sent[sock] /\ sent'[sock][i] = sent[sock][i]))
    BY <2>3
  <2>5. CASE NoHeader(sock)
    <3>1. Chunk(n + 1) # Chunk(1)
      BY <1>1, <2>5 DEF Chunk, NoHeader
    <3>2. NoHeader(sock)'
      BY <1>1, <2>3, <2>4, <2>5, <3>1 DEF NoHeader
    <3>3. Lines'
      <4>1. ASSUME NEW k \in Conns, k # sock PROVE InOrder(k)' \/ NoHeader(k)'
        BY <1>3, <2>3, <4>1
      <4> QED
        BY <1>1, <3>2, <4>1 DEF Lines
    <3>4. Current'
      BY <1>1, <3>2 DEF Current
    <3>5. Waiting'
      BY <2>1 DEF Waiting
    <3>6. OneHead'
      <4>1. \A k \in Conns \ {sock} : Heads(k)' <=> Heads(k)
        BY <1>3, <2>3
      <4>2. Heads(sock)' => Heads(sock)
        BY <1>1, <2>3, <2>4, <3>1 DEF Heads
      <4>3. n' # 0 /\ ~\E i \in DOMAIN pending' : pending'[i] = 1
        BY <1>1, <2>1
      <4> QED
        BY <1>1, <2>1, <4>1, <4>2, <4>3 DEF Header, OneHead
    <3> QED
      BY <3>3, <3>4, <3>5, <3>6 DEF Header
  <2>6. CASE ~NoHeader(sock)
    <3>1. InOrder(sock) /\ n = fed[sock] + Len(sent[sock])
      BY <1>1, <1>5, <2>1, <2>6 DEF Header, Lines, Current
    <3>2. InOrder(sock)'
      <4> SUFFICES ASSUME NEW i \in DOMAIN sent'[sock]
                   PROVE  sent'[sock][i].type = "chunk" /\ sent'[sock][i].val = fed[sock] + i
        BY <1>1 DEF InOrder
      <4>1. CASE i = Len(sent[sock]) + 1
        <5>1. sent'[sock][i] = Chunk(n + 1)
          BY <2>3, <4>1
        <5>2. fed[sock] \in Nat /\ Len(sent[sock]) \in Nat /\ n = fed[sock] + Len(sent[sock])
          BY <1>1, <2>1, <2>3, <3>1
        <5>3. n + 1 = fed[sock] + i
          BY <4>1, <5>2
        <5> QED
          BY <2>2, <5>1, <5>3
      <4>2. CASE i \in DOMAIN sent[sock] /\ sent'[sock][i] = sent[sock][i]
        <5>1. sent[sock][i].type = "chunk"
          BY <1>2, <2>1, <4>2
        <5> QED
          BY <3>1, <4>2, <5>1 DEF InOrder
      <4> QED
        BY <2>4, <4>1, <4>2
    <3>3. Lines'
      <4>1. ASSUME NEW k \in Conns, k # sock PROVE InOrder(k)' \/ NoHeader(k)'
        BY <1>3, <2>3, <4>1
      <4> QED
        BY <1>1, <3>2, <4>1 DEF Lines
    <3>4. Current'
      <4>1. n' = fed'[sock] + Len(sent'[sock]) /\ n' <= fed'[sock] + Len(sent'[sock])
        BY <1>1, <2>1, <2>3, <3>1
      <4> QED
        BY <1>1, <4>1 DEF Current
    <3>5. Waiting'
      BY <2>1 DEF Waiting
    <3>6. OneHead'
      <4>1. \A k \in Conns \ {sock} : Heads(k)' <=> Heads(k)
        BY <1>3, <2>3
      <4>2. Heads(sock)' => Heads(sock) \/ n = 0
        BY <1>1, <2>1, <2>2, <2>3, <2>4 DEF Heads, Chunk
      <4> QED
        BY <1>1, <2>1, <4>1, <4>2 DEF Header, OneHead
    <3> QED
      BY <3>3, <3>4, <3>5, <3>6 DEF Header
  <2> QED
    BY <2>5, <2>6
<1> QED
  BY <1>4, <1>5

\* The finalize, or one more, comes after all chunks.
LEMMA HeaderFinalize ==
  ASSUME Types, Nets, Header, sock \in Conns, Send(sock, <<Finalize(1)>>), fid' = 1,
         UNCHANGED <<n, pending, sock, link, fed>>
  PROVE  Header'
<1>1. n \in Nat /\ \A k \in Conns : fed[k] \in Nat
  BY DEF Types, ClientTypes, DecodeTypes
<1>2. CASE link[sock] # "up"
  <2>1. UNCHANGED sent
    BY <1>2 DEF Send
  <2>2. Lines' /\ Waiting' /\ OneHead'
    BY <2>1 DEF Header, Lines, InOrder, NoHeader, Waiting, OneHead, Heads
  <2>3. Current'
    BY <1>2 DEF Current
  <2> QED
    BY <2>2, <2>3 DEF Header
<1>3. CASE link[sock] = "up"
  <2>1. Finalize(1) \in Message /\ LinkTypes /\ Finalize(1).type = "finalize"
        /\ Finalize(1) # Chunk(1)
    BY DEF Finalize, Chunk, Message, Types
  <2>2. /\ Len(sent'[sock]) = Len(sent[sock]) + 1 /\ Len(sent[sock]) \in Nat
        /\ DOMAIN sent[sock] = 1 .. Len(sent[sock])
        /\ DOMAIN sent'[sock] = 1 .. Len(sent[sock]) + 1
        /\ \A i \in DOMAIN sent[sock] : sent'[sock][i] = sent[sock][i]
        /\ sent'[sock][Len(sent[sock]) + 1] = Finalize(1)
        /\ \A k \in Conns \ {sock} : sent'[k] = sent[k]
    BY <1>3, <2>1, SendShape
  <2>3. \A i \in DOMAIN sent'[sock] : i \in Nat /\ (i = Len(sent[sock]) + 1
          \/ (i \in DOMAIN sent[sock] /\ sent'[sock][i] = sent[sock][i]))
    BY <2>2
  <2>4. ASSUME NEW k \in Conns, k # sock
        PROVE  (InOrder(k)' \/ NoHeader(k)') /\ (Heads(k)' <=> Heads(k))
    BY <2>2, <2>4 DEF Header, Lines, InOrder, NoHeader, Heads
  <2>5. NoHeader(sock) => NoHeader(sock)'
    BY <2>1, <2>2, <2>3 DEF NoHeader
  <2>6. ASSUME ~NoHeader(sock)
        PROVE  InOrder(sock)' /\ n' <= fed'[sock] + Len(sent'[sock])
    <3>1. InOrder(sock) /\ n <= fed[sock] + Len(sent[sock])
      BY <1>3, <2>6 DEF Header, Lines, Current
    <3>2. n' <= fed'[sock] + Len(sent'[sock])
      BY <1>1, <2>2, <3>1
    <3>3. ASSUME NEW i \in DOMAIN sent'[sock]
          PROVE  IF sent'[sock][i].type = "chunk" THEN sent'[sock][i].val = fed[sock] + i
                                                  ELSE n <= fed[sock] + i - 1
      <4>1. CASE i = Len(sent[sock]) + 1
        BY <1>1, <2>1, <2>2, <3>1, <4>1
      <4>2. CASE i \in DOMAIN sent[sock] /\ sent'[sock][i] = sent[sock][i]
        BY <3>1, <4>2 DEF InOrder
      <4> QED
        BY <2>3, <4>1, <4>2
    <3> QED
      BY <3>2, <3>3 DEF InOrder
  <2>7. Lines' /\ Current'
    BY <2>4, <2>5, <2>6 DEF Lines, Current
  <2>8. Waiting'
    BY DEF Header, Waiting
  <2>9. OneHead'
    <3>1. Heads(sock)' => Heads(sock)
      BY <2>1, <2>2, <2>3 DEF Heads
    <3> QED
      BY <2>4, <3>1 DEF Header, OneHead
  <2> QED
    BY <2>7, <2>8, <2>9 DEF Header
<1> QED
  BY <1>2, <1>3

\* A new connection gets the header if all that was recorded waits.
LEMMA HeaderReconnect ==
  ASSUME Types, Nets, Header, ChunkBounds, NEW c \in Conns, Reconnect(c)
  PROVE  Header'
<1>1. /\ DOMAIN sent'[c] = 1 .. Len(pending) /\ Len(sent'[c]) = Len(pending)
      /\ Len(pending) \in Nat /\ DOMAIN pending = 1 .. Len(pending)
      /\ \A i \in DOMAIN pending : sent'[c][i] = Chunk(pending[i])
      /\ \A k \in Conns \ {c} : sent'[k] = sent[k] /\ link'[k] = link[k]
  BY ReconnectShape
<1>2. /\ n \in Nat /\ UNCHANGED <<rec, n, fid, fed>> /\ pending' = <<>> /\ sock' = c
      /\ fed[c] = 0
  <2>1. link[c] = "none" /\ ~Bears(c)
    BY DEF Reconnect, Nets, Turns
  <2> QED
    BY <2>1 DEF Reconnect, decodeVars, Types, ClientTypes, DecodeTypes, Bears
<1>3. \A i \in DOMAIN sent'[c] : /\ i \in DOMAIN pending /\ i \in Nat
                                 /\ sent'[c][i].type = "chunk" /\ sent'[c][i].val = pending[i]
                                 /\ pending[i] = n - Len(pending) + i
                                 /\ pending[i] \in Nat /\ 1 <= pending[i] /\ pending[i] <= n
  <2> SUFFICES ASSUME NEW i \in DOMAIN sent'[c]
               PROVE  /\ i \in DOMAIN pending /\ i \in Nat
                      /\ sent'[c][i].type = "chunk" /\ sent'[c][i].val = pending[i]
                      /\ pending[i] = n - Len(pending) + i
                      /\ pending[i] \in Nat /\ 1 <= pending[i] /\ pending[i] <= n
    OBVIOUS
  <2>1. i \in DOMAIN pending /\ i \in Nat
    BY <1>1
  <2>2. sent'[c][i].type = "chunk" /\ sent'[c][i].val = pending[i]
    <3>1. sent'[c][i] = Chunk(pending[i])
      BY <1>1, <2>1
    <3> QED
      BY <3>1 DEF Chunk
  <2>3. pending[i] = n - Len(pending) + i
    BY <2>1 DEF Header, Waiting
  <2>4. pending[i] \in 1 .. n
    BY <2>1 DEF ChunkBounds, Recorded
  <2> QED
    BY <1>2, <2>1, <2>2, <2>3, <2>4
<1>4. Len(pending) <= n
  <2>1. CASE Len(pending) = 0
    BY <1>2, <2>1
  <2>2. CASE Len(pending) # 0
    <3>1. 1 \in DOMAIN pending /\ 1 \in DOMAIN sent'[c]
      BY <1>1, <2>2
    <3> QED
      BY <1>1, <1>2, <1>3, <3>1
  <2> QED
    BY <2>1, <2>2
<1>5. \A k \in Conns \ {c} : (InOrder(k)' \/ NoHeader(k)') /\ (Heads(k)' <=> Heads(k))
  BY <1>1, <1>2 DEF Header, Lines, InOrder, NoHeader, Heads
<1>6. n = Len(pending) => InOrder(c)'
  BY <1>1, <1>2, <1>3 DEF InOrder
<1>7. n # Len(pending) => NoHeader(c)'
  <2> DEFINE l == Len(pending)
  <2>0. n \in Nat /\ l \in Nat /\ l <= n
    BY <1>1, <1>2, <1>4
  <2>1. ASSUME n # Len(pending), NEW i \in DOMAIN sent'[c] PROVE sent'[c][i] # Chunk(1)
    <3>1. i \in 1 .. Len(pending)
      BY <1>1
    <3>2. pending[i] = n - Len(pending) + i /\ sent'[c][i].val = pending[i]
      BY <1>3
    <3>3. sent'[c][i].val # 1
      <4>1. l # n /\ i \in 1 .. l /\ sent'[c][i].val = n - l + i
        BY <2>1, <3>1, <3>2
      <4> HIDE DEF l
      <4> QED
        BY <2>0, <4>1
    <3> QED
      BY <3>3 DEF Chunk
  <2>2. n # l => n > 0
    <3> HIDE DEF l
    <3> QED
      BY <2>0
  <2> QED
    BY <1>2, <2>1, <2>2 DEF NoHeader
<1>8. Lines' /\ Current'
  <2>1. InOrder(c)' \/ NoHeader(c)'
    BY <1>6, <1>7
  <2>2. Lines'
    BY <1>5, <2>1 DEF Lines
  <2>3. n = Len(pending) => n' = fed'[c] + Len(sent'[c]) /\ n' <= fed'[c] + Len(sent'[c])
    BY <1>1, <1>2
  <2>4. Current'
    BY <1>2, <1>7, <2>3 DEF Current
  <2> QED
    BY <2>2, <2>4
<1>9. Waiting'
  BY <1>2 DEF Waiting
<1>10. OneHead'
  <2>1. Heads(c)' => \E i \in DOMAIN pending : pending[i] = 1
    BY <1>2, <1>3 DEF Heads, Chunk
  <2>2. (\E i \in DOMAIN pending : pending[i] = 1) => \A k \in Conns : ~Heads(k)
    BY DEF Header, OneHead
  <2>3. n = 0 => \A k \in Conns : ~Heads(k)'
    <3>1. n = 0 => \A k \in Conns : ~Heads(k)
      BY DEF Header, OneHead
    <3>2. n = 0 => ~Heads(c)'
      BY <1>1, <1>2, <1>3, <1>4 DEF Heads
    <3> QED
      BY <1>5, <3>1, <3>2
  <2> QED
    BY <1>2, <1>5, <2>1, <2>2, <2>3 DEF Header, OneHead
<1> QED
  BY <1>8, <1>9, <1>10 DEF Header

\* An open connection is heard by its handler, which decodes until the finalize.
LEMMA ChunkDecoded ==
  ASSUME Types, Nets, InBounds, AllPcm, Header, Decoded, NEW c \in Conns, HandleChunk(c)
  PROVE  /\ UNCHANGED raw /\ heard[c] <= heard'[c] /\ heard'[c] <= fed'[c] /\ fed[c] <= fed'[c]
         /\ InOrder(c) \/ NoHeader(c)
         /\ InOrder(c) => fed'[c] = fed[c] + 1 /\ sent[c][1].val = fed[c] + 1
         /\ NoHeader(c) => fed'[c] = 0
         /\ pcm[c] /\ ~flushed[c]
<1>1. /\ sent[c][1].type = "chunk" /\ srv[c] = "ready" /\ 1 \in DOMAIN sent[c]
      /\ fed[c] \in Nat /\ n \in Nat
  BY ChunkEffect DEF Types, DecodeTypes, ClientTypes
<1>2. pcm[c]
  BY <1>1 DEF AllPcm, Nets, Turns
<1>3. sent[c][1].val \in Nat /\ 1 <= sent[c][1].val /\ sent[c][1].val <= n
  BY <1>1 DEF InBounds, ChunkBounds, Recorded
<1>4. InOrder(c) \/ NoHeader(c)
  BY DEF Header, Lines
<1>5. InOrder(c) => sent[c][1].val = fed[c] + 1
  BY <1>1 DEF InOrder
<1>6. ~flushed[c]
  <2>1. flushed[c] => n <= fed[c]
    BY DEF Decoded
  <2>2. NoHeader(c) => n > fed[c]
    BY <1>1 DEF NoHeader
  <2> QED
    BY <1>1, <1>3, <1>4, <1>5, <2>1, <2>2
<1>7. /\ UNCHANGED raw /\ heard[c] <= heard'[c] /\ heard'[c] <= fed'[c]
      /\ IF sent[c][1].val = fed[c] + 1 THEN fed'[c] = fed[c] + 1 ELSE fed'[c] = fed[c]
  BY <1>2, <1>6, ChunkEffect
<1>8. NoHeader(c) => fed[c] = 0 /\ sent[c][1].val # 1
  <2>1. sent[c][1] \in Message
    BY TakeShape DEF Types, HandleChunk
  <2>2. sent[c][1] = Chunk(sent[c][1].val)
    BY <1>1, <2>1 DEF Message, Chunk
  <2> QED
    BY <1>1, <2>2 DEF NoHeader
<1>9. fed[c] <= fed'[c]
  BY <1>1, <1>7
<1> QED
  BY <1>2, <1>4, <1>5, <1>6, <1>7, <1>8, <1>9

LEMMA HeaderChunk ==
  ASSUME Types, Nets, InBounds, AllPcm, Header, Decoded, NEW c \in Conns, HandleChunk(c)
  PROVE  Header'
<1>1. /\ InOrder(c) \/ NoHeader(c)
      /\ InOrder(c) => fed'[c] = fed[c] + 1 /\ sent[c][1].val = fed[c] + 1
      /\ NoHeader(c) => fed'[c] = 0
  BY ChunkDecoded
<1>2. /\ UNCHANGED <<n, pending, sock, fid, link>> /\ sent[c][1].type = "chunk"
      /\ 1 \in DOMAIN sent[c] /\ \A k \in Conns \ {c} : fed'[k] = fed[k]
  BY ChunkEffect DEF clientVars
<1>3. /\ Len(sent[c]) \in Nat /\ Len(sent'[c]) = Len(sent[c]) - 1
      /\ \A i \in DOMAIN sent'[c] : i \in Nat /\ i + 1 \in DOMAIN sent[c]
                                    /\ sent'[c][i] = sent[c][i + 1]
      /\ \A k \in Conns \ {c} : sent'[k] = sent[k]
      /\ sent[c][1] \in Message
  BY TakeShape DEF Types, HandleChunk
<1>4. n \in Nat /\ fed[c] \in Nat
  BY DEF Types, ClientTypes, DecodeTypes
<1>5. \A k \in Conns \ {c} : (InOrder(k)' \/ NoHeader(k)') /\ (Heads(k)' <=> Heads(k))
  BY <1>2, <1>3 DEF Header, Lines, InOrder, NoHeader, Heads
<1>6. ASSUME InOrder(c) PROVE InOrder(c)'
  <2> SUFFICES ASSUME NEW i \in DOMAIN sent'[c]
               PROVE  IF sent'[c][i].type = "chunk" THEN sent'[c][i].val = fed'[c] + i
                                                    ELSE n <= fed'[c] + i - 1
    BY <1>2 DEF InOrder
  <2>1. i \in Nat /\ sent'[c][i] = sent[c][i + 1] /\ i + 1 \in DOMAIN sent[c]
    BY <1>3
  <2>2. IF sent[c][i + 1].type = "chunk" THEN sent[c][i + 1].val = fed[c] + (i + 1)
                                         ELSE n <= fed[c] + (i + 1) - 1
    BY <1>6, <2>1 DEF InOrder
  <2>3. fed'[c] = fed[c] + 1
    BY <1>1, <1>6
  <2>4. fed[c] + (i + 1) = fed'[c] + i /\ fed[c] + (i + 1) - 1 = fed'[c] + i - 1
    BY <1>4, <2>1, <2>3
  <2> QED
    BY <2>1, <2>2, <2>4
<1>7. ASSUME NoHeader(c) PROVE NoHeader(c)'
  BY <1>1, <1>2, <1>3, <1>7 DEF NoHeader
<1>8. Lines'
  BY <1>1, <1>5, <1>6, <1>7 DEF Lines
<1>9. Current'
  <2> SUFFICES ASSUME NEW k \in Conns, k = sock, link[k] = "up", ~NoHeader(k)'
               PROVE  n <= fed'[k] + Len(sent'[k]) /\ (fid = 0 => n = fed'[k] + Len(sent'[k]))
    BY <1>2 DEF Current
  <2>1. CASE k = c
    <3>1. ~NoHeader(c) /\ InOrder(c)
      BY <1>1, <1>7, <2>1
    <3>2. n <= fed[c] + Len(sent[c]) /\ (fid = 0 => n = fed[c] + Len(sent[c]))
      BY <2>1, <3>1 DEF Header, Current
    <3>3. fed'[c] + Len(sent'[c]) = fed[c] + Len(sent[c])
      <4>1. fed'[c] = fed[c] + 1
        BY <1>1, <3>1
      <4>2. Len(sent[c]) \in Nat /\ Len(sent'[c]) = Len(sent[c]) - 1
        BY <1>3
      <4> QED
        BY <1>4, <4>1, <4>2
    <3> QED
      BY <2>1, <3>2, <3>3
  <2>2. CASE k # c
    <3>1. fed'[k] = fed[k] /\ sent'[k] = sent[k] /\ ~NoHeader(k)
      BY <1>2, <1>3, <2>2 DEF NoHeader
    <3> QED
      BY <3>1 DEF Header, Current
  <2> QED
    BY <2>1, <2>2
<1>10. Waiting'
  BY <1>2 DEF Header, Waiting
<1>11. OneHead'
  <2>1. ASSUME Heads(c)' PROVE Heads(c)
    <3>1. CASE \E i \in DOMAIN sent'[c] : sent'[c][i] = Chunk(1)
      BY <1>3, <3>1 DEF Heads
    <3>2. CASE fed'[c] > 0
      <4>1. InOrder(c) /\ sent[c][1].val = fed[c] + 1
        BY <1>1, <3>2
      <4>2. sent[c][1] = Chunk(fed[c] + 1)
        BY <1>2, <1>3, <4>1 DEF Message, Chunk
      <4>3. CASE fed[c] = 0
        BY <1>2, <4>2, <4>3 DEF Heads
      <4>4. CASE fed[c] # 0
        BY <1>4, <4>4 DEF Heads
      <4> QED
        BY <4>3, <4>4
    <3> QED
      BY <2>1, <3>1, <3>2 DEF Heads
  <2> QED
    BY <1>2, <1>5, <2>1 DEF Header, OneHead
<1> QED
  BY <1>8, <1>9, <1>10, <1>11 DEF Header

\* When a finalize is read, the decoder has had all chunks, or none.
LEMMA FinalizeRead ==
  ASSUME Types, Nets, Header, NEW c \in Conns, Take(c, "finalize")
  PROVE  NoHeader(c) \/ (InOrder(c) /\ n <= fed[c])
<1>1. 1 \in DOMAIN sent[c] /\ sent[c][1].type = "finalize"
  BY TakeShape DEF Types
<1>2. InOrder(c) => n <= fed[c] + 1 - 1
  BY <1>1 DEF InOrder
<1>3. n \in Nat /\ fed[c] \in Nat
  BY DEF Types, ClientTypes, DecodeTypes
<1> QED
  BY <1>2, <1>3 DEF Header, Lines

LEMMA HeaderRead ==
  ASSUME Types, Nets, InBounds, Header, NEW c \in Conns, Take(c, "finalize"),
         UNCHANGED <<n, pending, sock, fid, link, fed>>
  PROVE  Header'
<1>1. NoHeader(c) \/ (InOrder(c) /\ n <= fed[c])
  BY FinalizeRead
<1>2. /\ Len(sent[c]) \in Nat /\ Len(sent'[c]) = Len(sent[c]) - 1
      /\ \A i \in DOMAIN sent'[c] : i \in Nat /\ i + 1 \in DOMAIN sent[c]
                                    /\ sent'[c][i] = sent[c][i + 1]
      /\ \A k \in Conns \ {c} : sent'[k] = sent[k]
      /\ 1 \in DOMAIN sent[c] /\ sent[c][1].type = "finalize"
  BY TakeShape DEF Types
<1>3. n \in Nat /\ fed[c] \in Nat /\ sent[c] \in Seq(Message) /\ fid # 0
  BY <1>2 DEF Types, ClientTypes, DecodeTypes, LinkTypes, Nets, Phases, Finalizes, Has
<1>4. \A k \in Conns \ {c} : (InOrder(k)' \/ NoHeader(k)') /\ (Heads(k)' <=> Heads(k))
  BY <1>2 DEF Header, Lines, InOrder, NoHeader, Heads
<1>5. ASSUME InOrder(c), n <= fed[c] PROVE InOrder(c)'
  <2> SUFFICES ASSUME NEW i \in DOMAIN sent'[c]
               PROVE  IF sent'[c][i].type = "chunk" THEN sent'[c][i].val = fed[c] + i
                                                    ELSE n <= fed[c] + i - 1
    BY DEF InOrder
  <2>1. i \in Nat /\ sent'[c][i] = sent[c][i + 1] /\ i + 1 \in DOMAIN sent[c]
    BY <1>2
  <2>2. i >= 1
    <3>1. i + 1 \in DOMAIN sent[c] /\ i # 0
      <4>1. \A j \in DOMAIN sent'[c] : j # 0
        <5>1. sent'[c] = Tail(sent[c]) /\ sent[c] # <<>>
          BY DEF Take, Types, LinkTypes
        <5> QED
          BY <1>3, <5>1
      <4> QED
        BY <2>1, <4>1
    <3> QED
      BY <2>1, <3>1
  <2>3. sent[c][i + 1].type # "chunk"
    <3>1. ASSUME sent[c][i + 1].type = "chunk" PROVE FALSE
      <4>1. sent[c][i + 1].val = fed[c] + (i + 1)
        BY <1>5, <2>1, <3>1 DEF InOrder
      <4>2. sent[c][i + 1].val \in 1 .. n
        BY <2>1, <3>1 DEF InBounds, ChunkBounds, Recorded
      <4> QED
        BY <1>3, <1>5, <2>1, <4>1, <4>2
    <3> QED
      BY <3>1
  <2>4. n <= fed[c] + i - 1
    BY <1>3, <1>5, <2>1, <2>2
  <2> QED
    BY <2>1, <2>3, <2>4
<1>6. NoHeader(c) => NoHeader(c)'
  BY <1>2 DEF NoHeader
<1>7. Lines'
  BY <1>1, <1>4, <1>5, <1>6 DEF Lines
<1>8. Current'
  <2>1. ASSUME n <= fed[c] PROVE n <= fed[c] + Len(sent'[c])
    <3>1. Len(sent'[c]) \in Nat
      <4>1. sent'[c] = Tail(sent[c]) /\ sent[c] # <<>>
        BY DEF Take, Types, LinkTypes
      <4> QED
        BY <1>3, <4>1
    <3> QED
      BY <1>3, <2>1, <3>1
  <2>2. \A k \in Conns \ {c} : sent'[k] = sent[k] /\ (NoHeader(k)' <=> NoHeader(k))
    BY <1>2 DEF NoHeader
  <2> QED
    BY <1>1, <1>3, <1>6, <2>1, <2>2 DEF Header, Current
<1>9. Waiting'
  BY DEF Header, Waiting
<1>10. OneHead'
  <2>1. Heads(c)' => Heads(c)
    BY <1>2 DEF Heads
  <2> QED
    BY <1>4, <2>1 DEF Header, OneHead
<1> QED
  BY <1>7, <1>8, <1>9, <1>10 DEF Header

LEMMA HeaderStep ==
  ASSUME Types, Nets, InBounds, AllPcm, Header, Decoded, [Next]_vars
  PROVE  Header'
<1>1. CASE Record
  BY <1>1, HeaderRecord
<1>2. CASE SendFinalize \/ RepeatFinalize
  <2>1. UNCHANGED <<n, fed>> /\ (rec = "stopped" => fid = 0) /\ (rec = "waiting" => fid = 1)
    BY <1>2, ClientWrites DEF Client, Record, SendFinalize, RepeatFinalize, sessionVars,
       decodeVars, Nets, Phases
  <2>2. ASSUME sock \in Conns, Send(sock, <<Finalize(1)>>), fid' = 1,
               UNCHANGED <<pending, sock, link>>
        PROVE  Header'
    BY <2>1, <2>2, HeaderFinalize
  <2>3. sock # 0 => sock \in Conns
    BY BoundsAreNat DEF Types, ClientTypes, Conns
  <2>4. CASE SendFinalize /\ sock # 0
    <3>1. Send(sock, <<Finalize(fid + 1)>>) /\ fid' = fid + 1 /\ fid = 0
          /\ UNCHANGED <<pending, sock, link>>
      BY <2>1, <2>4 DEF SendFinalize
    <3> QED
      BY <2>2, <2>3, <2>4, <3>1
  <2>5. CASE RepeatFinalize
    <3>1. Send(sock, <<Finalize(fid)>>) /\ fid' = fid /\ fid = 1 /\ sock # 0
          /\ UNCHANGED <<pending, sock, link>>
      BY <2>1, <2>5 DEF RepeatFinalize
    <3> QED
      BY <2>2, <2>3, <3>1
  <2>6. CASE SendFinalize /\ sock = 0
    <3>1. pending' = <<>> /\ sock' = 0 /\ UNCHANGED <<sent, link>>
      BY <2>6 DEF SendFinalize, CloseAnd
    <3> QED
      BY <2>1, <3>1, SameBegins, HeaderFrame
  <2> QED
    BY <1>2, <2>4, <2>5, <2>6
<1>3. CASE Stop \/ NoticeClose \/ Others
  <2>1. UNCHANGED <<n, pending, fid, fed, sent, link>> /\ (sock' = sock \/ sock' = 0)
    BY <1>3, OthersWrite DEF Stop, NoticeClose, netVars, sessionVars, decodeVars
  <2> QED
    BY <2>1, SameBegins, HeaderFrame
<1>4. CASE ReceiveReply \/ FinalizeTimeout
  <2>1. /\ UNCHANGED <<n, fed, sent>> /\ pending' = <<>> /\ sock' = 0
        /\ link' = IF sock # 0 /\ link[sock] = "up" THEN [link EXCEPT ![sock] = "closed"] ELSE link
    BY <1>4 DEF ReceiveReply, FinalizeTimeout, CloseAnd, sessionVars, decodeVars
  <2>2. \A k \in Conns : link'[k] = "up" => link[k] = "up"
    BY <2>1 DEF Types, LinkTypes
  <2>3. Beginning
    BY <2>1, <2>2 DEF Beginning
  <2> QED
    BY <2>1, <2>3, HeaderFrame
<1>5. CASE Crash
  <2>1. UNCHANGED <<n, pending, sock, fid, fed>>
    BY <1>5 DEF Crash, clientVars, decodeVars
  <2> QED
    BY <1>5, <2>1, CrashBegins, HeaderFrame DEF Types
<1>6. ASSUME NEW c \in Conns, Reconnect(c) PROVE Header'
  BY <1>6, HeaderReconnect DEF InBounds
<1>7. ASSUME NEW c \in Conns, Handler(c) \/ FinalizeRaises(c) \/ Cut(c) PROVE Header'
  <2>1. UNCHANGED <<n, pending, sock, fid>>
    BY <1>7, HandlerWrites DEF clientVars
  <2>2. CASE HandleChunk(c)
    BY <2>2, HeaderChunk
  <2>3. CASE FinalizeTooShort(c) \/ FinalizeDuplicate(c) \/ FinalizeBegin(c)
    <3>1. Take(c, "finalize") /\ UNCHANGED <<link, fed>>
      BY <2>3 DEF FinalizeTooShort, FinalizeDuplicate, FinalizeBegin, sessionVars, decodeVars
    <3> QED
      BY <2>1, <3>1, HeaderRead
  <2>4. CASE StoreAudio(c) \/ AddFastRow(c) \/ QueueFinal(c) \/ FinalizeRaises(c) \/ Cut(c)
             \/ SettleFinalize(c) \/ Handoff(c) \/ NoHandoff(c) \/ Disconnected(c)
    <3>1. UNCHANGED fed
      BY <2>4 DEF StoreAudio, AddFastRow, QueueFinal, FinalizeRaises, Cut, SettleFinalize,
         Handoff, NoHandoff, Disconnected, sessionVars, decodeVars
    <3> QED
      BY <2>1, <2>4, <3>1, HandlerBegins, HeaderFrame DEF Types
  <2> QED
    BY <1>7, <2>2, <2>3, <2>4 DEF Handler
<1> QED
  BY <1>1, <1>2, <1>3, <1>4, <1>5, <1>6, <1>7, Steps DEF Client

-----------------------------------------------------------------------------
\* What is finalized

\* A handler comes to its work with a chunk or a finalize, and to what it stored by storing.
Arrived(k) == HandleChunk(k) \/ FinalizeBegin(k)
Stays(k) == Busy(k) /\ job'[k].id = job[k].id
LEMMA Places ==
  ASSUME Types, Nets, [Next]_vars
  PROVE  \A k \in Conns : /\ Busy(k)' => Stays(k) \/ Arrived(k)
                          /\ Stores(k)' => Stores(k) \/ StoreAudio(k)
<1>1. ASSUME UNCHANGED <<srv, job>>
      PROVE  \A k \in Conns : (Busy(k)' => Stays(k)) /\ (Stores(k)' => Stores(k))
  BY <1>1 DEF Busy, Stays, Stores
<1>2. CASE Client
  BY <1>1, <1>2, ClientWrites DEF sessionVars
<1>3. CASE Others
  BY <1>1, <1>3, OthersWrite DEF sessionVars
<1>4. CASE Crash
  BY <1>4 DEF Crash, Busy, Stores
<1>5. srv \in [Conns -> Place] /\ job \in [Conns -> [id : {0, 1}, ok : BOOLEAN]]
  BY DEF Types, HandlerTypes
<1>6. ASSUME NEW c \in Conns, NEW l, srv' = [srv EXCEPT ![c] = l]
      PROVE  srv'[c] = l /\ \A k \in Conns \ {c} : srv'[k] = srv[k]
  BY <1>5, <1>6
<1>7. ASSUME NEW c \in Conns, Reconnect(c)
      PROVE  \A k \in Conns : (Busy(k)' => Stays(k)) /\ (Stores(k)' => Stores(k))
  <2>1. srv' = [srv EXCEPT ![c] = "ready"] /\ UNCHANGED job
    BY <1>7 DEF Reconnect
  <2> QED
    BY <1>6, <2>1 DEF Busy, Stays, Stores
<1>8. ASSUME NEW c \in Conns, Handler(c) \/ FinalizeRaises(c) \/ Cut(c)
      PROVE  \A k \in Conns : /\ Busy(k)' => Stays(k) \/ Arrived(k)
                              /\ Stores(k)' => Stores(k) \/ StoreAudio(k)
  <2>1. CASE FinalizeTooShort(c) \/ FinalizeDuplicate(c) \/ Cut(c)
    BY <1>1, <2>1 DEF FinalizeTooShort, FinalizeDuplicate, Cut, sessionVars
  <2>2. CASE HandleChunk(c)
    <3>1. CASE UNCHANGED <<srv, job>>
      BY <1>1, <3>1
    <3>2. CASE srv' = [srv EXCEPT ![c] = "store"] /\ job' = [job EXCEPT ![c] = NoJob]
      <4>1. \A k \in Conns \ {c} : srv'[k] = srv[k] /\ job'[k] = job[k]
        BY <1>5, <3>2
      <4>2. srv'[c] = "store"
        BY <1>6, <3>2
      <4> QED
        BY <2>2, <4>1, <4>2 DEF Busy, Stays, Stores, Arrived
    <3> QED
      BY <2>2, <3>1, <3>2, ChunkEffect
  <2>3. CASE FinalizeBegin(c)
    <3>1. srv' = [srv EXCEPT ![c] = "store"] /\ job' = [job EXCEPT ![c] = [id |-> 1, ok |-> TRUE]]
      BY <2>3, BeginEffect
    <3>2. \A k \in Conns \ {c} : srv'[k] = srv[k] /\ job'[k] = job[k]
      BY <1>5, <3>1
    <3>3. srv'[c] = "store"
      BY <1>6, <3>1
    <3> QED
      BY <2>3, <3>2, <3>3 DEF Busy, Stays, Stores, Arrived
  <2>4. CASE StoreAudio(c)
    <3>1. srv[c] = "store" /\ srv' = [srv EXCEPT ![c] = "row"] /\ UNCHANGED job
      BY <2>4 DEF StoreAudio, Goto
    <3> QED
      BY <1>6, <2>4, <3>1 DEF Busy, Stays, Stores
  <2>5. CASE AddFastRow(c)
    <3>1. srv[c] = "row" /\ srv' = [srv EXCEPT ![c] = "send"] /\ UNCHANGED job
      BY <2>5 DEF AddFastRow, Goto
    <3> QED
      BY <1>6, <3>1 DEF Busy, Stays, Stores
  <2>6. CASE QueueFinal(c)
    <3>1. srv[c] = "send" /\ srv' = [srv EXCEPT ![c] = "settle"] /\ UNCHANGED job
      BY <2>6 DEF QueueFinal, Goto
    <3> QED
      BY <1>6, <3>1 DEF Busy, Stays, Stores
  <2>7. CASE FinalizeRaises(c)
    <3>1. /\ srv[c] \in {"store", "row", "send"} /\ srv' = [srv EXCEPT ![c] = "settle"]
          /\ job' = [job EXCEPT ![c].ok = FALSE]
      BY <2>7 DEF FinalizeRaises, Goto
    <3>2. /\ job'[c].id = job[c].id /\ job'[c].ok = FALSE
          /\ \A k \in Conns \ {c} : job'[k] = job[k]
      BY <1>5, <3>1
    <3> QED
      BY <1>6, <3>1, <3>2 DEF Busy, Stays, Stores
  <2>8. CASE SettleFinalize(c) \/ Handoff(c) \/ NoHandoff(c) \/ Disconnected(c)
    <3>1. UNCHANGED job /\ (srv' = [srv EXCEPT ![c] = "ready"] \/ srv' = [srv EXCEPT ![c] = "gone"])
      BY <2>8 DEF SettleFinalize, Handoff, NoHandoff, Disconnected, Goto
    <3> QED
      BY <1>6, <3>1 DEF Busy, Stays, Stores
  <2> QED
    BY <1>8, <2>1, <2>2, <2>3, <2>4, <2>5, <2>6, <2>7, <2>8 DEF Handler
<1> QED
  BY <1>2, <1>3, <1>4, <1>7, <1>8, Steps

\* Once there is a finalize, or an upload, nothing is recorded.
LEMMA RecordedFixed ==
  ASSUME Types, Nets, UploadTypes, Uploads, [Next]_vars
  PROVE  /\ n' = n \/ (fid = 0 /\ upload = <<>>)
         /\ fid = 1 => fid' = 1
         /\ upload # <<>> => upload' # <<>>
<1>1. Record \/ UNCHANGED n
  BY ClientWrites, OthersWrite, HandlerWrites, Steps DEF Crash, Reconnect, clientVars
<1>2. Record => fid = 0 /\ upload = <<>>
  BY DEF Record, Nets, Phases, Uploads
<1>3. fid = 1 => fid' = 1
  <2>1. CASE Client
    BY <2>1 DEF Client, Record, Stop, NoticeClose, SendFinalize, ReceiveReply, FinalizeTimeout,
       RepeatFinalize, Nets, Phases
  <2> QED
    BY <2>1, OthersWrite, HandlerWrites, Steps DEF Crash, Reconnect, clientVars
<1>4. ASSUME upload # <<>> PROVE upload' # <<>>
  <2>1. CASE UNCHANGED upload
    BY <1>4, <2>1
  <2>2. CASE BeginUpload
    <3>1. \E l \in {"store", "send", "done", "error"} : upload' = Append(upload, l)
      BY <2>2 DEF BeginUpload
    <3> QED
      BY <3>1 DEF UploadTypes
  <2>3. ASSUME NEW i \in DOMAIN upload, UploadStore(i) \/ UploadSend(i) \/ UploadRaises(i)
        PROVE  upload' # <<>>
    BY <2>3, UploadStep DEF UploadStore, UploadSend, UploadRaises
  <2>4. CASE Crash
    <3>1. upload' = [i \in DOMAIN upload |-> IF upload[i] \in {"store", "send"}
                                             THEN "error" ELSE upload[i]]
      BY <2>4 DEF Crash
    <3> QED
      BY <1>4, <3>1 DEF UploadTypes
  <2>5. CASE Client
    BY <2>1, <2>5, ClientWrites
  <2>6. CASE Others
    BY <2>1, <2>2, <2>3, <2>6, OthersWrite
  <2>7. ASSUME NEW c \in Conns, Handler(c) \/ FinalizeRaises(c) \/ Cut(c) \/ Reconnect(c)
        PROVE  upload' # <<>>
    <3>1. UNCHANGED upload
      BY <2>7, HandlerWrites DEF Reconnect
    <3> QED
      BY <2>1, <3>1
  <2> QED
    BY <2>4, <2>5, <2>6, <2>7, Steps
<1> QED
  BY <1>1, <1>2, <1>3, <1>4

\* What the decoders have given only grows, as long as their handlers read.
LEMMA HeardGrows ==
  ASSUME Types, [Next]_vars
  PROVE  \A k \in Conns : /\ heard[k] \in Nat /\ heard'[k] \in Nat /\ heard[k] <= heard'[k]
                          /\ heard'[k] = heard[k] \/ srv[k] = "ready"
<1>1. heard \in [Conns -> Nat]
  BY DEF Types, DecodeTypes
<1>2. CASE UNCHANGED heard
  BY <1>1, <1>2
<1>3. ASSUME NEW c \in Conns, HandleChunk(c) \/ FinalizeBegin(c),
             heard[c] <= heard'[c], heard'[c] \in Nat, srv[c] = "ready",
             \A k \in Conns \ {c} : heard'[k] = heard[k]
      PROVE  \A k \in Conns : /\ heard[k] \in Nat /\ heard'[k] \in Nat /\ heard[k] <= heard'[k]
                              /\ heard'[k] = heard[k] \/ srv[k] = "ready"
  BY <1>1, <1>3
<1>4. ASSUME NEW c \in Conns, HandleChunk(c)
      PROVE  heard[c] <= heard'[c] /\ heard'[c] \in Nat /\ srv[c] = "ready"
             /\ \A k \in Conns \ {c} : heard'[k] = heard[k]
  <2>1. CASE pcm[c] /\ ~flushed[c]
    BY <1>4, <2>1, ChunkEffect
  <2>2. CASE ~(pcm[c] /\ ~flushed[c])
    BY <1>1, <1>4, <2>2, ChunkEffect
  <2> QED
    BY <2>1, <2>2
<1>5. ASSUME NEW c \in Conns, FinalizeBegin(c)
      PROVE  heard[c] <= heard'[c] /\ heard'[c] \in Nat /\ srv[c] = "ready"
             /\ \A k \in Conns \ {c} : heard'[k] = heard[k]
  BY <1>5, BeginEffect
<1>6. UNCHANGED heard \/ \E c \in Conns : HandleChunk(c) \/ FinalizeBegin(c)
  BY Steps, ClientWrites, OthersWrite, HandlerWrites DEF Crash, Reconnect, sessionVars, decodeVars
<1> QED
  BY <1>2, <1>3, <1>4, <1>5, <1>6

LEMMA DecodedChunk ==
  ASSUME Types, Nets, InBounds, AllPcm, Header, Decoded, NEW c \in Conns, HandleChunk(c)
  PROVE  Decoded'
<1>1. /\ UNCHANGED raw /\ heard[c] <= heard'[c] /\ pcm[c] /\ ~flushed[c]
  BY ChunkDecoded
<1>2. /\ UNCHANGED <<n, fid, flushed>> /\ srv[c] = "ready" /\ heard'[c] \in Nat
      /\ \A k \in Conns \ {c} : fed'[k] = fed[k] /\ heard'[k] = heard[k]
  BY ChunkEffect DEF clientVars
<1>3. \/ UNCHANGED <<srv, job>>
      \/ /\ srv' = [srv EXCEPT ![c] = "store"] /\ job' = [job EXCEPT ![c] = NoJob]
         /\ LimitHit(c, heard'[c], raw'[c])
  BY ChunkEffect
<1>4. srv \in [Conns -> Place] /\ job \in [Conns -> [id : {0, 1}, ok : BOOLEAN]]
  BY DEF Types, HandlerTypes
<1>5. \A k \in Conns \ {c} : srv'[k] = srv[k] /\ job'[k] = job[k]
  BY <1>3, <1>4
<1>6. ASSUME Busy(c)' PROVE job'[c].id = 0 /\ Limit <= heard'[c] /\ heard'[c] > 0
  <2>1. CASE UNCHANGED <<srv, job>>
    BY <1>2, <1>6, <2>1 DEF Busy
  <2>2. CASE job' = [job EXCEPT ![c] = NoJob] /\ LimitHit(c, heard'[c], raw'[c])
    <3>1. heard'[c] >= Limit /\ Limit \in Nat /\ Limit > 0
      BY <1>1, <2>2, BoundsAreNat, LimitIsReached DEF LimitHit
    <3>2. job'[c].id = 0
      BY <1>4, <2>2 DEF NoJob
    <3> QED
      BY <1>2, <3>1, <3>2
  <2> QED
    BY <1>3, <2>1, <2>2
<1> SUFFICES ASSUME NEW k \in Conns
             PROVE  /\ raw'[k] = {}
                    /\ flushed'[k] => fid' = 1 /\ n' <= fed'[k] /\ n' <= heard'[k] + PipeChunks
                    /\ Busy(k)' => heard'[k] > 0 /\ (job'[k].id = 1 => flushed'[k])
                                                 /\ (job'[k].id = 0 => Limit <= heard'[k])
  BY DEF Decoded
<1>7. CASE k = c
  BY <1>1, <1>2, <1>6, <1>7 DEF Decoded
<1>8. CASE k # c
  BY <1>1, <1>2, <1>5, <1>8 DEF Decoded, Busy
<1> QED
  BY <1>7, <1>8

LEMMA DecodedBegin ==
  ASSUME Types, Nets, InBounds, SwitchTypes, AllPcm, Header, Decoded,
         NEW c \in Conns, FinalizeBegin(c)
  PROVE  Decoded'
<1>1. /\ sent[c][1].type = "finalize" /\ srv[c] = "ready" /\ 1 \in DOMAIN sent[c] /\ Enough(c)
      /\ UNCHANGED <<n, fid, pcm, fed, raw>>
      /\ heard'[c] \in Nat /\ heard[c] <= heard'[c]
      /\ pcm[c] /\ ~flushed[c] => fed[c] <= heard'[c] + PipeChunks
      /\ \A k \in Conns \ {c} : heard'[k] = heard[k]
      /\ flushed' = [flushed EXCEPT ![c] = TRUE]
      /\ srv' = [srv EXCEPT ![c] = "store"]
      /\ job' = [job EXCEPT ![c] = [id |-> 1, ok |-> TRUE]]
  BY BeginEffect DEF clientVars
<1>2. /\ n \in Nat /\ PipeChunks \in Nat /\ fid \in {0, 1}
      /\ \A k \in Conns : heard[k] \in Nat /\ fed[k] \in Nat /\ heard[k] <= fed[k]
  BY BoundsAreNat DEF Types, ClientTypes, DecodeTypes, InBounds, DecodeBounds
<1>3. pcm[c]
  BY <1>1 DEF AllPcm, Nets, Turns
<1>4. fid = 1
  BY <1>1, <1>2 DEF Nets, Phases, Finalizes, Has
<1>5. heard[c] > 0
  BY <1>1 DEF Enough, Decoded
<1>6. n <= fed[c]
  <2>1. NoHeader(c) \/ n <= fed[c]
    BY FinalizeRead DEF FinalizeBegin
  <2>2. ~NoHeader(c)
    BY <1>2, <1>5 DEF NoHeader
  <2> QED
    BY <2>1, <2>2
<1>7. n <= heard'[c] + PipeChunks
  <2>1. CASE flushed[c]
    <3>1. n <= heard[c] + PipeChunks
      BY <2>1 DEF Decoded
    <3> QED
      BY <1>1, <1>2, <3>1
  <2>2. CASE ~flushed[c]
    BY <1>1, <1>2, <1>3, <1>6, <2>2
  <2> QED
    BY <2>1, <2>2
<1>8. srv \in [Conns -> Place] /\ job \in [Conns -> [id : {0, 1}, ok : BOOLEAN]]
  BY DEF Types, HandlerTypes
<1>9. job'[c].id = 1 /\ \A k \in Conns \ {c} : srv'[k] = srv[k] /\ job'[k] = job[k]
  BY <1>1, <1>8
<1> SUFFICES ASSUME NEW k \in Conns
             PROVE  /\ raw'[k] = {}
                    /\ flushed'[k] => fid' = 1 /\ n' <= fed'[k] /\ n' <= heard'[k] + PipeChunks
                    /\ Busy(k)' => heard'[k] > 0 /\ (job'[k].id = 1 => flushed'[k])
                                                 /\ (job'[k].id = 0 => Limit <= heard'[k])
  BY DEF Decoded
<1>10. CASE k = c
  <2>1. flushed'[c] = TRUE
    BY <1>1 DEF SwitchTypes
  <2>2. raw'[c] = {} /\ heard'[c] > 0
    BY <1>1, <1>2, <1>5 DEF Decoded
  <2> QED
    BY <1>1, <1>4, <1>6, <1>7, <1>9, <1>10, <2>1, <2>2
<1>11. CASE k # c
  <2>1. flushed'[k] = flushed[k]
    BY <1>1, <1>11
  <2> QED
    BY <1>1, <1>4, <1>9, <1>11, <2>1 DEF Decoded, Busy
<1> QED
  BY <1>10, <1>11

LEMMA DecodedStep ==
  ASSUME Types, Nets, InBounds, SwitchTypes, UploadTypes, Uploads, AllPcm, Header, Decoded,
         [Next]_vars
  PROVE  Decoded'
<1>1. ASSUME NEW c \in Conns, Arrived(c) PROVE Decoded'
  BY <1>1, DecodedChunk, DecodedBegin DEF Arrived
<1>2. ASSUME \A k \in Conns : ~Arrived(k) PROVE Decoded'
  <2>1. UNCHANGED <<fed, heard, raw, flushed>>
    BY <1>2, Steps, ClientWrites, OthersWrite, HandlerWrites
    DEF Crash, Reconnect, sessionVars, decodeVars, Arrived
  <2>2. n' = n \/ fid = 0
    BY RecordedFixed
  <2>3. fid = 1 => fid' = 1
    BY RecordedFixed
  <2>4. \A k \in Conns : Busy(k)' => Busy(k) /\ job'[k].id = job[k].id
    BY <1>2, Places DEF Stays
  <2> QED
    BY <2>1, <2>2, <2>3, <2>4 DEF Decoded
<1> QED
  BY <1>1, <1>2

-----------------------------------------------------------------------------
\* What is stored

\* Only one connection has anything.
LEMMA OneHeard ==
  ASSUME Types, DecodeBounds, Header, NEW j \in Conns, NEW k \in Conns, heard[j] > 0, heard[k] > 0
  PROVE  j = k
<1>1. fed[j] > 0 /\ fed[k] > 0
  BY DEF Types, DecodeTypes, DecodeBounds
<1> QED
  BY <1>1 DEF Header, OneHead, Heads

\* What a handler finalizes is what it has heard.
LEMMA AudioIsHeard ==
  ASSUME Types, Nets, AllPcm, Decoded, NEW k \in Conns, Busy(k)
  PROVE  pcm[k] /\ AudioOf(k) = 1 .. heard[k] /\ ExtOf(k) = "wav" /\ heard[k] > 0
<1>1. pcm[k] /\ heard[k] > 0
  BY DEF Busy, AllPcm, Nets, Turns, Decoded
<1> QED
  BY <1>1 DEF AudioOf, ExtOf

\* The objects, and what is written to them.
LEMMA ObjectStep ==
  ASSUME Types, Nets, InBounds, AllPcm, Header, Decoded, Stored, [Next]_vars
  PROVE  /\ object'["wav"] = object["wav"]
            \/ \E k \in Conns : Busy(k) /\ object'["wav"] = 1 .. heard[k]
         /\ \A k \in Conns : StoreAudio(k) => Busy(k) /\ object'["wav"] = 1 .. heard[k]
         /\ object["wav"] \subseteq object'["wav"]
         /\ object'["webm"] = object["webm"] \/ object'["webm"] = 1 .. n
         /\ \A i \in DOMAIN upload : UploadStore(i) => object'["webm"] = 1 .. n
<1>1. object \in [Exts -> SUBSET Recorded] /\ "wav" \in Exts /\ "webm" \in Exts
  BY DEF InBounds, KeptBounds, Exts
<1>2. \/ UNCHANGED object \/ \E k \in Conns : StoreAudio(k)
      \/ \E i \in DOMAIN upload : UploadStore(i)
  BY Steps, ClientWrites, OthersWrite, HandlerWrites DEF Crash, Reconnect, storeVars
<1>3. ASSUME NEW k \in Conns, StoreAudio(k)
      PROVE  Busy(k) /\ object'["wav"] = 1 .. heard[k] /\ object'["webm"] = object["webm"]
  <2>1. Busy(k) /\ object' = [object EXCEPT ![ExtOf(k)] = AudioOf(k)]
    BY <1>3 DEF StoreAudio, Busy
  <2>2. ExtOf(k) = "wav" /\ AudioOf(k) = 1 .. heard[k]
    BY <2>1, AudioIsHeard
  <2> QED
    BY <1>1, <2>1, <2>2
<1>4. ASSUME NEW i \in DOMAIN upload, UploadStore(i)
      PROVE  object'["wav"] = object["wav"] /\ object'["webm"] = 1 .. n
  BY <1>1, <1>4 DEF UploadStore
<1>5. ASSUME NEW k \in Conns, Busy(k) PROVE object["wav"] \subseteq 1 .. heard[k]
  <2> SUFFICES ASSUME NEW x \in object["wav"] PROVE x \in 1 .. heard[k]
    OBVIOUS
  <2>1. x \in Recorded /\ n \in Nat
    BY <1>1 DEF Types, ClientTypes
  <2>2. PICK j \in Conns : x <= heard[j]
    BY DEF Stored, HeardAll
  <2>3. heard[j] \in Nat /\ heard[k] > 0
    BY <1>5 DEF Types, DecodeTypes, Decoded
  <2>4. j = k
    BY <2>1, <2>2, <2>3, OneHeard DEF Recorded, InBounds
  <2> QED
    BY <2>1, <2>2, <2>3, <2>4 DEF Recorded
<1>6. object["wav"] \subseteq object'["wav"]
  BY <1>2, <1>3, <1>4, <1>5
<1> QED
  BY <1>2, <1>3, <1>4, <1>6

LEMMA HeardKept ==
  ASSUME Types, [Next]_vars, NEW S, HeardAll(S)
  PROVE  \A x \in S : x \in Nat => \E k \in Conns : x <= heard'[k]
<1> SUFFICES ASSUME NEW x \in S, x \in Nat PROVE \E k \in Conns : x <= heard'[k]
  OBVIOUS
<1>1. PICK k \in Conns : x <= heard[k]
  BY DEF HeardAll
<1>2. heard[k] \in Nat /\ heard'[k] \in Nat /\ heard[k] <= heard'[k]
  BY HeardGrows
<1> QED
  BY <1>1, <1>2

\* The draft is what it was, or what one connection has given.
LEMMA DraftStep ==
  ASSUME Types, Nets, AllPcm, Decoded, [Next]_vars
  PROVE  UNCHANGED draft \/ \E k \in Conns : heard'[k] > 0 /\ draft' = 1 .. heard'[k]
<1>1. UNCHANGED draft \/ \E k \in Conns : HandleChunk(k) \/ AddFastRow(k)
  BY Steps, ClientWrites, OthersWrite, HandlerWrites DEF Crash, Reconnect, storeVars
<1>2. ASSUME NEW k \in Conns, AddFastRow(k) PROVE heard'[k] > 0 /\ draft' = 1 .. heard'[k]
  <2>1. srv[k] = "row" /\ draft' = AudioOf(k) /\ UNCHANGED heard
    BY <1>2 DEF AddFastRow, decodeVars
  <2> QED
    BY <2>1, AudioIsHeard DEF Busy
<1> QED
  BY <1>1, <1>2, ChunkEffect

LEMMA HeardAllStep ==
  ASSUME Types, Nets, InBounds, AllPcm, Header, Decoded, Stored, [Next]_vars
  PROVE  HeardAll(draft)' /\ HeardAll(object["wav"])'
<1>1. /\ \A x \in draft : x \in Nat
      /\ \A x \in object["wav"] : x \in Nat
  BY DEF InBounds, KeptBounds, Recorded, Exts
<1>2. HeardAll(draft) /\ HeardAll(object["wav"])
  BY DEF Stored
<1>3. \A k \in Conns : \A x \in 1 .. heard'[k] : x <= heard'[k]
  BY HeardGrows
<1>4. \A k \in Conns : \A x \in 1 .. heard[k] : x <= heard'[k]
  BY HeardGrows
<1>5. HeardAll(draft)'
  <2>1. CASE UNCHANGED draft
    BY <1>1, <1>2, <2>1, HeardKept DEF HeardAll
  <2>2. ASSUME NEW k \in Conns, draft' = 1 .. heard'[k] PROVE HeardAll(draft)'
    BY <1>3, <2>2 DEF HeardAll
  <2> QED
    BY <2>1, <2>2, DraftStep
<1>6. HeardAll(object["wav"])'
  <2>1. CASE object'["wav"] = object["wav"]
    BY <1>1, <1>2, <2>1, HeardKept DEF HeardAll
  <2>2. ASSUME NEW k \in Conns, object'["wav"] = 1 .. heard[k] PROVE HeardAll(object["wav"])'
    BY <1>4, <2>2 DEF HeardAll
  <2> QED
    BY <2>1, <2>2, ObjectStep
<1> QED
  BY <1>5, <1>6

LEMMA WavStep ==
  ASSUME Types, Nets, InBounds, AllPcm, Header, Decoded, Stored, [Next]_vars
  PROVE  WavStored'
<1> SUFFICES ASSUME NEW k \in Conns, Stores(k)'
             PROVE  1 .. heard'[k] \subseteq object'["wav"]
  BY DEF WavStored
<1>1. CASE Stores(k)
  <2>1. heard'[k] = heard[k]
    BY <1>1, HeardGrows DEF Stores
  <2>2. 1 .. heard[k] \subseteq object["wav"]
    BY <1>1 DEF Stored, WavStored
  <2> QED
    BY <2>1, <2>2, ObjectStep
<1>2. CASE StoreAudio(k)
  <2>1. heard'[k] = heard[k]
    BY <1>2 DEF StoreAudio, decodeVars
  <2> QED
    BY <1>2, <2>1, ObjectStep
<1> QED
  BY <1>1, <1>2, Places

\* The upload that is to send its task has stored the recording.
LEMMA WebmStep ==
  ASSUME Types, Nets, InBounds, UploadTypes, Uploads, AllPcm, Header, Decoded, Stored,
         [Next]_vars
  PROVE  WebmStored'
<1> SUFFICES ASSUME NEW i \in DOMAIN upload', upload'[i] = "send"
             PROVE  1 .. n' \subseteq object'["webm"]
  BY DEF WebmStored
<1>1. (\E j \in DOMAIN upload : upload[j] = "send") \/ (\E j \in DOMAIN upload : UploadStore(j))
  <2>1. CASE UNCHANGED upload
    BY <2>1
  <2>2. CASE BeginUpload
    <3>1. PICK l \in {"store", "done", "error"} : upload' = Append(upload, l)
      BY <2>2 DEF BeginUpload
    <3>2. \A j \in DOMAIN Append(upload, l) :
            Append(upload, l)[j] = l \/ (j \in DOMAIN upload /\ Append(upload, l)[j] = upload[j])
      BY DEF UploadTypes
    <3> QED
      BY <3>1, <3>2
  <2>3. ASSUME NEW j \in DOMAIN upload, UploadSend(j) \/ UploadRaises(j)
        PROVE  \E m \in DOMAIN upload : upload[m] = "send"
    <3>1. PICK l \in {"done", "error"} : UploadTo(j, l)
      BY <2>3 DEF UploadSend, UploadRaises
    <3>2. DOMAIN upload' = DOMAIN upload /\ upload'[j] = l
          /\ \A m \in DOMAIN upload \ {j} : upload'[m] = upload[m]
      BY <3>1, UploadStep
    <3> QED
      BY <3>2
  <2>4. CASE Crash
    <3>1. i \in DOMAIN upload /\ upload'[i] # "send"
      BY <2>4 DEF Crash
    <3> QED
      BY <3>1
  <2>5. CASE Client
    BY <2>1, <2>5, ClientWrites
  <2>6. CASE Others
    BY <2>1, <2>2, <2>3, <2>6, OthersWrite
  <2>7. ASSUME NEW c \in Conns, Handler(c) \/ FinalizeRaises(c) \/ Cut(c) \/ Reconnect(c)
        PROVE  UNCHANGED upload
    BY <2>7, HandlerWrites DEF Reconnect
  <2> QED
    BY <2>1, <2>4, <2>5, <2>6, <2>7, Steps
<1>2. upload # <<>>
  BY <1>1
<1>3. n' = n
  BY <1>2, RecordedFixed
<1>4. CASE \E j \in DOMAIN upload : upload[j] = "send"
  <2>1. 1 .. n \subseteq object["webm"]
    BY <1>4 DEF Stored, WebmStored
  <2> QED
    BY <1>3, <2>1, ObjectStep
<1>5. CASE \E j \in DOMAIN upload : UploadStore(j)
  BY <1>3, <1>5, ObjectStep
<1> QED
  BY <1>1, <1>4, <1>5

\* A task more is that of a finalize, or of an upload.
LEMMA TaskMore ==
  ASSUME Types, Nets, AllPcm, Decoded, [Next]_vars
  PROVE  \/ UNCHANGED tasks
         \/ \E t \in Task :
              /\ tasks' = Append(tasks, t) /\ UNCHANGED <<n, fid, object>>
              /\ \/ t = [id |-> 0, ext |-> "webm"] /\ \E i \in DOMAIN upload : upload[i] = "send"
                 \/ \E k \in Conns : Stores(k) /\ Busy(k) /\ t = [id |-> job[k].id, ext |-> "wav"]
<1>1. UNCHANGED tasks \/ (\E k \in Conns : QueueFinal(k)) \/ \E i \in DOMAIN upload : UploadSend(i)
  BY Steps, ClientWrites, OthersWrite, HandlerWrites DEF Crash, Reconnect, storeVars
<1>2. ASSUME NEW k \in Conns, QueueFinal(k)
      PROVE  /\ tasks' = Append(tasks, [id |-> job[k].id, ext |-> "wav"])
             /\ [id |-> job[k].id, ext |-> "wav"] \in Task
             /\ UNCHANGED <<n, fid, object>> /\ Stores(k) /\ Busy(k)
  <2>1. /\ srv[k] = "send" /\ tasks' = Append(tasks, [id |-> job[k].id, ext |-> ExtOf(k)])
        /\ UNCHANGED <<n, fid, object>>
    BY <1>2 DEF QueueFinal, clientVars
  <2>2. Stores(k) /\ Busy(k)
    BY <2>1 DEF Stores, Busy
  <2>3. ExtOf(k) = "wav"
    BY <2>2, AudioIsHeard
  <2>4. job[k].id \in {0, 1}
    BY DEF Types, HandlerTypes
  <2> QED
    BY <2>1, <2>2, <2>3, <2>4 DEF Task, Exts
<1>3. ASSUME NEW i \in DOMAIN upload, UploadSend(i)
      PROVE  /\ tasks' = Append(tasks, [id |-> 0, ext |-> "webm"])
             /\ [id |-> 0, ext |-> "webm"] \in Task
             /\ UNCHANGED <<n, fid, object>> /\ upload[i] = "send"
  BY <1>3 DEF UploadSend, clientVars, Task, Exts
<1> QED
  BY <1>1, <1>2, <1>3

LEMMA TaskStep ==
  ASSUME Types, Nets, InBounds, UploadTypes, Uploads, AllPcm, Header, Decoded, Stored,
         [Next]_vars
  PROVE  TaskStored'
<1>1. ASSUME NEW t, Holds(t) PROVE Holds(t)'
  <2>1. t.ext = "webm" => upload' # <<>> /\ 1 .. n' \subseteq object'["webm"]
    <3> SUFFICES ASSUME t.ext = "webm"
                 PROVE  upload' # <<>> /\ 1 .. n' \subseteq object'["webm"]
      OBVIOUS
    <3>1. upload # <<>> /\ 1 .. n \subseteq object["webm"]
      BY <1>1 DEF Holds
    <3>2. upload' # <<>> /\ n' = n
      BY <3>1, RecordedFixed
    <3> QED
      BY <3>1, <3>2, ObjectStep
  <2>2. t.ext = "wav" /\ t.id = 1 => fid' = 1 /\ 1 .. n' - PipeChunks \subseteq object'["wav"]
    <3> SUFFICES ASSUME t.ext = "wav", t.id = 1
                 PROVE  fid' = 1 /\ 1 .. n' - PipeChunks \subseteq object'["wav"]
      OBVIOUS
    <3>1. fid = 1 /\ 1 .. n - PipeChunks \subseteq object["wav"]
      BY <1>1 DEF Holds
    <3>2. fid' = 1 /\ n' = n
      BY <3>1, RecordedFixed
    <3> QED
      BY <3>1, <3>2, ObjectStep
  <2>3. t.ext = "wav" /\ t.id = 0 => 1 .. Limit \subseteq object'["wav"]
    <3>1. object["wav"] \subseteq object'["wav"]
      BY ObjectStep
    <3> QED
      BY <1>1, <3>1 DEF Holds
  <2> QED
    BY <2>1, <2>2, <2>3 DEF Holds
<1>2. \A i \in DOMAIN tasks : Holds(tasks[i])
  BY DEF Stored, TaskStored
<1>3. ASSUME \A i \in DOMAIN tasks' : (\E j \in DOMAIN tasks : tasks'[i] = tasks[j])
                                     \/ (\E t : Holds(t) /\ tasks'[i] = t)
      PROVE  TaskStored'
  <2> SUFFICES ASSUME NEW i \in DOMAIN tasks'
               PROVE  /\ tasks'[i].ext = "webm"
                           => upload' # <<>> /\ 1 .. n' \subseteq object'["webm"]
                      /\ tasks'[i].ext = "wav" /\ tasks'[i].id = 1
                           => fid' = 1 /\ 1 .. n' - PipeChunks \subseteq object'["wav"]
                      /\ tasks'[i].ext = "wav" /\ tasks'[i].id = 0
                           => 1 .. Limit \subseteq object'["wav"]
    BY DEF TaskStored, Holds
  <2>1. PICK t : Holds(t) /\ tasks'[i] = t
    BY <1>2, <1>3
  <2>2. Holds(t)'
    BY <1>1, <2>1
  <2> QED
    BY <2>1, <2>2 DEF Holds
<1>4. ASSUME NEW t \in Task, tasks' = Append(tasks, t), Holds(t) PROVE TaskStored'
  <2>1. \A i \in DOMAIN Append(tasks, t) :
          Append(tasks, t)[i] = t \/ (i \in DOMAIN tasks /\ Append(tasks, t)[i] = tasks[i])
    BY DEF Types, StoreTypes
  <2>2. \A i \in DOMAIN tasks' : tasks'[i] = t \/ (i \in DOMAIN tasks /\ tasks'[i] = tasks[i])
    BY <1>4, <2>1
  <2> QED
    BY <1>3, <1>4, <2>2
<1>5. ASSUME NEW t, t = [id |-> 0, ext |-> "webm"], NEW i \in DOMAIN upload, upload[i] = "send"
      PROVE  Holds(t)
  <2>1. upload # <<>> /\ 1 .. n \subseteq object["webm"]
    BY <1>5 DEF Stored, WebmStored
  <2> QED
    BY <1>5, <2>1 DEF Holds
<1>6. ASSUME NEW t, NEW k \in Conns, Stores(k), Busy(k), t = [id |-> job[k].id, ext |-> "wav"]
      PROVE  Holds(t)
  <2>1. /\ n \in Nat /\ PipeChunks \in Nat /\ Limit \in Nat
        /\ \A j \in Conns : heard[j] \in Nat
    BY BoundsAreNat DEF Types, ClientTypes, DecodeTypes
  <2>2. 1 .. heard[k] \subseteq object["wav"]
    BY <1>6 DEF Stored, WavStored
  <2>3. ASSUME t.id = 1 PROVE fid = 1 /\ 1 .. n - PipeChunks \subseteq object["wav"]
    <3>1. flushed[k]
      BY <1>6, <2>3 DEF Decoded
    <3>2. fid = 1 /\ n <= heard[k] + PipeChunks
      BY <3>1 DEF Decoded
    <3>3. n - PipeChunks <= heard[k]
      BY <2>1, <3>2
    <3>4. 1 .. n - PipeChunks \subseteq 1 .. heard[k]
      BY <2>1, <3>3
    <3> QED
      BY <2>2, <3>2, <3>4
  <2>4. ASSUME t.id = 0 PROVE 1 .. Limit \subseteq object["wav"]
    <3>1. Limit <= heard[k]
      BY <1>6, <2>4 DEF Decoded
    <3>2. 1 .. Limit \subseteq 1 .. heard[k]
      BY <2>1, <3>1
    <3> QED
      BY <2>2, <3>2
  <2> QED
    BY <1>6, <2>3, <2>4 DEF Holds
<1> QED
  <2>1. UNCHANGED tasks => TaskStored'
    BY <1>3
  <2> QED
    BY <1>4, <1>5, <1>6, <2>1, TaskMore

LEMMA StoredStep ==
  ASSUME Types, Nets, InBounds, UploadTypes, Uploads, AllPcm, Header, Decoded, Stored,
         [Next]_vars
  PROVE  Stored'
<1>1. HeardAll(draft)' /\ HeardAll(object["wav"])'
  BY HeardAllStep
<1>2. WavStored' /\ WebmStored' /\ TaskStored'
  BY WavStep, WebmStep, TaskStep
<1> QED
  BY <1>1, <1>2 DEF Stored, HeardAll

LEMMA PcmInitially == Init => PcmInv
<1> SUFFICES ASSUME Init PROVE PcmInv
  OBVIOUS
<1>1. 1 \in Conns
  BY OneConnection, BoundsAreNat DEF Conns
<1>2. /\ n = 0 /\ pending = <<>> /\ fid = 0 /\ upload = <<>> /\ tasks = <<>> /\ draft = {}
      /\ object["wav"] = {}
      /\ \A k \in Conns : /\ sent[k] = <<>> /\ fed[k] = 0 /\ heard[k] = 0 /\ raw[k] = {}
                          /\ flushed[k] = FALSE /\ srv[k] \in {"none", "ready"}
  BY DEF Init, Exts
<1>3. Header
  BY <1>2 DEF Header, Lines, InOrder, Current, Waiting, OneHead, Heads
<1>4. Decoded
  BY <1>2 DEF Decoded, Busy
<1>5. Stored
  BY <1>2 DEF Stored, HeardAll, WavStored, Stores, WebmStored, TaskStored
<1> QED
  BY <1>3, <1>4, <1>5 DEF PcmInv

LEMMA PcmStep == BoundsInv /\ PcmInv /\ [Next]_vars => PcmInv'
<1> SUFFICES ASSUME BoundsInv, PcmInv, [Next]_vars, AllPcm'
             PROVE  (Header /\ Decoded /\ Stored)'
  BY DEF PcmInv
<1>1. Types /\ Nets /\ InBounds /\ SwitchTypes /\ UploadTypes /\ Uploads
  BY DEF BoundsInv, Rest
<1>2. AllPcm
  BY <1>1, PcmBefore
<1>3. Header /\ Decoded /\ Stored
  BY <1>2 DEF PcmInv
<1>4. Header'
  BY <1>1, <1>2, <1>3, HeaderStep
<1>5. Decoded'
  BY <1>1, <1>2, <1>3, DecodedStep
<1>6. Stored'
  BY <1>1, <1>2, <1>3, StoredStep
<1> QED
  BY <1>4, <1>5, <1>6

\* A draft that a connection saves covers what the draft covered: only one has the header
\* of the stream, and what its decoder has given only grows. So it is whether Redis works
\* or not, whatever is lost, repeated or raised.
THEOREM DraftNeverShrinks == Spec => DraftGrows
<1>1. ASSUME BoundsInv, PcmInv, [Next]_vars, AllPcm PROVE draft \subseteq draft'
  <2>1. Types /\ Nets /\ InBounds /\ Header /\ Decoded /\ Stored
    BY <1>1 DEF BoundsInv, PcmInv
  <2>2. InBounds' /\ Types'
    BY <1>1, BoundsStep DEF BoundsInv
  <2>3. Header'
    BY <1>1, <2>1, HeaderStep
  <2>4. ASSUME NEW k \in Conns, heard'[k] > 0, draft' = 1 .. heard'[k], NEW x \in draft
        PROVE  x \in draft'
    <3>1. x \in Nat /\ x >= 1
      BY <2>1 DEF InBounds, KeptBounds, Recorded, Types, ClientTypes
    <3>2. PICK j \in Conns : x <= heard[j]
      BY <2>1 DEF Stored, HeardAll
    <3>3. heard[j] \in Nat /\ heard'[j] \in Nat /\ heard[j] <= heard'[j] /\ heard'[k] \in Nat
      BY <1>1, <2>1, HeardGrows
    <3>4. heard'[j] > 0
      BY <3>1, <3>2, <3>3
    <3>5. j = k
      <4>1. heard'[j] <= fed'[j] /\ heard'[k] <= fed'[k] /\ fed'[j] \in Nat /\ fed'[k] \in Nat
        BY <2>2 DEF InBounds, DecodeBounds, Types, DecodeTypes
      <4>2. fed'[j] > 0 /\ fed'[k] > 0
        BY <2>4, <3>3, <3>4, <4>1
      <4> QED
        BY <2>3, <4>2 DEF Header, OneHead, Heads
    <3> QED
      BY <2>4, <3>1, <3>2, <3>3, <3>5
  <2> QED
    BY <1>1, <2>1, <2>4, DraftStep
<1>2. BoundsInv /\ PcmInv /\ [Next]_vars => [AllPcm => draft \subseteq draft']_vars
  BY <1>1
<1>3. Init => BoundsInv /\ PcmInv
  BY BoundsInitially, PcmInitially
<1>4. BoundsInv /\ PcmInv /\ [Next]_vars => BoundsInv' /\ PcmInv'
  BY BoundsStep, PcmStep
<1> QED
  BY <1>2, <1>3, <1>4, PTL DEF Spec, DraftGrows

-----------------------------------------------------------------------------
\* What is dropped

\* A task that was queued stays.
LEMMA TasksStay ==
  ASSUME Types, [Next]_vars, tasks # <<>>
  PROVE  tasks' # <<>>
<1>1. UNCHANGED tasks \/ (\E k \in Conns : QueueFinal(k)) \/ \E i \in DOMAIN upload : UploadSend(i)
  BY Steps, ClientWrites, OthersWrite, HandlerWrites DEF Crash, Reconnect, storeVars
<1>2. \A k \in Conns : [id |-> job[k].id, ext |-> ExtOf(k)] \in Task
  BY DEF Types, HandlerTypes, Task, ExtOf, Exts
<1>3. [id |-> 0, ext |-> "webm"] \in Task
  BY DEF Task, Exts
<1>4. \A t \in Task : Append(tasks, t) # <<>>
  BY DEF Types, StoreTypes
<1> QED
  BY <1>1, <1>2, <1>3, <1>4 DEF QueueFinal, UploadSend

\* The client drops a recording for an answer, of its finalize or its upload, that is given
\* when a task is queued.
LEMMA DropStep == IInv /\ BoundsInv /\ DropQueued /\ [Next]_vars => DropQueued'
<1> SUFFICES ASSUME IInv, BoundsInv, DropQueued, [Next]_vars, rec' = "idle", n' > 0
             PROVE  tasks' # <<>>
  BY DEF DropQueued
<1>1. Types /\ Phases /\ AnswersMean /\ Uploads
  BY DEF IInv, BoundsInv, Nets, ClaimsInv
<1>2. ASSUME tasks # <<>> PROVE tasks' # <<>>
  BY <1>1, <1>2, TasksStay
<1>3. CASE ReceiveReply
  <2>1. PICK a \in replies[waitOn] :
          /\ CloseAnd(IF a.status = "error" THEN "upload" ELSE "idle")
          /\ rec = "waiting" /\ UNCHANGED n
    BY <1>3 DEF ReceiveReply
  <2>2. a.status # "error"
    BY <2>1 DEF CloseAnd
  <2>3. waitOn \in Conns
    BY <1>1, <2>1, BoundsAreNat DEF Types, ClientTypes, Phases, Conns
  <2>4. Queued
    BY <1>1, <2>1, <2>2, <2>3 DEF AnswersMean
  <2> QED
    BY <1>2, <2>4 DEF Queued
<1>4. CASE SendFinalize \/ FinalizeTimeout
  BY <1>4 DEF SendFinalize, FinalizeTimeout, CloseAnd
<1>5. CASE UploadAnswered
  <2>1. rec = "uploading" /\ upload[Len(upload)] = "done" /\ upload # <<>>
    BY <1>1, <1>5 DEF UploadAnswered, Uploads
  <2>2. Len(upload) \in DOMAIN upload
    BY <2>1 DEF BoundsInv, Rest, UploadTypes
  <2>3. tasks # <<>>
    BY <1>1, <2>1, <2>2 DEF Uploads
  <2> QED
    BY <1>2, <2>3
<1>6. CASE rec = "idle"
  <2>1. n' = n
    BY <1>6, Steps, ClientWrites, OthersWrite, HandlerWrites
    DEF Crash, Reconnect, clientVars, Record
  <2> QED
    BY <1>2, <1>6, <2>1 DEF DropQueued
<1>7. \/ rec = "idle" \/ ReceiveReply \/ SendFinalize \/ FinalizeTimeout \/ UploadAnswered
  <2>1. CASE Client
    BY <2>1 DEF Client, Record, Stop, NoticeClose, RepeatFinalize
  <2>2. CASE Others
    BY <2>2, OthersWrite DEF BeginUpload, UploadAnswerLost
  <2> QED
    BY <2>1, <2>2, Steps, HandlerWrites DEF Crash, Reconnect, clientVars
<1> QED
  BY <1>3, <1>4, <1>5, <1>6, <1>7

\* When the recorder has dropped a recording, a task is queued whose audio is all that was
\* recorded, up to what the pipe of a decoder holds; or, after an autoprolong, all up to the
\* limit. The claims of Redis keep a client from being told that a finalize went through
\* which did not.
THEOREM DroppedIsQueued ==
  ASSUME RedisUp = {TRUE}
  PROVE  Spec => []AudioKept
<1>1. ASSUME BoundsInv, PcmInv, DropQueued PROVE AudioKept
  <2> SUFFICES ASSUME rec = "idle", n > 0, AllPcm
               PROVE  \E i \in DOMAIN tasks :
                        1 .. (IF Prolonged THEN Limit ELSE n - PipeChunks)
                          \subseteq object[tasks[i].ext]
    BY DEF AudioKept
  <2>1. TaskStored /\ tasks \in Seq(Task) /\ tasks # <<>> /\ n \in Nat /\ PipeChunks \in Nat
    BY <1>1, BoundsAreNat
    DEF PcmInv, Stored, DropQueued, BoundsInv, Types, StoreTypes, ClientTypes
  <2>2. CASE Prolonged
    <3>1. PICK i \in DOMAIN tasks : tasks[i] = [id |-> 0, ext |-> "wav"]
      BY <2>2 DEF Prolonged
    <3>2. 1 .. Limit \subseteq object[tasks[i].ext]
      BY <2>1, <3>1 DEF TaskStored, Holds
    <3> QED
      BY <2>2, <3>2
  <2>3. CASE ~Prolonged
    <3>1. 1 \in DOMAIN tasks /\ tasks[1] \in Task
      BY <2>1
    <3>2. CASE tasks[1].ext = "webm"
      <4>1. 1 .. n \subseteq object[tasks[1].ext]
        BY <2>1, <3>1, <3>2 DEF TaskStored, Holds
      <4>2. 1 .. n - PipeChunks \subseteq 1 .. n
        BY <2>1
      <4> QED
        BY <2>3, <3>1, <4>1, <4>2
    <3>3. CASE tasks[1].ext = "wav"
      <4>1. tasks[1].id = 1
        BY <2>3, <3>1, <3>3 DEF Prolonged, Task
      <4>2. 1 .. n - PipeChunks \subseteq object[tasks[1].ext]
        BY <2>1, <3>1, <3>3, <4>1 DEF TaskStored, Holds
      <4> QED
        BY <2>3, <3>1, <4>2
    <3> QED
      BY <3>1, <3>2, <3>3 DEF Task, Exts
  <2> QED
    BY <2>2, <2>3
<1>2. Init => DropQueued
  BY DEF Init, DropQueued
<1>3. Spec => []IInv
  BY Invariance
<1>4. BoundsInv /\ PcmInv /\ [Next]_vars => BoundsInv' /\ PcmInv'
  BY BoundsStep, PcmStep
<1>5. Init => BoundsInv /\ PcmInv
  BY BoundsInitially, PcmInitially
<1> QED
  BY <1>1, <1>2, <1>3, <1>4, <1>5, DropStep, PTL DEF Spec

-----------------------------------------------------------------------------
\* The settings of a buffer

LEMMA Quotient ==
  ASSUME NEW a \in Nat, NEW d \in Nat \ {0}
  PROVE  /\ a \div d \in Nat
         /\ (a \div d) * d <= a /\ a < (a \div d) * d + d
OBVIOUS

LEMMA Multiples ==
  ASSUME NEW d \in Nat
  PROVE  /\ \A a \in Nat : a * d \in Nat /\ (a + 1) * d = a * d + d
         /\ \A a \in Nat, b \in Nat : a <= b => a * d <= b * d
OBVIOUS

\* Of settings: a step is not shorter than the merge takes it for.
LEMMA SettingsFit ==
  ASSUME NEW c \in Settings
  PROVE  /\ c.chunk \in Nat /\ c.overlap \in Nat /\ c.window \in Nat /\ TimeFloor <= c.chunk
         /\ TimeFloor \in Nat \ {0} /\ ByteFloor \in Nat \ {0}
<1>1. PICK r \in Requests, l \in Limits :
        c = [mode |-> Mode(r, l), chunk |-> ChunkLength(r, l), window |-> l.window,
             overlap |-> l.overlap]
  BY DEF Settings
<1>2. /\ l.min \in Nat /\ l.max \in Nat /\ l.window \in Nat /\ l.overlap \in Nat
      /\ TimeFloor <= l.min /\ l.min <= l.max
  BY LimitsInOrder
<1>3. TimeFloor \in Nat \ {0} /\ ByteFloor \in Nat \ {0}
  BY FloorsArePositive
<1>4. ChunkLength(r, l) \in Nat /\ l.min <= ChunkLength(r, l)
  <2>1. CASE r.chunk = NoChunk
    <3>1. (l.min + l.max) \div 2 \in Nat /\ l.min <= (l.min + l.max) \div 2
      BY <1>2
    <3> QED
      BY <2>1, <3>1 DEF ChunkLength
  <2>2. CASE r.chunk # NoChunk
    <3>1. r.chunk \in Nat
      BY <2>2, ChunksAreNumbers
    <3> QED
      BY <1>2, <2>2, <3>1 DEF ChunkLength, Larger
  <2> QED
    BY <2>1, <2>2
<1> QED
  BY <1>1, <1>2, <1>3, <1>4

\* A buffer that cuts off at least one byte with a piece, and no more than a step.
Sized(b) ==
  /\ b.step \in Nat /\ b.win \in Nat /\ b.advance \in Nat \ {0}
  /\ b.advance <= b.step /\ b.step <= b.win
  /\ b.mode # "windowed" => b.advance = b.step
LEMMA BuildSized ==
  ASSUME NEW c \in Settings
  PROVE  Sized(Build(c)) /\ Build(c).mode = c.mode /\ Build(c).step = Step(c)
<1>1. /\ c.chunk \in Nat /\ c.overlap \in Nat /\ c.window \in Nat
      /\ ByteFloor \in Nat \ {0}
  BY SettingsFit
<1>2. Step(c) \in Nat /\ ByteFloor <= Step(c)
  BY <1>1 DEF Step, Larger
<1>3. Larger(Step(c), c.window) \in Nat /\ Step(c) <= Larger(Step(c), c.window)
  BY <1>1, <1>2 DEF Larger
<1>4. /\ Larger(ByteFloor, Step(c) - c.overlap) \in Nat \ {0}
      /\ Larger(ByteFloor, Step(c) - c.overlap) <= Step(c)
  BY <1>1, <1>2 DEF Larger
<1> QED
  BY <1>1, <1>2, <1>3, <1>4 DEF Sized, Build

-----------------------------------------------------------------------------
\* The buffer

\* A piece by its number: it ends after the steps before it, and starts in the stream.
PieceRecord == [from : Nat, to : Nat, at : Nat]
PieceFits(b, s, j) ==
  LET p == s.pieces[j] IN
  /\ p.at <= s.fed /\ (j - 1) * b.advance < p.at
  /\ p.from <= p.to /\ p.to - p.from <= p.at
  /\ b.mode = "windowed" => p.to = p.at
\* No piece starts later than the next one will.
Latest(b, s) == IF b.mode = "windowed" THEN s.base ELSE s.fed - b.step
Start(s, j) == Bounds(s.pieces[j]).start

PiecesFit(b, s) ==
  /\ s.pieces \in Seq(PieceRecord) /\ Len(s.pieces) * b.advance <= s.base
  /\ \A j \in DOMAIN s.pieces : PieceFits(b, s, j) /\ Start(s, j) <= Latest(b, s)
  /\ \A i, j \in DOMAIN s.pieces : i < j => Start(s, i) <= Start(s, j)
BaseFits(b, s) ==
  s.fed \in Nat /\ s.base \in Nat /\ s.base <= s.fed /\ s.fed - s.base < b.step
BufferFits(b, s) == BaseFits(b, s) /\ PiecesFit(b, s)

\* A frame cuts pieces while there is a step; less than one is left.
LEMMA Cuts ==
  ASSUME NEW b, Sized(b), NEW base \in Nat, NEW end \in Nat, base <= end
  PROVE  LET cuts == Count(b, end - base) IN
         /\ cuts \in Nat /\ base + cuts * b.advance \in Nat
         /\ base + cuts * b.advance <= end /\ end - (base + cuts * b.advance) < b.step
         /\ \A i \in 1 .. cuts :
              /\ (i - 1) * b.advance \in Nat
              /\ base + (i - 1) * b.advance + b.step <= end
              /\ base + (i - 1) * b.advance <= base + cuts * b.advance
<1> DEFINE d == b.advance
           cuts == Count(b, end - base)
<1>1. d \in Nat \ {0} /\ b.step \in Nat /\ d <= b.step
  BY DEF Sized
<1>2. CASE end - base < b.step
  <2>1. cuts = 0
    BY <1>2 DEF Count
  <2> QED
    BY <1>1, <1>2, <2>1
<1>3. CASE ~(end - base < b.step)
  <2> DEFINE a == (end - base) - b.step
             q == a \div d
  <2>1. a \in Nat
    BY <1>1, <1>3
  <2>2. q \in Nat /\ q * d <= a /\ a < q * d + d
    BY <1>1, <2>1, Quotient
  <2>3. cuts = q + 1
    BY <1>3 DEF Count
  <2>4. q * d \in Nat /\ cuts * d = q * d + d
    BY <1>1, <2>2, <2>3, Multiples
  <2>5. \A i \in 1 .. cuts : (i - 1) * d \in Nat /\ (i - 1) * d <= q * d
    <3> SUFFICES ASSUME NEW i \in 1 .. cuts PROVE (i - 1) * d \in Nat /\ (i - 1) * d <= q * d
      OBVIOUS
    <3>1. i - 1 \in Nat /\ i - 1 <= q
      BY <2>2, <2>3
    <3> QED
      BY <1>1, <2>2, <3>1, Multiples
  <2> HIDE DEF cuts, q
  <2>6. /\ cuts \in Nat /\ base + cuts * d \in Nat
        /\ base + cuts * d <= end /\ end - (base + cuts * d) < b.step
    BY <1>1, <1>3, <2>1, <2>2, <2>3, <2>4
  <2>7. \A i \in 1 .. cuts : /\ (i - 1) * d \in Nat /\ base + (i - 1) * d + b.step <= end
                            /\ base + (i - 1) * d <= base + cuts * d
    BY <1>1, <1>3, <2>1, <2>2, <2>3, <2>4, <2>5
  <2> QED
    BY <2>6, <2>7 DEF cuts
<1> QED
  BY <1>2, <1>3

LEMMA Concatenated ==
  ASSUME NEW S, NEW old \in Seq(S), NEW new \in Seq(S)
  PROVE  /\ old \o new \in Seq(S) /\ Len(old \o new) = Len(old) + Len(new)
         /\ Len(old) \in Nat /\ DOMAIN old = 1 .. Len(old)
         /\ DOMAIN (old \o new) = 1 .. Len(old) + Len(new)
         /\ \A j \in DOMAIN old : j \in DOMAIN (old \o new) /\ (old \o new)[j] = old[j]
         /\ \A i \in 1 .. Len(new) : /\ Len(old) + i \in DOMAIN (old \o new)
                                    /\ (old \o new)[Len(old) + i] = new[i]
OBVIOUS

\* What a frame does: the cap may move the beginning, and each piece does.
LEMMA FeedShape ==
  ASSUME NEW b, Sized(b), NEW s, BufferFits(b, s), NEW frame \in Nat
  PROVE  LET end  == s.fed + frame
             base == CutTo(b, s.base, end)
             cuts == Count(b, end - base)
             t    == Feed(b, s, frame) IN
         /\ end \in Nat /\ base \in Nat /\ s.base <= base /\ base <= end
         /\ end <= s.base + b.win => base = s.base
         /\ t.fed = end /\ t.base = base + cuts * b.advance
         /\ BaseFits(b, t) /\ cuts \in Nat /\ base <= t.base
         /\ t.pieces \in Seq(PieceRecord) /\ Len(t.pieces) = Len(s.pieces) + cuts
         /\ \A j \in DOMAIN s.pieces : j \in DOMAIN t.pieces /\ t.pieces[j] = s.pieces[j]
         /\ \A j \in DOMAIN t.pieces : j \in DOMAIN s.pieces \/ j - Len(s.pieces) \in 1 .. cuts
         /\ \A i \in 1 .. cuts :
              /\ (i - 1) * b.advance \in Nat
              /\ base + (i - 1) * b.advance + b.step <= end
              /\ base + (i - 1) * b.advance <= t.base
              /\ Len(s.pieces) + i \in DOMAIN t.pieces
              /\ t.pieces[Len(s.pieces) + i] = Piece(b, base + (i - 1) * b.advance, end)
<1> DEFINE end  == s.fed + frame
           base == CutTo(b, s.base, end)
           cuts == Count(b, end - base)
           t    == Feed(b, s, frame)
           new  == [i \in 1 .. cuts |-> Piece(b, base + (i - 1) * b.advance, end)]
<1>1. /\ s.fed \in Nat /\ s.base \in Nat /\ s.base <= s.fed /\ s.pieces \in Seq(PieceRecord)
      /\ b.win \in Nat /\ b.step \in Nat /\ b.advance \in Nat
  BY DEF BufferFits, BaseFits, PiecesFit, Sized
<1>2. end \in Nat /\ base \in Nat /\ s.base <= base /\ base <= end
  BY <1>1 DEF CutTo, Cap, Larger
<1>3. end <= s.base + b.win => base = s.base
  BY <1>1 DEF CutTo, Cap, Larger
<1>4. /\ cuts \in Nat /\ base + cuts * b.advance \in Nat
      /\ base + cuts * b.advance <= end /\ end - (base + cuts * b.advance) < b.step
      /\ \A i \in 1 .. cuts : /\ (i - 1) * b.advance \in Nat
                              /\ base + (i - 1) * b.advance + b.step <= end
                              /\ base + (i - 1) * b.advance <= base + cuts * b.advance
  BY <1>2, Cuts
<1>5. /\ t.fed = end /\ t.base = base + cuts * b.advance
      /\ t.pieces = s.pieces \o new
  BY DEF Feed
<1>6. BaseFits(b, t)
  BY <1>2, <1>4, <1>5 DEF BaseFits
<1>7. ASSUME NEW p \in Nat, p + b.step <= end PROVE Piece(b, p, end) \in PieceRecord
  <2>1. Larger(p, end - b.win) \in Nat
    BY <1>1, <1>2 DEF Larger
  <2> QED
    BY <1>1, <1>2, <2>1 DEF Piece, PieceRecord
<1> HIDE DEF end, base, cuts, t
<1>8. new \in [1 .. cuts -> PieceRecord]
  <2>1. \A i \in 1 .. cuts : base + (i - 1) * b.advance \in Nat
    BY <1>2, <1>4
  <2> QED
    BY <1>4, <1>7, <2>1
<1>9. new \in Seq(PieceRecord) /\ Len(new) = cuts
  BY <1>4, <1>8
<1> HIDE DEF new
<1>10. /\ t.pieces \in Seq(PieceRecord) /\ Len(t.pieces) = Len(s.pieces) + cuts
       /\ Len(s.pieces) \in Nat /\ DOMAIN s.pieces = 1 .. Len(s.pieces)
       /\ DOMAIN t.pieces = 1 .. Len(s.pieces) + cuts
       /\ \A j \in DOMAIN s.pieces : j \in DOMAIN t.pieces /\ t.pieces[j] = s.pieces[j]
       /\ \A i \in 1 .. cuts : Len(s.pieces) + i \in DOMAIN t.pieces
                               /\ t.pieces[Len(s.pieces) + i] = new[i]
  <2>1. s.pieces \in Seq(PieceRecord) /\ new \in Seq(PieceRecord)
    BY <1>1, <1>9
  <2>2. /\ s.pieces \o new \in Seq(PieceRecord) /\ Len(s.pieces \o new) = Len(s.pieces) + Len(new)
        /\ Len(s.pieces) \in Nat /\ DOMAIN s.pieces = 1 .. Len(s.pieces)
        /\ DOMAIN (s.pieces \o new) = 1 .. Len(s.pieces) + Len(new)
        /\ \A j \in DOMAIN s.pieces : /\ j \in DOMAIN (s.pieces \o new)
                                     /\ (s.pieces \o new)[j] = s.pieces[j]
        /\ \A i \in 1 .. Len(new) : /\ Len(s.pieces) + i \in DOMAIN (s.pieces \o new)
                                   /\ (s.pieces \o new)[Len(s.pieces) + i] = new[i]
    BY <2>1, Concatenated
  <2> QED
    BY <1>5, <1>9, <2>2
<1>11. \A j \in DOMAIN t.pieces : j \in DOMAIN s.pieces \/ j - Len(s.pieces) \in 1 .. cuts
  BY <1>4, <1>10
<1>12. \A i \in 1 .. cuts : new[i] = Piece(b, base + (i - 1) * b.advance, end)
  BY DEF new
<1>13. cuts * b.advance \in Nat /\ base <= t.base
  BY <1>1, <1>2, <1>4, <1>5, Multiples
<1> QED
  BY <1>2, <1>3, <1>4, <1>5, <1>6, <1>10, <1>11, <1>12, <1>13 DEF end, base, cuts, t

LEMMA PieceShape ==
  ASSUME NEW b, Sized(b), NEW base \in Nat, NEW end \in Nat, base + b.step <= end
  PROVE  LET p == Piece(b, base, end) IN
         /\ p.at = end /\ p.from \in Nat /\ p.to \in Nat /\ p.from <= p.to /\ p.to - p.from <= end
         /\ b.mode = "windowed" => /\ p.to = end /\ Bounds(p).start = p.from
                                   /\ p.from = Larger(base, end - b.win)
         /\ b.mode # "windowed" => /\ p.from = base /\ p.to = base + b.step
                                   /\ Bounds(p).start = end - b.step
<1> DEFINE p == Piece(b, base, end)
<1>1. b.step \in Nat /\ b.win \in Nat
  BY DEF Sized
<1>2. CASE b.mode = "windowed"
  <2>1. p.from = Larger(base, end - b.win) /\ p.to = end /\ p.at = end
    BY <1>2 DEF Piece
  <2>2. p.from \in Nat /\ p.from <= end
    BY <1>1, <2>1 DEF Larger
  <2>3. Bounds(p).start = Larger(0, p.at - (p.to - p.from))
    BY DEF Bounds
  <2> HIDE DEF p
  <2>4. Bounds(p).start = p.from
    BY <2>1, <2>2, <2>3 DEF Larger
  <2>5. p.to - p.from <= end
    BY <2>1, <2>2
  <2> QED
    BY <1>2, <2>1, <2>2, <2>4, <2>5 DEF p
<1>3. CASE b.mode # "windowed"
  <2>1. p.from = base /\ p.to = base + b.step /\ p.at = end
    BY <1>3 DEF Piece
  <2>2. Bounds(p).start = Larger(0, p.at - (p.to - p.from))
    BY DEF Bounds
  <2> HIDE DEF p
  <2>3. Bounds(p).start = end - b.step
    BY <1>1, <2>1, <2>2 DEF Larger
  <2> QED
    BY <1>1, <1>3, <2>1, <2>3 DEF p
<1> QED
  BY <1>2, <1>3

\* Pieces keep their order and are not ahead of the stream, whatever is fed.
LEMMA FeedFits ==
  ASSUME NEW b, Sized(b), NEW s, BufferFits(b, s), NEW frame \in Nat
  PROVE  BufferFits(b, Feed(b, s, frame))
<1> DEFINE end  == s.fed + frame
           base == CutTo(b, s.base, end)
           cuts == Count(b, end - base)
           t    == Feed(b, s, frame)
           at(i) == base + (i - 1) * b.advance
           m    == Len(s.pieces)
<1>1. /\ end \in Nat /\ base \in Nat /\ s.base <= base /\ base <= end
      /\ t.fed = end /\ t.base = base + cuts * b.advance
      /\ BaseFits(b, t) /\ cuts \in Nat /\ base <= t.base
      /\ t.pieces \in Seq(PieceRecord) /\ Len(t.pieces) = m + cuts
      /\ \A j \in DOMAIN s.pieces : j \in DOMAIN t.pieces /\ t.pieces[j] = s.pieces[j]
      /\ \A j \in DOMAIN t.pieces : j \in DOMAIN s.pieces \/ j - m \in 1 .. cuts
      /\ \A i \in 1 .. cuts :
           /\ (i - 1) * b.advance \in Nat /\ at(i) + b.step <= end /\ at(i) <= t.base
           /\ m + i \in DOMAIN t.pieces /\ t.pieces[m + i] = Piece(b, at(i), end)
  BY FeedShape
<1>2. s.fed <= end /\ BaseFits(b, s) /\ PiecesFit(b, s) /\ m \in Nat
  <2>1. s.fed \in Nat /\ s.pieces \in Seq(PieceRecord)
    BY DEF BufferFits, BaseFits, PiecesFit
  <2> QED
    BY <2>1 DEF BufferFits
<1>3. m * b.advance <= s.base
  BY <1>2 DEF PiecesFit
<1> HIDE DEF end, base, cuts, t, m
<1>4. /\ s.fed \in Nat /\ s.base \in Nat /\ b.step \in Nat /\ b.win \in Nat
       /\ b.advance \in Nat \ {0} /\ b.advance <= b.step /\ b.step <= b.win
  BY <1>2 DEF BaseFits, Sized
<1>5. /\ end \in Nat /\ base \in Nat /\ cuts \in Nat /\ s.base <= base /\ t.fed = end
      /\ t.base \in Nat /\ end - t.base < b.step /\ s.base <= t.base
  <2>1. t.base \in Nat /\ t.fed - t.base < b.step
    BY <1>1 DEF BaseFits
  <2> QED
    BY <1>1, <1>4, <2>1
<1>6. m * b.advance \in Nat /\ cuts * b.advance \in Nat
  BY <1>2, <1>4, <1>5, Multiples
<1>7. Len(t.pieces) * b.advance <= t.base
  <2>1. (m + cuts) * b.advance = m * b.advance + cuts * b.advance
    BY <1>2, <1>4, <1>5
  <2> DEFINE x == m * b.advance
             y == cuts * b.advance
  <2>2. x \in Nat /\ y \in Nat /\ x <= s.base /\ t.base = base + y
    BY <1>1, <1>3, <1>6
  <2>3. Len(t.pieces) * b.advance = x + y
    BY <1>1, <2>1
  <2> HIDE DEF x, y
  <2> QED
    BY <1>4, <1>5, <2>2, <2>3
<1>8. ASSUME NEW i \in 1 .. cuts
       PROVE  /\ at(i) \in Nat /\ at(i) + b.step <= end /\ at(i) <= t.base /\ s.base <= at(i)
              /\ (i - 1) * b.advance \in Nat /\ ((m + i) - 1) * b.advance < end
              /\ \A j \in 1 .. cuts : i < j => at(i) <= at(j)
  <2>1. /\ i - 1 \in Nat /\ (i - 1) * b.advance \in Nat
        /\ base + (i - 1) * b.advance + b.step <= end /\ base + (i - 1) * b.advance <= t.base
    <3>1. /\ (i - 1) * b.advance \in Nat
          /\ base + (i - 1) * b.advance + b.step <= end /\ base + (i - 1) * b.advance <= t.base
      BY <1>1, Zenon
    <3>2. i - 1 \in Nat
      BY <1>5
    <3> QED
      BY <3>1, <3>2
  <2>2. ((m + i) - 1) * b.advance = m * b.advance + (i - 1) * b.advance
    BY <1>2, <1>4, <2>1
  <2>3. ASSUME NEW j \in 1 .. cuts, i < j
        PROVE  (i - 1) * b.advance <= (j - 1) * b.advance /\ (j - 1) * b.advance \in Nat
    <3>1. j - 1 \in Nat /\ i - 1 <= j - 1
      BY <1>5, <2>1, <2>3
    <3> QED
      BY <1>4, <2>1, <3>1, Multiples
  <2>4. \A j \in 1 .. cuts : i < j => at(i) <= at(j)
    BY <1>5, <2>1, <2>3
  <2> DEFINE x == m * b.advance
             y == (i - 1) * b.advance
  <2>5. /\ x \in Nat /\ y \in Nat /\ x <= s.base /\ base + y + b.step <= end
        /\ base + y <= t.base /\ ((m + i) - 1) * b.advance = x + y /\ at(i) = base + y
    BY <1>3, <1>6, <2>1, <2>2
  <2> HIDE DEF x, y, at
  <2>6. x + y < end /\ at(i) \in Nat /\ at(i) + b.step <= end /\ at(i) <= t.base /\ s.base <= at(i)
    BY <1>4, <1>5, <2>5
  <2> QED
    BY <2>1, <2>4, <2>5, <2>6
<1>9. \A i \in 1 .. cuts : t.pieces[m + i] = Piece(b, at(i), end)
  BY <1>1
<1> HIDE DEF at
<1>10. ASSUME NEW j \in DOMAIN s.pieces
      PROVE  PieceFits(b, t, j) /\ Start(t, j) = Start(s, j) /\ Start(s, j) <= Latest(b, s)
             /\ Start(s, j) \in Nat
  <2>1. PieceFits(b, s, j) /\ t.pieces[j] = s.pieces[j] /\ s.pieces[j] \in PieceRecord
        /\ Start(s, j) <= Latest(b, s)
    BY <1>1, <1>2 DEF BufferFits, PiecesFit
  <2>2. Start(t, j) = Start(s, j)
    BY <2>1 DEF Start
  <2>3. PieceFits(b, t, j)
    <3> DEFINE p == s.pieces[j]
    <3>1. /\ p.at <= s.fed /\ (j - 1) * b.advance < p.at
          /\ p.from <= p.to /\ p.to - p.from <= p.at
          /\ b.mode = "windowed" => p.to = p.at
      BY <2>1 DEF PieceFits
    <3>2. p.at <= t.fed
      BY <1>2, <1>4, <1>5, <2>1, <3>1 DEF PieceRecord
    <3>3. t.pieces[j] = p
      BY <2>1
    <3> HIDE DEF p
    <3> QED
      BY <3>1, <3>2, <3>3 DEF PieceFits
  <2>4. Start(s, j) \in Nat
    <3> DEFINE p == s.pieces[j]
    <3>1. p.at - (p.to - p.from) \in Int /\ Start(s, j) = Larger(0, p.at - (p.to - p.from))
      BY <2>1 DEF Start, Bounds, PieceRecord
    <3> QED
      BY <3>1 DEF Larger
  <2> QED
    BY <2>1, <2>2, <2>3, <2>4
<1>11. Latest(b, s) <= Latest(b, t) /\ Latest(b, s) \in Int /\ Latest(b, t) \in Int
  BY <1>2, <1>4, <1>5 DEF Latest
<1>12. ASSUME NEW i \in 1 .. cuts
      PROVE  /\ PieceFits(b, t, m + i) /\ Start(t, m + i) \in Nat
             /\ Latest(b, s) <= Start(t, m + i) /\ Start(t, m + i) <= Latest(b, t)
             /\ b.mode = "windowed" => Start(t, m + i) = Larger(at(i), end - b.win)
             /\ b.mode # "windowed" => Start(t, m + i) = end - b.step
  <2>1. /\ at(i) \in Nat /\ at(i) + b.step <= end /\ at(i) <= t.base /\ s.base <= at(i)
        /\ t.pieces[m + i] = Piece(b, at(i), end)
    BY <1>8, <1>9
  <2> DEFINE p == Piece(b, at(i), end)
  <2>2. /\ p.at = end /\ p.from \in Nat /\ p.to \in Nat /\ p.from <= p.to /\ p.to - p.from <= end
        /\ b.mode = "windowed" => /\ p.to = end /\ Bounds(p).start = p.from
                                  /\ p.from = Larger(at(i), end - b.win)
        /\ b.mode # "windowed" => Bounds(p).start = end - b.step
    BY <1>5, <2>1, PieceShape
  <2>3. Start(t, m + i) = Bounds(p).start /\ t.pieces[m + i] = p
    BY <2>1 DEF Start
  <2> HIDE DEF p
  <2>4. PieceFits(b, t, m + i)
    <3>1. ((m + i) - 1) * b.advance < end
      BY <1>8
    <3> QED
      BY <1>5, <2>2, <2>3, <3>1 DEF PieceFits
  <2>5. CASE b.mode = "windowed"
    <3>1. Start(t, m + i) = Larger(at(i), end - b.win)
      BY <2>2, <2>3, <2>5
    <3>2. Latest(b, s) = s.base /\ Latest(b, t) = t.base
      BY <2>5 DEF Latest
    <3>3. Larger(at(i), end - b.win) \in Nat /\ s.base <= Larger(at(i), end - b.win)
          /\ Larger(at(i), end - b.win) <= t.base
      BY <1>2, <1>4, <1>5, <2>1 DEF Larger
    <3> QED
      BY <2>4, <2>5, <3>1, <3>2, <3>3
  <2>6. CASE b.mode # "windowed"
    <3>1. Start(t, m + i) = end - b.step
      BY <2>2, <2>3, <2>6
    <3>2. Latest(b, s) = s.fed - b.step /\ Latest(b, t) = end - b.step
      BY <1>5, <2>6 DEF Latest
    <3>3. end - b.step \in Nat /\ s.fed - b.step <= end - b.step
      BY <1>2, <1>4, <1>5, <2>1
    <3> QED
      BY <2>4, <2>6, <3>1, <3>2, <3>3
  <2> QED
    BY <2>5, <2>6
<1>13. ASSUME NEW i \in 1 .. cuts, NEW j \in 1 .. cuts, i < j
      PROVE  Start(t, m + i) <= Start(t, m + j)
  <2>1. at(i) \in Nat /\ at(j) \in Nat /\ at(i) <= at(j)
    BY <1>8, <1>13
  <2>2. Larger(at(i), end - b.win) <= Larger(at(j), end - b.win)
    BY <1>2, <1>4, <1>5, <2>1 DEF Larger
  <2>3. end - b.step <= end - b.step
    BY <1>2, <1>4, <1>5
  <2> QED
    BY <1>12, <2>2, <2>3
<1>14. \A j \in DOMAIN t.pieces : j \in DOMAIN s.pieces \/ \E i \in 1 .. cuts : j = m + i
  <2> SUFFICES ASSUME NEW j \in DOMAIN t.pieces, j \notin DOMAIN s.pieces
               PROVE  \E i \in 1 .. cuts : j = m + i
    OBVIOUS
  <2>1. j - m \in 1 .. cuts /\ j \in Nat
    BY <1>1
  <2>2. j = m + (j - m)
    BY <1>2, <2>1
  <2> QED
    BY <2>1, <2>2
<1>15. \A j \in DOMAIN t.pieces : PieceFits(b, t, j) /\ Start(t, j) <= Latest(b, t)
  <2> SUFFICES ASSUME NEW j \in DOMAIN t.pieces
               PROVE  PieceFits(b, t, j) /\ Start(t, j) <= Latest(b, t)
    OBVIOUS
  <2>1. CASE j \in DOMAIN s.pieces
    BY <1>10, <1>11, <2>1
  <2>2. CASE \E i \in 1 .. cuts : j = m + i
    BY <1>12, <2>2
  <2> QED
    BY <1>14, <2>1, <2>2
<1>16. \A i, j \in DOMAIN t.pieces : i < j => Start(t, i) <= Start(t, j)
  <2> SUFFICES ASSUME NEW i \in DOMAIN t.pieces, NEW j \in DOMAIN t.pieces, i < j
               PROVE  Start(t, i) <= Start(t, j)
    OBVIOUS
  <2>1. DOMAIN s.pieces = 1 .. m
    BY <1>2 DEF m
  <2>2. CASE i \in DOMAIN s.pieces /\ j \in DOMAIN s.pieces
    <3>1. Start(s, i) <= Start(s, j)
      BY <2>2 DEF BufferFits, PiecesFit
    <3> QED
      BY <1>10, <2>2, <3>1
  <2>3. CASE i \in DOMAIN s.pieces /\ j \notin DOMAIN s.pieces
    <3>1. PICK k \in 1 .. cuts : j = m + k
      BY <1>14, <2>3
    <3>2. Start(t, i) \in Nat /\ Start(t, i) <= Latest(b, s)
      BY <1>10, <2>3
    <3>3. Latest(b, s) <= Start(t, j) /\ Start(t, j) \in Nat
      BY <1>12, <3>1
    <3> QED
      BY <1>11, <3>2, <3>3
  <2>4. CASE i \notin DOMAIN s.pieces
    <3>1. PICK k \in 1 .. cuts : i = m + k
      BY <1>14, <2>4
    <3>2. j \notin DOMAIN s.pieces
      BY <1>1, <1>2, <2>1, <3>1
    <3>3. PICK l \in 1 .. cuts : j = m + l
      BY <1>14, <3>2
    <3>4. k < l
      BY <1>1, <1>2, <3>1, <3>3
    <3> QED
      BY <1>13, <3>1, <3>3, <3>4
  <2> QED
    BY <2>2, <2>3, <2>4
<1>17. PiecesFit(b, t)
  BY <1>1, <1>7, <1>15, <1>16 DEF PiecesFit
<1> QED
  BY <1>1, <1>17 DEF BufferFits, t

-----------------------------------------------------------------------------
\* What is heard

\* All before the beginning of the buffer was in a piece, in mode chunk in the one that its
\* place tells.
Covers(s, x, j) == s.pieces[j].from <= x /\ x < s.pieces[j].to
Covered(s, length) == \A x \in 0 .. length - 1 : \E j \in DOMAIN s.pieces : Covers(s, x, j)
InTurn(b, s) ==
  /\ s.base = Len(s.pieces) * b.step
  /\ \A j \in DOMAIN s.pieces : s.pieces[j].from = (j - 1) * b.step /\ s.pieces[j].to = j * b.step
HeardSoFar(b, s) == IF b.mode = "windowed" THEN Covered(s, s.base) ELSE InTurn(b, s)

LEMMA FeedHearsWindows ==
  ASSUME NEW b, Sized(b), NEW s, BufferFits(b, s), NEW frame \in Nat,
         frame <= b.win - b.step + 1, b.mode = "windowed", Covered(s, s.base)
  PROVE  /\ Covered(Feed(b, s, frame), Feed(b, s, frame).base)
         /\ Feed(b, s, frame).pieces # s.pieces
              => Covered(Feed(b, s, frame), Feed(b, s, frame).fed)
<1> DEFINE end  == s.fed + frame
           base == CutTo(b, s.base, end)
           cuts == Count(b, end - base)
           t    == Feed(b, s, frame)
           m    == Len(s.pieces)
<1>1. /\ end \in Nat /\ base \in Nat /\ base <= end
      /\ end <= s.base + b.win => base = s.base
      /\ t.fed = end /\ t.base = base + cuts * b.advance /\ BaseFits(b, t) /\ cuts \in Nat
      /\ t.pieces \in Seq(PieceRecord) /\ Len(t.pieces) = m + cuts
      /\ \A j \in DOMAIN s.pieces : j \in DOMAIN t.pieces /\ t.pieces[j] = s.pieces[j]
      /\ \A i \in 1 .. cuts :
           /\ m + i \in DOMAIN t.pieces
           /\ t.pieces[m + i] = Piece(b, base + (i - 1) * b.advance, end)
  BY FeedShape
<1>2. /\ s.fed \in Nat /\ s.base \in Nat /\ s.fed - s.base < b.step /\ s.pieces \in Seq(PieceRecord)
      /\ b.step \in Nat /\ b.win \in Nat /\ b.step <= b.win /\ b.advance \in Nat
  BY DEF BufferFits, BaseFits, PiecesFit, Sized
<1>3. end <= s.base + b.win
  BY <1>2
<1>4. base = s.base
  BY <1>1, <1>3
<1>5. t.base \in Nat /\ t.base <= end
  BY <1>1 DEF BaseFits
<1> HIDE DEF end, base, cuts, t, m
<1>6. \A x \in 0 .. s.base - 1 : \E j \in DOMAIN t.pieces : Covers(t, x, j)
  <2> SUFFICES ASSUME NEW x \in 0 .. s.base - 1 PROVE \E j \in DOMAIN t.pieces : Covers(t, x, j)
    OBVIOUS
  <2>1. PICK j \in DOMAIN s.pieces : Covers(s, x, j)
    BY DEF Covered
  <2> QED
    BY <1>1, <2>1 DEF Covers
<1>7. CASE cuts = 0
  <2>1. t.base = s.base
    BY <1>1, <1>2, <1>4, <1>7
  <2>2. t.pieces = s.pieces
    <3>1. Len(t.pieces) = Len(s.pieces)
      BY <1>1, <1>2, <1>7 DEF m
    <3>2. DOMAIN t.pieces = DOMAIN s.pieces
      BY <1>1, <1>2, <3>1
    <3> QED
      BY <1>1, <1>2, <3>1, <3>2
  <2> QED
    BY <1>6, <2>1, <2>2 DEF Covered, t
<1>8. CASE cuts # 0
  <2>1. 1 \in 1 .. cuts
    BY <1>1, <1>8
  <2>2. base + (1 - 1) * b.advance = base
    BY <1>1, <1>2
  <2>3. m + 1 \in DOMAIN t.pieces /\ t.pieces[m + 1] = Piece(b, base, end)
    BY <1>1, <2>1, <2>2
  <2>4. Larger(base, end - b.win) = s.base
    BY <1>1, <1>2, <1>3, <1>4 DEF Larger
  <2>5. t.pieces[m + 1].from = s.base /\ t.pieces[m + 1].to = end
    BY <2>3, <2>4 DEF Piece
  <2>6. \A x \in 0 .. end - 1 : \E j \in DOMAIN t.pieces : Covers(t, x, j)
    <3> SUFFICES ASSUME NEW x \in 0 .. end - 1 PROVE \E j \in DOMAIN t.pieces : Covers(t, x, j)
      OBVIOUS
    <3>1. CASE x < s.base
      <4>1. x \in 0 .. s.base - 1
        BY <1>1, <1>2, <3>1
      <4> QED
        BY <1>6, <4>1
    <3>2. CASE ~(x < s.base)
      <4>1. s.base <= x /\ x < end
        BY <1>1, <1>2, <3>2
      <4> QED
        BY <2>3, <2>5, <4>1 DEF Covers
    <3> QED
      BY <3>1, <3>2
  <2>7. \A x \in 0 .. t.base - 1 : x \in 0 .. end - 1
    BY <1>1, <1>5
  <2> QED
    BY <1>1, <2>6, <2>7 DEF Covered, t
<1> QED
  BY <1>7, <1>8

LEMMA FeedHearsChunks ==
  ASSUME NEW b, Sized(b), NEW s, BufferFits(b, s), NEW frame \in Nat,
         frame <= b.win - b.step + 1, b.mode # "windowed", InTurn(b, s)
  PROVE  InTurn(b, Feed(b, s, frame))
<1> DEFINE end  == s.fed + frame
           base == CutTo(b, s.base, end)
           cuts == Count(b, end - base)
           t    == Feed(b, s, frame)
           m    == Len(s.pieces)
           d    == b.step
<1>1. /\ end \in Nat /\ end <= s.base + b.win => base = s.base
      /\ t.base = base + cuts * b.advance /\ cuts \in Nat
      /\ t.pieces \in Seq(PieceRecord) /\ Len(t.pieces) = m + cuts
      /\ \A j \in DOMAIN s.pieces : t.pieces[j] = s.pieces[j]
      /\ \A j \in DOMAIN t.pieces : j \in DOMAIN s.pieces \/ j - m \in 1 .. cuts
      /\ \A i \in 1 .. cuts : /\ (i - 1) * b.advance \in Nat
                              /\ t.pieces[m + i] = Piece(b, base + (i - 1) * b.advance, end)
  BY FeedShape
<1>2. /\ s.fed \in Nat /\ s.base \in Nat /\ s.fed - s.base < d /\ m \in Nat
      /\ d \in Nat /\ b.win \in Nat /\ d <= b.win /\ b.advance = d
  BY DEF BufferFits, BaseFits, PiecesFit, Sized
<1>3. base = s.base
  BY <1>1, <1>2
<1>4. s.base = m * d
  BY DEF InTurn
<1> HIDE DEF end, base, cuts, t, m, d
<1>5. t.base = Len(t.pieces) * d
  <2>1. (m + cuts) * d = m * d + cuts * d
    BY <1>1, <1>2
  <2> QED
    BY <1>1, <1>2, <1>3, <1>4, <2>1
<1>6. ASSUME NEW j \in DOMAIN t.pieces
      PROVE  t.pieces[j].from = (j - 1) * d /\ t.pieces[j].to = j * d
  <2>1. CASE j \in DOMAIN s.pieces
    BY <1>1, <2>1 DEF InTurn, d
  <2>2. CASE j - m \in 1 .. cuts
    <3> DEFINE i == j - m
    <3>1. j \in Nat
      <4>1. DOMAIN t.pieces = 1 .. Len(t.pieces) /\ Len(t.pieces) \in Nat
        BY <1>1
      <4> QED
        BY <4>1
    <3>2. i \in 1 .. cuts /\ j = m + i /\ i - 1 \in Nat /\ i \in Nat
      <4>1. cuts \in Nat /\ m \in Nat
        BY <1>1, <1>2
      <4> QED
        BY <2>2, <3>1, <4>1
    <3> HIDE DEF i
    <3>3. t.pieces[j] = Piece(b, base + (i - 1) * d, end)
      BY <1>1, <1>2, <3>2
    <3>4. t.pieces[j].from = base + (i - 1) * d /\ t.pieces[j].to = base + (i - 1) * d + d
      BY <3>3 DEF Piece, d
    <3>5. (j - 1) * d = m * d + (i - 1) * d /\ j * d = m * d + (i - 1) * d + d
      BY <1>2, <3>1, <3>2
    <3> QED
      BY <1>3, <1>4, <3>4, <3>5
  <2> QED
    BY <1>1, <2>1, <2>2
<1> QED
  BY <1>5, <1>6 DEF InTurn, t, d

LEMMA FeedHears ==
  ASSUME NEW b, Sized(b), NEW s, BufferFits(b, s), NEW frame \in Nat,
         frame <= b.win - b.step + 1, HeardSoFar(b, s)
  PROVE  HeardSoFar(b, Feed(b, s, frame))
BY FeedHearsWindows, FeedHearsChunks DEF HeardSoFar

-----------------------------------------------------------------------------
\* All messages of a stream

LEMMA Fed ==
  ASSUME NEW b, NEW frames, Len(frames) \in Nat
  PROVE  \E g : /\ g[0] = Empty /\ FeedAll(b, frames) = g[Len(frames)]
                /\ \A i \in 1 .. Len(frames) : g[i] = Feed(b, g[i - 1], frames[i])
<1> DEFINE size == Len(frames)
           P(g) == g = [i \in 0 .. size |-> IF i = 0 THEN Empty ELSE Feed(b, g[i - 1], frames[i])]
           Q(k, f) == f = [i \in 0 .. k |-> IF i = 0 THEN Empty ELSE Feed(b, f[i - 1], frames[i])]
           S == {k \in Nat : \E f : Q(k, f)}
<1>1. 0 \in S
  <2> DEFINE f == [i \in 0 .. 0 |-> Empty]
  <2>1. Q(0, f)
    OBVIOUS
  <2> HIDE DEF Q, f
  <2> QED
    BY <2>1
<1>2. ASSUME NEW k \in Nat, k \in S PROVE k + 1 \in S
  <2>1. PICK f : Q(k, f)
    BY <1>2
  <2> DEFINE h == [i \in 0 .. k + 1 |-> IF i <= k THEN f[i] ELSE Feed(b, f[k], frames[k + 1])]
             r(i) == IF i = 0 THEN Empty ELSE Feed(b, h[i - 1], frames[i])
  <2>2. \A i \in 0 .. k : h[i] = f[i]
    OBVIOUS
  <2>3. h[k + 1] = Feed(b, f[k], frames[k + 1])
    OBVIOUS
  <2>4. \A i \in 0 .. k : f[i] = IF i = 0 THEN Empty ELSE Feed(b, f[i - 1], frames[i])
    BY <2>1
  <2>5. DOMAIN h = 0 .. k + 1 /\ h = [i \in 0 .. k + 1 |-> h[i]]
    OBVIOUS
  <2> HIDE DEF h
  <2>6. \A i \in 0 .. k + 1 : h[i] = r(i)
    <3> SUFFICES ASSUME NEW i \in 0 .. k + 1 PROVE h[i] = r(i)
      OBVIOUS
    <3>1. CASE i = 0
      <4>1. h[0] = f[0] /\ f[0] = Empty
        BY <2>2, <2>4
      <4> QED
        BY <3>1, <4>1
    <3>2. CASE i # 0 /\ i <= k
      <4>1. i \in 0 .. k /\ i - 1 \in 0 .. k
        BY <3>2
      <4>2. h[i] = f[i] /\ h[i - 1] = f[i - 1] /\ f[i] = Feed(b, f[i - 1], frames[i])
        BY <2>2, <2>4, <3>2, <4>1
      <4> QED
        BY <3>2, <4>2
    <3>3. CASE i = k + 1
      <4>1. h[k] = f[k] /\ (k + 1) - 1 = k /\ k + 1 # 0
        BY <2>2
      <4> QED
        BY <2>3, <3>3, <4>1
    <3> QED
      BY <3>1, <3>2, <3>3
  <2>7. h = [i \in 0 .. k + 1 |-> r(i)]
    BY <2>5, <2>6
  <2>8. Q(k + 1, h)
    BY <2>7
  <2> HIDE DEF Q
  <2> QED
    BY <2>8
<1>3. size \in S
  BY <1>1, <1>2, Inductive
<1>4. \E f : P(f)
  BY <1>3
<1>5. FeedAll(b, frames) = (CHOOSE g : P(g))[size]
  BY DEF FeedAll
<1>6. P(CHOOSE g : P(g))
  <2> HIDE DEF P
  <2> QED
    BY <1>4
<1>7. PICK g : P(g) /\ FeedAll(b, frames) = g[size]
  BY <1>5, <1>6
<1>8. \A i \in 0 .. size : g[i] = IF i = 0 THEN Empty ELSE Feed(b, g[i - 1], frames[i])
  BY <1>7
<1>9. g[0] = Empty
  BY <1>8
<1>10. \A i \in 1 .. size : g[i] = Feed(b, g[i - 1], frames[i])
  BY <1>8
<1> QED
  BY <1>7, <1>9, <1>10

\* Whatever the messages are, the buffer is as above; all is heard when no frame is too large.
LEMMA FedFits ==
  ASSUME NEW b, Sized(b), NEW frames, Len(frames) \in Nat,
         \A i \in 1 .. Len(frames) : frames[i] \in Nat
  PROVE  /\ BufferFits(b, FeedAll(b, frames))
         /\ (\A i \in 1 .. Len(frames) : frames[i] <= b.win - b.step + 1)
              => HeardSoFar(b, FeedAll(b, frames))
<1> DEFINE size == Len(frames)
           Fine == \A i \in 1 .. size : frames[i] <= b.win - b.step + 1
<1>1. PICK g : /\ g[0] = Empty /\ FeedAll(b, frames) = g[size]
               /\ \A i \in 1 .. size : g[i] = Feed(b, g[i - 1], frames[i])
  BY Fed
<1> DEFINE S == {k \in Nat : k <= size => BufferFits(b, g[k]) /\ (Fine => HeardSoFar(b, g[k]))}
<1>2. 0 \in S
  <2>1. Empty.fed = 0 /\ Empty.base = 0 /\ Empty.pieces = <<>>
    BY DEF Empty
  <2>2. b.step \in Nat /\ b.step > 0 /\ b.advance \in Nat
    BY DEF Sized
  <2>3. BaseFits(b, Empty)
    BY <2>1, <2>2 DEF BaseFits
  <2>4. Len(Empty.pieces) = 0 /\ DOMAIN Empty.pieces = {} /\ Empty.pieces \in Seq(PieceRecord)
    BY <2>1
  <2>5. 0 * b.advance = 0 /\ 0 * b.step = 0
    BY <2>2
  <2>6. PiecesFit(b, Empty)
    BY <2>1, <2>4, <2>5 DEF PiecesFit
  <2>7. HeardSoFar(b, Empty)
    BY <2>1, <2>4, <2>5 DEF HeardSoFar, Covered, InTurn
  <2> QED
    BY <1>1, <2>3, <2>6, <2>7 DEF BufferFits
<1>3. ASSUME NEW k \in Nat, k \in S PROVE k + 1 \in S
  <2> SUFFICES ASSUME k + 1 <= size
               PROVE  BufferFits(b, g[k + 1]) /\ (Fine => HeardSoFar(b, g[k + 1]))
    OBVIOUS
  <2>1. k + 1 \in 1 .. size /\ (k + 1) - 1 = k /\ k <= size
    OBVIOUS
  <2>2. g[k + 1] = Feed(b, g[k], frames[k + 1]) /\ frames[k + 1] \in Nat
    BY <1>1, <2>1
  <2>3. BufferFits(b, g[k]) /\ (Fine => HeardSoFar(b, g[k]))
    BY <1>3, <2>1
  <2>4. Fine => frames[k + 1] <= b.win - b.step + 1
    BY <2>1
  <2> QED
    BY <2>2, <2>3, <2>4, FeedFits, FeedHears
<1>4. size \in S
  BY <1>2, <1>3, Inductive
<1> QED
  BY <1>1, <1>4

\* The tail is a piece of its own, or was in one.
TailShape(b, s, t) ==
  /\ t.fed = s.fed /\ t.base = s.base
  /\ \/ t.pieces = s.pieces
     \/ /\ b.mode = "windowed" /\ s.base < s.fed
        /\ t.pieces = Append(s.pieces, [from |-> s.base, to |-> s.fed, at |-> s.fed])
LEMMA FlushShape ==
  ASSUME NEW b, Sized(b), NEW s, BufferFits(b, s), NEW frame \in Nat
  PROVE  /\ TailShape(b, Feed(b, s, frame), Flush(b, s, frame))
         /\ b.mode = "windowed" /\ Feed(b, s, frame).base < Feed(b, s, frame).fed
            /\ Feed(b, s, frame).pieces = s.pieces
              => Flush(b, s, frame).pieces # Feed(b, s, frame).pieces
<1> DEFINE t == Feed(b, s, frame)
           p == [from |-> t.base, to |-> t.fed, at |-> t.fed]
<1>1. BaseFits(b, t) /\ t.pieces \in Seq(PieceRecord)
  BY FeedFits DEF BufferFits, PiecesFit
<1>2. t.base \in Nat /\ t.fed \in Nat
  BY <1>1 DEF BaseFits
<1>3. t = [fed |-> t.fed, base |-> t.base, pieces |-> t.pieces]
  BY DEF Feed
<1>4. Flush(b, s, frame) = IF t.pieces = s.pieces /\ b.mode = "windowed" /\ t.fed > t.base
                           THEN [t EXCEPT !.pieces = Append(t.pieces, p)] ELSE t
  BY DEF Flush
<1> HIDE DEF t
<1>5. /\ [t EXCEPT !.pieces = Append(t.pieces, p)].fed = t.fed
      /\ [t EXCEPT !.pieces = Append(t.pieces, p)].base = t.base
      /\ [t EXCEPT !.pieces = Append(t.pieces, p)].pieces = Append(t.pieces, p)
  BY <1>3
<1>6. p \in PieceRecord
  BY <1>2 DEF PieceRecord
<1>7. Append(t.pieces, p) # t.pieces
  <2>1. Len(Append(t.pieces, p)) = Len(t.pieces) + 1 /\ Len(t.pieces) \in Nat
    BY <1>1, <1>6
  <2> QED
    BY <2>1
<1>8. CASE t.pieces = s.pieces /\ b.mode = "windowed" /\ t.fed > t.base
  <2>1. Flush(b, s, frame) = [t EXCEPT !.pieces = Append(t.pieces, p)]
    BY <1>4, <1>8
  <2>2. t.base < t.fed
    BY <1>2, <1>8
  <2>3. TailShape(b, t, Flush(b, s, frame))
    BY <1>5, <1>8, <2>1, <2>2 DEF TailShape
  <2> QED
    BY <1>5, <1>7, <2>1, <2>3 DEF t
<1>9. CASE ~(t.pieces = s.pieces /\ b.mode = "windowed" /\ t.fed > t.base)
  <2>1. Flush(b, s, frame) = t
    BY <1>4, <1>9
  <2>2. ~(t.pieces = s.pieces /\ b.mode = "windowed" /\ t.base < t.fed)
    BY <1>2, <1>9
  <2> QED
    BY <2>1, <2>2 DEF TailShape, t
<1> QED
  BY <1>8, <1>9

\* A session whose frames fit is heard.
LEMMA SessionHeard ==
  ASSUME NEW c \in Settings, NEW s, BufferFits(Build(c), s), HeardSoFar(Build(c), s),
         NEW frame \in Nat, frame <= Build(c).win - Build(c).step + 1
  PROVE  Heard(c, Flush(Build(c), s, frame))
<1> DEFINE b == Build(c)
           t == Feed(b, s, frame)
           u == Flush(b, s, frame)
<1>1. Sized(b) /\ b.mode = c.mode
  BY BuildSized
<1>2. BufferFits(b, t) /\ HeardSoFar(b, t)
  BY <1>1, FeedFits, FeedHears
<1>3. /\ TailShape(b, t, u)
      /\ (b.mode = "windowed" /\ t.base < t.fed /\ t.pieces = s.pieces) => u.pieces # t.pieces
  BY <1>1, FlushShape
<1>4. /\ t.fed \in Nat /\ t.base \in Nat /\ t.base <= t.fed /\ t.fed - t.base < b.step
      /\ t.pieces \in Seq(PieceRecord) /\ Len(t.pieces) \in Nat
      /\ DOMAIN t.pieces = 1 .. Len(t.pieces) /\ b.step \in Nat
  BY <1>1, <1>2 DEF BufferFits, BaseFits, PiecesFit, Sized
<1>5. CASE c.mode = "windowed"
  <2>1. Covered(t, t.base)
    BY <1>1, <1>2, <1>5 DEF HeardSoFar
  <2>2. t.pieces # s.pieces => Covered(t, t.fed)
    BY <1>1, <1>5, FeedHearsWindows DEF HeardSoFar
  <2> HIDE DEF t, u, b
  <2>3. Covered(u, t.fed)
    <3>1. CASE u.pieces = t.pieces
      <4>1. CASE t.pieces # s.pieces
        BY <2>2, <3>1, <4>1 DEF Covered, Covers
      <4>2. CASE t.pieces = s.pieces
        <5>1. t.base = t.fed
          BY <1>1, <1>3, <1>4, <1>5, <3>1, <4>2
        <5> QED
          BY <2>1, <3>1, <5>1 DEF Covered, Covers
      <4> QED
        BY <4>1, <4>2
    <3>2. CASE u.pieces # t.pieces
      <4> DEFINE p == [from |-> t.base, to |-> t.fed, at |-> t.fed]
                 m == Len(t.pieces)
      <4>1. u.pieces = Append(t.pieces, p)
        BY <1>3, <3>2 DEF TailShape
      <4>2. p \in PieceRecord /\ p.from = t.base /\ p.to = t.fed
        BY <1>4 DEF PieceRecord
      <4> HIDE DEF p
      <4>3. /\ m + 1 \in DOMAIN u.pieces /\ u.pieces[m + 1] = p
            /\ \A j \in DOMAIN t.pieces : j \in DOMAIN u.pieces /\ u.pieces[j] = t.pieces[j]
        BY <1>4, <4>1, <4>2
      <4> SUFFICES ASSUME NEW x \in 0 .. t.fed - 1
                   PROVE  \E j \in DOMAIN u.pieces : Covers(u, x, j)
        BY DEF Covered
      <4>4. CASE x < t.base
        <5>1. x \in 0 .. t.base - 1
          BY <1>4, <4>4
        <5>2. PICK j \in DOMAIN t.pieces : Covers(t, x, j)
          BY <2>1, <5>1 DEF Covered
        <5> QED
          BY <4>3, <5>2 DEF Covers
      <4>5. CASE ~(x < t.base)
        <5>1. t.base <= x /\ x < t.fed
          BY <1>4, <4>5
        <5> QED
          BY <4>2, <4>3, <5>1 DEF Covers
      <4> QED
        BY <4>4, <4>5
    <3> QED
      BY <3>1, <3>2
  <2>4. u.fed = t.fed
    BY <1>3 DEF TailShape
  <2>5. Heard(c, u)
    BY <1>5, <2>3, <2>4 DEF Heard, Covered, Covers
  <2> QED
    BY <2>5 DEF u, b
<1>6. CASE c.mode # "windowed"
  <2>1. InTurn(b, t)
    BY <1>1, <1>2, <1>6 DEF HeardSoFar
  <2>2. u.pieces = t.pieces /\ u.fed = t.fed /\ u.base = t.base
    BY <1>1, <1>3, <1>6 DEF TailShape
  <2> DEFINE d == b.step
             m == Len(t.pieces)
  <2>3. d \in Nat \ {0}
    BY <1>1 DEF Sized
  <2>4. t.base = m * d /\ \A j \in 1 .. m : t.pieces[j].from = (j - 1) * d /\ t.pieces[j].to = j * d
    BY <1>4, <2>1 DEF InTurn
  <2> HIDE DEF t, u, d, m
  <2>5. ASSUME NEW x \in 0 .. t.base - 1
        PROVE  \E i \in 1 .. m : \A j \in 1 .. m : Covers(t, x, j) <=> j = i
    <3> DEFINE i == x \div d + 1
    <3>1. x \in Nat /\ x < m * d
      BY <1>4, <2>4
    <3>2. x \div d \in Nat /\ (x \div d) * d <= x /\ x < (x \div d) * d + d
      BY <2>3, <3>1, Quotient
    <3>3. i \in Nat /\ i - 1 \in Nat /\ (i - 1) * d <= x /\ x < i * d
      <4>1. i * d = (x \div d) * d + d /\ i - 1 = x \div d
        BY <2>3, <3>2, Multiples
      <4> QED
        BY <3>2, <4>1
    <3> HIDE DEF i
    <3>4. ASSUME NEW j \in Nat, NEW k \in Nat, (j - 1) * d <= x, j # 0, x < k * d PROVE j <= k
      <4> SUFFICES ASSUME k < j PROVE FALSE
        BY <3>4
      <4>1. k <= j - 1 /\ j - 1 \in Nat
        BY <3>4
      <4>2. k * d <= (j - 1) * d /\ k * d \in Nat /\ (j - 1) * d \in Nat
        BY <2>3, <4>1, Multiples
      <4> QED
        BY <3>1, <3>4, <4>2
    <3>5. m \in Nat /\ i # 0
      BY <1>4, <3>3 DEF m
    <3>6. i \in 1 .. m
      BY <3>1, <3>3, <3>4, <3>5
    <3>7. \A j \in 1 .. m : (Covers(t, x, j) <=> j = i)
      <4> SUFFICES ASSUME NEW j \in 1 .. m PROVE Covers(t, x, j) <=> j = i
        OBVIOUS
      <4>1. j \in Nat /\ j # 0 /\ (Covers(t, x, j) <=> (j - 1) * d <= x /\ x < j * d)
        BY <2>4, <3>5 DEF Covers
      <4>2. Covers(t, x, j) => i <= j /\ j <= i
        BY <3>3, <3>4, <3>5, <4>1
      <4>3. Covers(t, x, i)
        BY <2>4, <3>3, <3>6 DEF Covers
      <4> QED
        BY <3>3, <4>1, <4>2, <4>3
    <3> QED
      BY <3>6, <3>7
  <2>6. u.fed - u.base < Build(c).step
    BY <1>4, <2>2 DEF b
  <2>7. ASSUME NEW x \in 0 .. u.base - 1
        PROVE  LET In == {i \in DOMAIN u.pieces : u.pieces[i].from <= x /\ x < u.pieces[i].to}
               IN  \E i \in In : In = {i}
    <3>1. PICK i \in 1 .. m : \A j \in 1 .. m : Covers(t, x, j) <=> j = i
      BY <2>2, <2>5
    <3>2. DOMAIN u.pieces = 1 .. m
      BY <1>4, <2>2 DEF m
    <3>3. \A j \in 1 .. m : (u.pieces[j].from <= x /\ x < u.pieces[j].to) <=> j = i
      BY <2>2, <3>1 DEF Covers
    <3> QED
      BY <3>2, <3>3
  <2>8. Heard(c, u)
    BY <1>6, <2>6, <2>7 DEF Heard
  <2> QED
    BY <2>8 DEF u, b
<1> QED
  BY <1>5, <1>6

\* A stream of the table is the frames of the messages and the last one.
LEMMA MessagesOf ==
  ASSUME NEW m \in 0 .. MaxFrames, NEW stream \in Streams(m)
  PROVE  /\ m \in Nat /\ Len(Front(stream)) = m /\ DOMAIN stream = 1 .. m + 1
         /\ Last(stream) = stream[m + 1] /\ Last(stream) \in Nat
         /\ \A i \in 1 .. m : Front(stream)[i] = stream[i] /\ Front(stream)[i] \in Nat
<1>1. m \in Nat /\ FrameSizes \subseteq Nat
  BY RealtimeBounds
<1>2. stream \in [1 .. m + 1 -> FrameSizes]
  BY DEF Streams
<1>3. stream \in Seq(FrameSizes) /\ Len(stream) = m + 1
  BY <1>1, <1>2
<1>4. Front(stream) = SubSeq(stream, 1, m) /\ Last(stream) = stream[m + 1]
  BY <1>1, <1>3 DEF Front, Last
<1>5. Len(Front(stream)) = m /\ \A i \in 1 .. m : Front(stream)[i] = stream[i]
  BY <1>1, <1>3, <1>4
<1>6. \A i \in 1 .. m + 1 : stream[i] \in Nat
  BY <1>1, <1>2
<1> QED
  BY <1>1, <1>2, <1>4, <1>5, <1>6

\* All of a stream of the table is heard.
LEMMA AllIsHeard == \A m \in 0 .. MaxFrames : Unheard[m] = {}
<1> TAKE m \in 0 .. MaxFrames
<1> SUFFICES ASSUME NEW stream \in Streams(m), NEW c \in Settings, Fits(c, stream)
             PROVE  Heard(c, Session(c, stream))
  <2>1. Unheard[m] = {stream \in Streams(m) : \E c \in Settings :
                        Fits(c, stream) /\ ~Heard(c, Session(c, stream))}
    BY DEF Unheard
  <2> QED
    BY <2>1
<1> DEFINE b == Build(c)
<1>1. /\ m \in Nat /\ Len(Front(stream)) = m /\ DOMAIN stream = 1 .. m + 1
      /\ Last(stream) = stream[m + 1] /\ Last(stream) \in Nat
      /\ \A i \in 1 .. m : Front(stream)[i] = stream[i] /\ Front(stream)[i] \in Nat
  BY MessagesOf
<1>2. \A i \in 1 .. m + 1 : stream[i] <= b.win - b.step + 1
  BY <1>1 DEF Fits
<1>3. /\ \A i \in 1 .. m : Front(stream)[i] <= b.win - b.step + 1
      /\ Last(stream) <= b.win - b.step + 1
  BY <1>1, <1>2
<1> HIDE DEF b
<1>4. Sized(b)
  BY BuildSized DEF b
<1>5. BufferFits(b, FeedAll(b, Front(stream))) /\ HeardSoFar(b, FeedAll(b, Front(stream)))
  BY <1>1, <1>3, <1>4, FedFits
<1> QED
  BY <1>1, <1>3, <1>5, SessionHeard DEF Session, b

-----------------------------------------------------------------------------
\* What is kept

LEMMA Selected ==
  ASSUME NEW size \in Nat, NEW seq, DOMAIN seq = 1 .. size, NEW S \in SUBSET (1 .. size)
  PROVE  /\ Cardinality(S) \in Nat /\ DOMAIN At(seq, S) = 1 .. Cardinality(S)
         /\ Len(At(seq, S)) = Cardinality(S)
         /\ \A k \in 1 .. Cardinality(S) : At(seq, S)[k] = seq[Ascending(S)[k]]
<1> DEFINE N == Cardinality(S)
           T == {seq[i] : i \in 1 .. size}
<1>1. /\ N \in Nat /\ DOMAIN Ascending(S) = 1 .. N
      /\ \A i \in 1 .. N : Ascending(S)[i] \in S
  BY AscendsInOrder
<1> HIDE DEF N
<1>2. At(seq, S) = [k \in 1 .. N |-> seq[Ascending(S)[k]]]
  BY <1>1 DEF At
<1>3. \A k \in 1 .. N : seq[Ascending(S)[k]] \in T
  BY <1>1
<1> HIDE DEF T
<1>4. At(seq, S) \in [1 .. N -> T]
  BY <1>2, <1>3
<1>5. Len(At(seq, S)) = N
  BY <1>1, <1>4
<1> QED
  BY <1>1, <1>2, <1>5 DEF N

\* The pieces of a stream, with the tail.
Ordered(b, s) ==
  /\ s.pieces \in Seq(PieceRecord)
  /\ \A j \in DOMAIN s.pieces : (j - 1) * b.advance < s.pieces[j].at /\ Start(s, j) \in Nat
  /\ \A i, j \in DOMAIN s.pieces : i < j => Start(s, i) <= Start(s, j)
LEMMA FlushOrdered ==
  ASSUME NEW b, Sized(b), NEW s, BufferFits(b, s), NEW frame \in Nat
  PROVE  Ordered(b, Flush(b, s, frame))
<1> DEFINE t == Feed(b, s, frame)
           u == Flush(b, s, frame)
           m == Len(t.pieces)
<1>1. BufferFits(b, t) /\ TailShape(b, t, u)
  BY FeedFits, FlushShape
<1> HIDE DEF t, u
<1>2. /\ t.fed \in Nat /\ t.base \in Nat /\ t.base <= t.fed
      /\ t.pieces \in Seq(PieceRecord) /\ m \in Nat /\ DOMAIN t.pieces = 1 .. m
      /\ m * b.advance <= t.base
  BY <1>1 DEF BufferFits, BaseFits, PiecesFit
<1>3. ASSUME NEW j \in DOMAIN t.pieces
      PROVE  /\ (j - 1) * b.advance < t.pieces[j].at
             /\ Start(t, j) \in Nat /\ Start(t, j) <= Latest(b, t)
  <2>1. PieceFits(b, t, j) /\ Start(t, j) <= Latest(b, t) /\ t.pieces[j] \in PieceRecord
    BY <1>1, <1>2 DEF BufferFits, PiecesFit
  <2> DEFINE p == t.pieces[j]
  <2>2. p.at - (p.to - p.from) \in Int /\ Start(t, j) = Larger(0, p.at - (p.to - p.from))
    BY <2>1 DEF Start, Bounds, PieceRecord
  <2>3. Start(t, j) \in Nat
    BY <2>2 DEF Larger
  <2> QED
    BY <2>1, <2>3 DEF PieceFits
<1>4. \A i, j \in DOMAIN t.pieces : i < j => Start(t, i) <= Start(t, j)
  BY <1>1 DEF BufferFits, PiecesFit
<1>5. CASE u.pieces = t.pieces
  BY <1>2, <1>3, <1>4, <1>5 DEF Ordered, Start, u
<1>6. CASE u.pieces # t.pieces
  <2> DEFINE p == [from |-> t.base, to |-> t.fed, at |-> t.fed]
  <2>1. b.mode = "windowed" /\ t.base < t.fed /\ u.pieces = Append(t.pieces, p)
    BY <1>1, <1>6 DEF TailShape
  <2>2. p \in PieceRecord /\ p.at = t.fed
    BY <1>2 DEF PieceRecord
  <2>3. Bounds(p).start = t.base
    <3>1. Bounds(p).start = Larger(0, t.fed - (t.fed - t.base))
      BY DEF Bounds
    <3> QED
      BY <1>2, <3>1 DEF Larger
  <2> HIDE DEF p
  <2>4. /\ u.pieces \in Seq(PieceRecord) /\ DOMAIN u.pieces = 1 .. m + 1 /\ u.pieces[m + 1] = p
        /\ \A j \in 1 .. m : j \in DOMAIN t.pieces /\ u.pieces[j] = t.pieces[j]
    BY <1>2, <2>1, <2>2
  <2>5. \A j \in 1 .. m : Start(u, j) = Start(t, j)
    BY <2>4 DEF Start
  <2>6. Start(u, m + 1) = t.base
    BY <2>3, <2>4 DEF Start
  <2>7. (m + 1) - 1 = m /\ m * b.advance \in Nat
    BY <1>2, Multiples DEF Sized
  <2>8. m * b.advance < t.fed
    BY <1>2, <2>1, <2>7
  <2>9. \A j \in 1 .. m + 1 : j \in 1 .. m \/ j = m + 1
    BY <1>2
  <2>10. ASSUME NEW j \in 1 .. m + 1
         PROVE  (j - 1) * b.advance < u.pieces[j].at /\ Start(u, j) \in Nat
    <3>1. CASE j \in 1 .. m
      BY <1>3, <2>4, <2>5, <3>1
    <3>2. CASE j = m + 1
      BY <1>2, <2>2, <2>4, <2>6, <2>7, <2>8, <3>2
    <3> QED
      BY <2>9, <3>1, <3>2
  <2>11. ASSUME NEW i \in 1 .. m + 1, NEW j \in 1 .. m + 1, i < j
         PROVE  Start(u, i) <= Start(u, j)
    <3>1. i \in 1 .. m
      BY <1>2, <2>11
    <3>2. CASE j \in 1 .. m
      BY <1>4, <2>4, <2>5, <2>11, <3>1, <3>2
    <3>3. CASE j = m + 1
      <4>1. Latest(b, t) = t.base
        BY <2>1 DEF Latest
      <4> QED
        BY <1>3, <2>4, <2>5, <2>6, <3>1, <3>3, <4>1
    <3> QED
      BY <2>9, <3>2, <3>3
  <2>12. Ordered(b, u)
    BY <2>4, <2>10, <2>11 DEF Ordered
  <2> QED
    BY <2>12 DEF u
<1> QED
  BY <1>5, <1>6

\* The merge does not advance faster than the buffer.
LEMMA MergeKeepsUp ==
  ASSUME NEW c \in Settings, RoomToStep(c)
  PROVE  Advance(c) \in Nat /\ Build(c).advance \in Nat /\ Advance(c) <= Build(c).advance
<1>1. /\ c.chunk \in Nat /\ c.overlap \in Nat /\ c.window \in Nat /\ TimeFloor <= c.chunk
      /\ TimeFloor \in Nat \ {0} /\ ByteFloor \in Nat \ {0}
  BY SettingsFit
<1>2. Step(c) \in Nat /\ c.chunk <= Step(c)
  BY <1>1 DEF Step, Larger
<1>3. Build(c).advance = IF c.mode = "windowed" THEN Larger(ByteFloor, Step(c) - c.overlap)
                                                ELSE Step(c)
  BY DEF Build
<1>4. Build(c).advance \in Nat /\ Step(c) - c.overlap <= Build(c).advance
  BY <1>1, <1>2, <1>3 DEF Larger
<1>5. CASE c.mode = "windowed"
  <2>1. TimeFloor <= c.chunk - c.overlap
    BY <1>1, <1>5 DEF RoomToStep
  <2>2. Advance(c) = c.chunk - c.overlap
    BY <1>1, <2>1 DEF Advance, Larger
  <2> QED
    BY <1>1, <1>2, <1>4, <2>1, <2>2
<1>6. CASE c.mode # "windowed"
  BY <1>1, <1>2, <1>3, <1>6 DEF Advance, Larger
<1> QED
  BY <1>5, <1>6

\* No entry is dropped, and their order stays.
LEMMA PiecesKept ==
  ASSUME NEW c \in Settings, RoomToStep(c), NEW s, Ordered(Build(c), s),
         NEW texted \in SUBSET DOMAIN s.pieces
  PROVE  Kept(c, Entries(s.pieces, texted))
<1> DEFINE b == Build(c)
           A == Advance(c)
           all == [i \in DOMAIN s.pieces |-> Bounds(s.pieces[i])]
           e == Entries(s.pieces, texted)
           N == Cardinality(texted)
           at(k) == Ascending(texted)[k]
           m == Len(s.pieces)
<1>1. A \in Nat /\ b.advance \in Nat /\ A <= b.advance
  BY MergeKeepsUp
<1>2. s.pieces \in Seq(PieceRecord) /\ m \in Nat /\ DOMAIN s.pieces = 1 .. m
  BY DEF Ordered
<1>3. texted \in SUBSET (1 .. m)
  BY <1>2
<1>4. /\ N \in Nat /\ \A k \in 1 .. N : at(k) \in texted /\ k <= at(k)
      /\ \A i, j \in 1 .. N : i < j => at(i) < at(j)
  BY <1>2, <1>3, AscendsInOrder
<1>5. e = At(all, texted) /\ DOMAIN all = 1 .. m
  BY <1>2 DEF Entries
<1> HIDE DEF all
<1>6. /\ DOMAIN e = 1 .. N /\ Len(e) = N /\ \A k \in 1 .. N : e[k] = all[at(k)]
  BY <1>2, <1>3, <1>5, Selected
<1>7. \A k \in 1 .. N : e[k] = Bounds(s.pieces[at(k)]) /\ at(k) \in DOMAIN s.pieces
  BY <1>4, <1>6 DEF all
<1> HIDE DEF e, N, at, A, b, m
<1>8. ASSUME NEW k \in 1 .. N
      PROVE  /\ (k - 1) * A < e[k].end /\ e[k].start \in Nat /\ (k - 1) * A \in Nat
             /\ ~Dropped(c, e, k)
  <2> DEFINE j == at(k)
             p == s.pieces[j]
  <2>1. j \in DOMAIN s.pieces /\ k <= j /\ j \in Nat /\ j - 1 \in Nat /\ k - 1 \in Nat
    BY <1>2, <1>4, <1>7
  <2>2. p \in PieceRecord /\ (j - 1) * b.advance < p.at /\ Start(s, j) \in Nat
    BY <1>2, <2>1 DEF Ordered, b
  <2>3. e[k].end = p.at /\ e[k].start = Start(s, j)
    <3>1. e[k] = Bounds(p)
      BY <1>7
    <3>2. Bounds(p).end = p.at
      BY DEF Bounds
    <3> QED
      BY <3>1, <3>2 DEF Start
  <2> HIDE DEF j, p
  <2>4. (k - 1) * A <= (k - 1) * b.advance /\ (k - 1) * A \in Nat
    <3>1. \A x \in Nat : x * A \in Nat /\ x * A <= x * b.advance
      BY <1>1
    <3> QED
      BY <2>1, <3>1
  <2>5. (k - 1) * b.advance <= (j - 1) * b.advance /\ (j - 1) * b.advance \in Nat
        /\ (k - 1) * b.advance \in Nat
    <3>1. k - 1 <= j - 1
      BY <2>1
    <3> QED
      BY <1>1, <2>1, <3>1, Multiples
  <2>6. (k - 1) * A < e[k].end /\ e[k].end \in Nat
    <3> DEFINE x == (k - 1) * A
               y == (k - 1) * b.advance
               z == (j - 1) * b.advance
    <3>1. x \in Nat /\ y \in Nat /\ z \in Nat /\ x <= y /\ y <= z /\ z < p.at /\ p.at \in Nat
      BY <2>2, <2>4, <2>5 DEF PieceRecord
    <3> HIDE DEF x, y, z
    <3>2. x < p.at
      BY <3>1
    <3> QED
      BY <2>3, <3>1, <3>2 DEF x
  <2>7. ~(e[k].end <= (k - 1) * A)
    BY <2>4, <2>6
  <2> QED
    BY <2>2, <2>3, <2>4, <2>6, <2>7 DEF Dropped, A
<1>9. \A i, j \in 1 .. N : i < j => e[i].start <= e[j].start
  <2> SUFFICES ASSUME NEW i \in 1 .. N, NEW j \in 1 .. N, i < j PROVE e[i].start <= e[j].start
    OBVIOUS
  <2>1. at(i) < at(j) /\ at(i) \in DOMAIN s.pieces /\ at(j) \in DOMAIN s.pieces
    BY <1>4, <1>7
  <2>2. Start(s, at(i)) <= Start(s, at(j))
    BY <2>1 DEF Ordered
  <2> QED
    BY <1>7, <2>2 DEF Start
<1> DEFINE g == [i \in DOMAIN e |-> Segment(c, e, i)]
           w == Merge(c, e)
<1>10. w = At(g, 1 .. N) /\ DOMAIN g = 1 .. N
  <2>1. {i \in DOMAIN e : ~Dropped(c, e, i)} = 1 .. N
    BY <1>6, <1>8
  <2> QED
    BY <1>6, <2>1 DEF Merge
<1>11. Cardinality(1 .. N) = N /\ \A i \in 1 .. N : Ascending(1 .. N)[i] = i
  BY <1>4, AscendsAll
<1>12. \A i \in 1 .. N : g[i] = Segment(c, e, i)
  BY <1>6
<1> HIDE DEF g, w
<1>13. /\ Len(w) = N /\ DOMAIN w = 1 .. N /\ \A i \in 1 .. N : w[i] = Segment(c, e, i)
  <2>1. 1 .. N \in SUBSET (1 .. N)
    OBVIOUS
  <2>2. /\ DOMAIN w = 1 .. Cardinality(1 .. N) /\ Len(w) = Cardinality(1 .. N)
        /\ \A k \in 1 .. Cardinality(1 .. N) : w[k] = g[Ascending(1 .. N)[k]]
    BY <1>4, <1>10, <2>1, Selected
  <2> QED
    BY <1>11, <1>12, <2>2
<1>14. ASSUME NEW i \in 1 .. N, i > 1
       PROVE  w[i - 1].start <= w[i].start
  <2>1. i - 1 \in 1 .. N /\ i - 1 < i /\ (i - 1) - 1 \in Nat /\ i - 1 \in Nat
    BY <1>4, <1>14
  <2> DEFINE x == ((i - 1) - 1) * A
             y == (i - 1) * A
  <2>2. x \in Nat /\ y \in Nat /\ x <= y
    <3>1. (i - 1) - 1 <= i - 1
      BY <2>1
    <3> QED
      BY <1>1, <2>1, <3>1, Multiples
  <2>3. e[i - 1].start \in Nat /\ e[i].start \in Nat /\ e[i - 1].start <= e[i].start
    BY <1>8, <1>9, <2>1
  <2>4. w[i].start = Larger(e[i].start, y)
    BY <1>13, <1>14 DEF Segment, A
  <2>5. w[i - 1].start = IF i - 1 > 1 THEN Larger(e[i - 1].start, x) ELSE e[i - 1].start
    BY <1>13, <2>1 DEF Segment, A
  <2> HIDE DEF x, y
  <2> QED
    BY <2>2, <2>3, <2>4, <2>5 DEF Larger
<1>15. Kept(c, e)
  BY <1>6, <1>13, <1>14 DEF Kept, w
<1> QED
  BY <1>15 DEF e

\* No stream of the table loses a piece with text.
LEMMA AllIsKept == \A m \in 0 .. MaxFrames : Lossy[m] = {}
<1> TAKE m \in 0 .. MaxFrames
<1> SUFFICES ASSUME NEW stream \in Streams(m), NEW c \in Settings, RoomToStep(c),
                    NEW texted \in SUBSET DOMAIN Session(c, stream).pieces
             PROVE  Kept(c, Entries(Session(c, stream).pieces, texted))
  <2>1. Lossy[m] = {stream \in Streams(m) : \E c \in Settings :
                      RoomToStep(c) /\ LET pieces == Session(c, stream).pieces IN
                        \E texted \in SUBSET DOMAIN pieces : ~Kept(c, Entries(pieces, texted))}
    BY DEF Lossy
  <2> QED
    BY <2>1
<1>1. /\ m \in Nat /\ Len(Front(stream)) = m /\ Last(stream) \in Nat
      /\ \A i \in 1 .. m : Front(stream)[i] \in Nat
  BY MessagesOf
<1>2. Sized(Build(c))
  BY BuildSized
<1>3. BufferFits(Build(c), FeedAll(Build(c), Front(stream)))
  BY <1>1, <1>2, FedFits
<1>4. Ordered(Build(c), Session(c, stream))
  BY <1>1, <1>2, <1>3, FlushOrdered DEF Session
<1> QED
  BY <1>4, PiecesKept

-----------------------------------------------------------------------------
\* What the recognizer hears, and what of it is shown

\* A connection has fed its decoder no more messages than were recorded.
LEMMA FedBounded == Spec => [](\A k \in Conns : fed[k] \in 0 .. MaxFrames)
<1>1. BoundsInv => \A k \in Conns : fed[k] \in 0 .. MaxFrames
  <2> SUFFICES ASSUME BoundsInv, NEW k \in Conns PROVE fed[k] \in 0 .. MaxFrames
    OBVIOUS
  <2>1. fed[k] \in Nat /\ fed[k] <= n /\ n \in 0 .. MaxChunks
    BY DEF BoundsInv, InBounds, ChunkBounds, DecodeBounds, Types, DecodeTypes
  <2>2. MaxChunks \in Nat /\ MaxFrames \in Nat /\ MaxChunks <= MaxFrames
    BY BoundsAreNat, RealtimeBounds, StreamsAreTabled
  <2> QED
    BY <2>1, <2>2
<1>2. Init => BoundsInv
  BY BoundsInitially
<1>3. BoundsInv /\ [Next]_vars => BoundsInv'
  BY BoundsStep
<1> QED
  BY <1>1, <1>2, <1>3, PTL DEF Spec

\* What leaves the buffer was in a piece, in mode chunk in one only, and in mode windowed
\* the tail is in one when the recording is finalized: for any number of messages of any
\* length that leaves room for a step in the window, and any settings.
THEOREM RecognizerHearsAll == Spec => []AllHeard
<1>1. (\A k \in Conns : fed[k] \in 0 .. MaxFrames) => AllHeard
  BY AllIsHeard DEF AllHeard
<1> QED
  BY <1>1, FedBounded, PTL

\* The merge drops no piece with text and keeps the order of the others, whichever pieces
\* are silent: for any number of messages of any length, also when the cap has cut the
\* buffer, and any settings whose overlap leaves TimeFloor of a step.
THEOREM DraftKeepsText == Spec => []TextKept
<1>1. (\A k \in Conns : fed[k] \in 0 .. MaxFrames) => TextKept
  BY AllIsKept DEF TextKept
<1> QED
  BY <1>1, FedBounded, PTL
=============================================================================
