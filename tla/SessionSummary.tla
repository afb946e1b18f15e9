--------------------------- MODULE SessionSummary ---------------------------
(***************************************************************************)
(* One recording session after diarization: the chain of its conversations,*)
(* the names of their speakers, which the user, the LLM and a rerun write, *)
(* the rolling summary of the chain and the vector index. Tasks of queue   *)
(* llm run on several workers. How a diarized row comes to be is in        *)
(* Pipeline; here it is there or a rerun is under way.                     *)
(***************************************************************************)
EXTENDS Enumeration, Naturals, Sequences, FiniteSets

CONSTANTS
  Speakers,    \* speaker_ids of a diarized transcript
  Workers,     \* child processes that consume queue llm
  Answers,     \* what the LLM may say: speaker -> "suggested", "auto" or "none"
  MaxConvs,    \* bound on the conversations of a session
  Single,      \* those in which one person speaks
  MaxRows,     \* bound on the diarized revisions of a conversation
  MaxCopies,   \* bound on equal messages in the queue
  Fits,        \* how many segments session_summary_max_input_chars may leave whole
  Plans        \* Plans[n]: the sequences of events that may occur in a session of n

\* patch:    PATCH speakers                    apply:   POST apply-suggestions
\* identify: POST identify                     retry:   POST session-summary/retry
\* admin:    resummary, reindex                delete:  a conversation is deleted
\* diarize:  a diarization begins
\* raise:    LLM, embedding service or S3 raises        broker: send_task raises
\* db:       the commit of an exception handler raises
\* crash:    a worker, its child or the API process ends
\* redeliver: the visibility timeout ends
EventKinds == {"patch", "apply", "identify", "retry", "admin", "delete", "diarize", "raise",
               "broker", "db", "crash", "redeliver"}

ASSUME SessionBounds == {MaxConvs, MaxRows, MaxCopies} \subseteq Nat
ASSUME SessionInputs == /\ Answers \subseteq [Speakers -> {"none", "suggested", "auto"}]
                        /\ Plans \in [1 .. MaxConvs -> SUBSET Seq(EventKinds)] /\ Single \subseteq 1 .. MaxConvs

VARIABLES
  length,    \* the conversations the session will have
  prev,      \* prev[c]: previous_conversation_id of the c-th conversation, 0 for none
  deleted,   \* conversations with deleted_at
  rows,      \* rows[c]: its diarized transcripts, the last one active: names and vector
  rerun,     \* rerun[c]: the diarization of c
  labels,    \* conversations.speaker_labels: the source of the entry of each speaker
  ident,     \* conversations.speaker_identification_status
  summary,   \* recording_session_summaries: status, and what the text was made from
  queue,     \* queue llm: message -> copies
  work,      \* the task of each worker, its message not yet acknowledged
  req,       \* the request that writes names, read but not committed
  drifted,   \* history: conversations whose labels the text need not show, see NamesShown
  renamed,   \* history: conversations the user has renamed speakers of
  stale,     \* history: rows whose vector need not fit, see IndexFits
  missed,    \* history: the summary need not be current, see SummaryCurrent
  lost,      \* history: messages that were acknowledged before their task was done
  plans      \* events that may still come

chainVars == <<prev, deleted, length>>
nameVars  == <<rows, labels, ident>>
history   == <<drifted, renamed, stale, missed, lost>>
vars == <<chainVars, nameVars, rerun, summary, queue, work, req, history, plans>>

Convs == 1 .. MaxConvs
Live == DOMAIN prev \ deleted
Sources == {"none", "manual", "suggested", "auto"}

Msg(k, c, r) == [kind |-> k, conv |-> c, row |-> r]
Identify(c) == Msg("identify", c, 0)
Summarize == Msg("summary", 0, 0)
Index(c, r) == Msg("index", c, r)
Messages == {Identify(c) : c \in Convs} \cup {Summarize}
              \cup {Index(c, r) : c \in Convs, r \in 1 .. MaxRows}

\* effective_display_name: a suggestion is not shown.
\* Effective, mutated: it is.
AnyName(entry) == entry
Effective(entry) == IF entry = "suggested" THEN "none" ELSE entry
Names(map) == [s \in Speakers |-> Effective(map[s])]
NoNames == [s \in Speakers |-> "none"]

Idle == [msg |-> Summarize, at |-> "idle", base |-> NoNames, copy |-> NoNames, row |-> 0,
         segs |-> <<>>, seen |-> FALSE]
NoReq == [conv |-> 0, row |-> 0, copy |-> NoNames, kind |-> "none"]

Init ==
  /\ prev = <<>> /\ deleted = {} /\ rows = [c \in Convs |-> <<>>]
  /\ rerun = [c \in Convs |-> "no"]
  /\ labels = [c \in Convs |-> NoNames] /\ ident = [c \in Convs |-> "idle"]
  /\ summary = [status |-> "absent", segs |-> <<>>]
  /\ queue = [m \in Messages |-> 0] /\ work = [w \in Workers |-> Idle] /\ req = NoReq
  /\ drifted = {} /\ renamed = {} /\ stale = {} /\ missed = FALSE /\ lost = {}
  /\ length \in 1 .. MaxConvs /\ plans = Plans[length]

Spend(e) ==
  LET next == {p \in plans : p # <<>> /\ p[1] = e} IN
  next # {} /\ plans' = {Tail(p) : p \in next}

-----------------------------------------------------------------------------
\* send_task

Room(m) == queue[m] < MaxCopies
With(q, m) == [q EXCEPT ![m] = @ + 1]
Send(m) == Room(m) /\ queue' = With(queue, m)

\* schedule_transcript_embedding logs what send_task raises.
\* SendIndex, mutated: a transcript is indexed once.
SendIndexOnce(c, r) ==
  IF rows[c][r].indexed THEN UNCHANGED <<queue, stale, plans>>
  ELSE Send(Index(c, r)) /\ UNCHANGED <<plans, stale>>
SendIndex(c, r) ==
  \/ Send(Index(c, r)) /\ UNCHANGED <<plans, stale>>
  \/ Spend("broker") /\ stale' = stale \cup {<<c, r>>} /\ UNCHANGED queue

-----------------------------------------------------------------------------
\* The chain

\* POST /conversations, and the continuation autoprolong makes
CreateConversation(p) ==
  /\ Len(prev) < length /\ p \in Live \cup {0}
  /\ prev' = Append(prev, p)
  /\ UNCHANGED <<deleted, length, nameVars, rerun, summary, queue, work, req, history, plans>>

\* Only the conversation: the summary keeps what it said.
DeleteConversation(c) ==
  /\ Spend("delete") /\ c \in Live /\ deleted' = deleted \cup {c}
  /\ UNCHANGED <<prev, length, nameVars, rerun, summary, queue, work, req, history>>

\* ByTime, mutated: the newest first.
NewestFirst(S) == [i \in 1 .. Cardinality(S) |-> Ascending(S)[Cardinality(S) + 1 - i]]
ByTime(S) == Ascending(S)

\* ordered_chain_segments: from the head along previous_conversation_id, then the rest.
\* The rows come in no order, so that any successor may be the next one.
SuccessorsIn(S, c) == {d \in S : prev[d] = c}
Bare(S) == {c \in S : prev[c] = 0}
Heads(S) == IF 1 \in S THEN {1} ELSE IF Cardinality(Bare(S)) = 1 THEN Bare(S) ELSE {}
IsPath(S, p) ==
  /\ p[1] \in Heads(S)
  /\ \A i \in 2 .. Len(p) : p[i] \in SuccessorsIn(S, p[i - 1])
  /\ SuccessorsIn(S, p[Len(p)]) \subseteq {p[i] : i \in DOMAIN p}
Orders(S) ==
  IF Heads(S) = {} THEN {ByTime(S)}
  ELSE {p \o ByTime(S \ {p[i] : i \in DOMAIN p}) :
          p \in {q \in UNION {[1 .. n -> S] : n \in 1 .. Cardinality(S)} : IsPath(S, q)}}

\* _bundle_chain_markdown: a conversation without a transcript is left out. Each has its
\* participants, from the map, and its text. What is too long is cut off at the end, where
\* the newest are: they are listed, but not whole. How many fit their lengths decide.
Bundle(order, fit) ==
  LET shown == Ascending({i \in DOMAIN order : rows[order[i]] # <<>>})
      seg(c, i) == [conv |-> c, row |-> Len(rows[c]), names |-> rows[c][Len(rows[c])].names,
                    people |-> Names(labels[c]), whole |-> i <= fit] IN
  [i \in DOMAIN shown |-> seg(order[shown[i]], i)]

-----------------------------------------------------------------------------
\* run_diarization, and what it does to names

Newest(c) == Len(rows[c])

\* reset_speaker_labels_on_diarization_rerun
DiarizeBegin(c) ==
  /\ c \in Live /\ rerun[c] = "no" /\ Newest(c) < MaxRows
  /\ Spend("diarize")
  /\ rerun' = [rerun EXCEPT ![c] = "running"]
  /\ labels' = [labels EXCEPT ![c] = NoNames] /\ ident' = [ident EXCEPT ![c] = "idle"]
  /\ drifted' = IF rows[c] # <<>> /\ rows[c][Newest(c)].names # NoNames
                THEN drifted \cup {c} ELSE drifted
  /\ UNCHANGED <<chainVars, rows, summary, queue, work, req, renamed, stale, missed, lost>>

DiarizeFails(c) ==
  /\ rerun[c] = "running" /\ Spend("raise") /\ rerun' = [rerun EXCEPT ![c] = "no"]
  /\ UNCHANGED <<chainVars, nameVars, summary, queue, work, req, history>>

DiarizeSucceeds(c) ==
  /\ rerun[c] = "running" /\ rerun' = [rerun EXCEPT ![c] = "index"]
  /\ rows' = [rows EXCEPT ![c] = Append(@, [names |-> NoNames, vector |-> NoNames, indexed |-> FALSE])]
  /\ drifted' = IF Names(labels[c]) # NoNames THEN drifted \cup {c} ELSE drifted \ {c}
  /\ UNCHANGED <<chainVars, labels, ident, summary, queue, work, req, renamed, stale, missed,
                 lost, plans>>

DiarizeSendsIndex(c) ==
  /\ rerun[c] = "index" /\ rerun' = [rerun EXCEPT ![c] = "post"] /\ SendIndex(c, Newest(c))
  /\ UNCHANGED <<chainVars, nameVars, summary, work, req, drifted, renamed, missed, lost>>

\* schedule_post_diarization_pipeline: identification, which queues the summary when it ends
SchedulePostDiarization(c) ==
  /\ rerun[c] = "post" /\ rerun' = [rerun EXCEPT ![c] = "no"]
  /\ \/ Send(Identify(c)) /\ UNCHANGED <<plans, missed>>
     \/ Spend("broker") /\ missed' = TRUE /\ UNCHANGED queue
  /\ UNCHANGED <<chainVars, nameVars, summary, work, req, drifted, renamed, stale, lost>>

\* The worker that diarizes dies, and its message with it. One that comes back begins anew.
DiarizerLost(c) ==
  /\ rerun[c] # "no" /\ Spend("crash") /\ rerun' = [rerun EXCEPT ![c] = "no"]
  /\ stale' = IF rerun[c] = "index" THEN stale \cup {<<c, Newest(c)>>} ELSE stale
  /\ missed' = (missed \/ rerun[c] # "running")
  /\ UNCHANGED <<chainVars, nameVars, summary, queue, work, req, drifted, renamed, lost>>

-----------------------------------------------------------------------------
\* Writing names: the map and the text of the row that was read, in one transaction

\* Persist, mutated: the text is left alone.
NotPersisted(c, r, map) == rows
Persist(c, r, map) == [rows EXCEPT ![c][r].names = Names(map)]
DriftAfter(c, r) == IF r = Newest(c) THEN drifted \ {c} ELSE drifted \cup {c}

\* PATCH speakers: the index is queued before the commit.
PatchSpeaker(c, s) ==
  /\ Spend("patch") /\ req = NoReq /\ c \in Live /\ rows[c] # <<>>
  /\ req' = [conv |-> c, row |-> Newest(c), kind |-> "patch",
             copy |-> [labels[c] EXCEPT ![s] = "manual"]]
  /\ Send(Index(c, Newest(c)))
  /\ UNCHANGED <<chainVars, nameVars, rerun, summary, work, history>>

ApplySuggestions(c, S) ==
  /\ Spend("apply") /\ req = NoReq /\ c \in Live /\ rows[c] # <<>>
  /\ S # {} /\ \A s \in S : labels[c][s] = "suggested"
  /\ req' = [conv |-> c, row |-> Newest(c), kind |-> "apply",
             copy |-> [s \in Speakers |-> IF s \in S THEN "manual" ELSE labels[c][s]]]
  /\ Send(Index(c, Newest(c)))
  /\ UNCHANGED <<chainVars, nameVars, rerun, summary, work, history>>

CommitNames ==
  /\ req # NoReq /\ req' = NoReq
  /\ labels' = [labels EXCEPT ![req.conv] = req.copy]
  /\ rows' = Persist(req.conv, req.row, req.copy)
  /\ ident' = IF req.kind = "apply" THEN [ident EXCEPT ![req.conv] = "success"] ELSE ident
  /\ drifted' = DriftAfter(req.conv, req.row) /\ renamed' = renamed \cup {req.conv}
  /\ UNCHANGED <<chainVars, rerun, summary, queue, work, stale, missed, lost, plans>>

\* POST speakers/identify: only "running" refuses it.
RequestIdentify(c) ==
  /\ Spend("identify") /\ c \in Live /\ rows[c] # <<>> /\ ident[c] # "running"
  /\ ident' = [ident EXCEPT ![c] = "pending"]
  /\ Send(Identify(c)) \/ UNCHANGED queue
  /\ UNCHANGED <<chainVars, rows, labels, rerun, summary, work, req, history>>

\* POST session-summary/retry
RetrySummary ==
  /\ Spend("retry") /\ Live # {} /\ Send(Summarize)
  /\ UNCHANGED <<chainVars, nameVars, rerun, summary, work, req, history>>

\* An admin's resummary looks at the status, and at deleted conversations too.
Resummary ==
  /\ Spend("admin") /\ prev # <<>> /\ summary.status # "running" /\ Send(Summarize)
  /\ UNCHANGED <<chainVars, nameVars, rerun, summary, work, req, history>>

\* GET session-summary, and the sidebar
StatusShown == IF summary.status = "absent" THEN "pending" ELSE summary.status

\* An admin's reindex
Reindex(c) ==
  /\ Spend("admin") /\ c \in DOMAIN prev /\ rows[c] # <<>> /\ Send(Index(c, Newest(c)))
  /\ UNCHANGED <<chainVars, nameVars, rerun, summary, work, req, history>>

-----------------------------------------------------------------------------
\* Workers

Is(w, kind, l) == work[w].msg.kind = kind /\ work[w].at = l
Goto(w, l) == work' = [work EXCEPT ![w].at = l]
Continue(w, l) == work' = [work EXCEPT ![w] = [Idle EXCEPT !.msg = work[w].msg, !.at = l]]
Finish(w) == work' = [work EXCEPT ![w] = Idle]
Conv(w) == work[w].msg.conv

Take(w, m) ==
  /\ work[w] = Idle /\ queue[m] > 0
  /\ queue' = [queue EXCEPT ![m] = @ - 1]
  /\ work' = [work EXCEPT ![w] = [Idle EXCEPT !.msg = m, !.at = "start"]]
  /\ UNCHANGED <<chainVars, nameVars, rerun, summary, req, history, plans>>

\* A worker dies with its parent, or the timeout ends while the task still runs: the
\* message comes back.
\* PutBack, mutated: it was acknowledged when it was taken.
NotPutBack(m) == UNCHANGED queue
PutBack(m) == Send(m)

WorkerDies(w) ==
  /\ work[w] # Idle /\ Spend("crash") /\ PutBack(work[w].msg) /\ Finish(w)
  /\ UNCHANGED <<chainVars, nameVars, rerun, summary, req, history>>

\* Only the child dies: its parent acknowledges the message, task_reject_on_worker_lost is
\* not set. So does a task whose exception handler raises.
Lose(m) ==
  IF m.kind = "index" THEN stale' = stale \cup {<<m.conv, m.row>>} /\ UNCHANGED <<lost, missed>>
  ELSE lost' = lost \cup {m} /\ missed' = TRUE /\ UNCHANGED stale

ChildLost(w) ==
  /\ work[w] # Idle /\ Spend("crash") /\ Lose(work[w].msg) /\ Finish(w)
  /\ UNCHANGED <<chainVars, nameVars, rerun, summary, queue, req, drifted, renamed>>

Redeliver(w) ==
  /\ work[w] # Idle /\ Spend("redeliver") /\ PutBack(work[w].msg)
  /\ UNCHANGED <<chainVars, nameVars, rerun, summary, work, req, history>>

ApiDies ==
  /\ req # NoReq /\ Spend("crash") /\ req' = NoReq
  /\ UNCHANGED <<chainVars, nameVars, rerun, summary, queue, work, history>>

-----------------------------------------------------------------------------
\* identify_speakers

IdentifyBegin(w) ==
  /\ Is(w, "identify", "start") /\ Conv(w) \notin Single /\ Goto(w, "llm")
  /\ ident' = [ident EXCEPT ![Conv(w)] = "running"] /\ lost' = lost \ {work[w].msg}
  /\ UNCHANGED <<chainVars, rows, labels, rerun, summary, queue, req, drifted, renamed, stale,
                 missed, plans>>

\* One speaker: the summary is queued inside the transaction, which is rolled back when
\* send_task raises.
\* IdentifySkips, mutated: it is not queued.
IdentifySkipsAll(w) ==
  /\ Is(w, "identify", "start") /\ Conv(w) \in Single /\ Finish(w)
  /\ ident' = [ident EXCEPT ![Conv(w)] = "skipped"]
  /\ UNCHANGED <<chainVars, rows, labels, rerun, summary, queue, req, history, plans>>
IdentifySkips(w) ==
  /\ Is(w, "identify", "start") /\ Conv(w) \in Single
  /\ \/ /\ Send(Summarize) /\ Finish(w) /\ UNCHANGED plans
        /\ ident' = [ident EXCEPT ![Conv(w)] = "skipped"]
     \/ Spend("broker") /\ Goto(w, "except") /\ UNCHANGED <<ident, queue>>
  /\ UNCHANGED <<chainVars, rows, labels, rerun, summary, req, history>>

\* The answer is merged over the entries there are now, whoever made them.
Merge(map, answer) == [s \in Speakers |-> IF answer[s] = "none" THEN map[s] ELSE answer[s]]

IdentifyAnswered(w, answer) ==
  /\ Is(w, "identify", "llm")
  /\ LET c == Conv(w)
         auto == \E s \in Speakers : answer[s] = "auto" IN
     /\ work' = [work EXCEPT ![w].at = IF answer = NoNames THEN "skip" ELSE
                                       IF auto THEN "persist" ELSE "suggest",
                             ![w].base = labels[c], ![w].copy = Merge(labels[c], answer),
                             ![w].row = Newest(c)]
     /\ IF auto THEN SendIndex(c, Newest(c)) ELSE UNCHANGED <<queue, stale, plans>>
  /\ UNCHANGED <<chainVars, nameVars, rerun, summary, req, drifted, renamed, missed, lost>>

\* A suggestion is not shown, and the text keeps the name it replaces.
Replaces(w) == Names(work[w].copy) # Names(work[w].base)

IdentifyCommits(w) ==
  /\ work[w].at \in {"skip", "suggest", "persist"} /\ Continue(w, "post")
  /\ LET c == Conv(w)
         r == work[w].row IN
     /\ ident' = [ident EXCEPT ![c] = IF work[w].at = "skip" THEN "skipped" ELSE "success"]
     /\ labels' = IF work[w].at = "skip" THEN labels ELSE [labels EXCEPT ![c] = work[w].copy]
     /\ rows' = IF work[w].at = "persist" THEN Persist(c, r, work[w].copy) ELSE rows
     /\ drifted' = CASE work[w].at = "skip" -> drifted
                     [] work[w].at = "persist" -> DriftAfter(c, r)
                     [] OTHER -> IF Replaces(w) \/ labels[c] # work[w].base
                                 THEN drifted \cup {c} ELSE drifted
  /\ UNCHANGED <<chainVars, rerun, summary, queue, req, renamed, stale, missed, lost, plans>>

IdentifyRaises(w) ==
  /\ work[w].msg.kind = "identify" /\ work[w].at \in {"llm", "suggest", "persist"}
  /\ Spend("raise") /\ Continue(w, "except")
  /\ UNCHANGED <<chainVars, nameVars, rerun, summary, queue, req, history>>

IdentifySchedules(w) ==
  /\ Is(w, "identify", "post")
  /\ \/ Send(Summarize) /\ Finish(w) /\ UNCHANGED plans
     \/ Spend("broker") /\ Goto(w, "except") /\ UNCHANGED queue
  /\ UNCHANGED <<chainVars, nameVars, rerun, summary, req, history>>

\* The handler commits, and queues the summary all the same.
IdentifyHandler(w) ==
  /\ Is(w, "identify", "except")
  /\ \/ /\ ident' = [ident EXCEPT ![Conv(w)] = "failed"] /\ Goto(w, "last")
        /\ UNCHANGED <<missed, stale, lost, plans>>
     \/ Spend("db") /\ Finish(w) /\ Lose(work[w].msg) /\ UNCHANGED ident
  /\ UNCHANGED <<chainVars, rows, labels, rerun, summary, queue, req, drifted, renamed>>

IdentifyLast(w) ==
  /\ Is(w, "identify", "last") /\ Finish(w)
  /\ \/ Send(Summarize) /\ UNCHANGED <<plans, missed>>
     \/ Spend("broker") /\ missed' = TRUE /\ UNCHANGED queue
  /\ UNCHANGED <<chainVars, nameVars, rerun, summary, req, drifted, renamed, stale, lost>>

-----------------------------------------------------------------------------
\* summarize_recording_session

Summarizing(w) == work[w].msg.kind = "summary" /\ work[w].at \notin {"idle", "start"}

\* The chain is read in the transaction that will commit the status "running".
SummaryReads(w) ==
  /\ Is(w, "summary", "start")
  /\ \E order \in IF Live = {} THEN {<<>>} ELSE Orders(Live), fit \in Fits :
       work' = [work EXCEPT ![w].at = "claim", ![w].segs = Bundle(order, fit),
                            ![w].seen = summary.status # "absent"]
  /\ missed' = \E v \in Workers \ {w} : Summarizing(v)
  /\ UNCHANGED <<chainVars, nameVars, rerun, summary, queue, req, drifted, renamed, stale,
                 lost, plans>>

\* The row is new to both of two tasks that begin together: one violates its key.
SummaryClaims(w) ==
  /\ Is(w, "summary", "claim")
  /\ IF ~work[w].seen /\ summary.status # "absent"
     THEN Continue(w, "except") /\ UNCHANGED <<summary, lost>>
     ELSE /\ summary' = [summary EXCEPT !.status = "running"] /\ lost' = lost \ {Summarize}
          /\ IF work[w].segs = <<>> THEN Continue(w, "except") ELSE Goto(w, "llm")
  /\ UNCHANGED <<chainVars, nameVars, rerun, queue, req, drifted, renamed, stale, missed, plans>>

SummaryAnswered(w) ==
  /\ Is(w, "summary", "llm") /\ Continue(w, "store")
  /\ summary' = [status |-> "success", segs |-> work[w].segs]
  /\ UNCHANGED <<chainVars, nameVars, rerun, queue, req, history, plans>>

SummaryStored(w) ==
  /\ Is(w, "summary", "store") /\ Finish(w)
  /\ UNCHANGED <<chainVars, nameVars, rerun, summary, queue, req, history, plans>>

SummaryRaises(w) ==
  /\ Is(w, "summary", "llm") \/ Is(w, "summary", "store")
  /\ Spend("raise") /\ Continue(w, "except")
  /\ UNCHANGED <<chainVars, nameVars, rerun, summary, queue, req, history>>

SummaryHandler(w) ==
  /\ Is(w, "summary", "except") /\ Finish(w)
  /\ \/ summary' = [summary EXCEPT !.status = "failed"] /\ UNCHANGED <<lost, missed, stale, plans>>
     \/ Spend("db") /\ Lose(Summarize) /\ UNCHANGED summary
  /\ UNCHANGED <<chainVars, nameVars, rerun, queue, req, drifted, renamed>>

-----------------------------------------------------------------------------
\* index_transcript_embedding

Writing(c, r) ==
  \/ req.conv = c /\ req.row = r
  \/ \E w \in Workers : Is(w, "identify", "persist") /\ Conv(w) = c /\ work[w].row = r
Indexing(c, r) == {w \in Workers : work[w].msg = Index(c, r) /\ work[w].at # "start"}

IndexReads(w) ==
  /\ Is(w, "index", "start")
  /\ LET c == Conv(w)
         r == work[w].msg.row IN
     /\ work' = [work EXCEPT ![w].at = "embed", ![w].copy = rows[c][r].names]
     /\ stale' = IF Writing(c, r) \/ Indexing(c, r) # {}
                 THEN stale \cup {<<c, r>>} ELSE stale \ {<<c, r>>}
  /\ UNCHANGED <<chainVars, nameVars, rerun, summary, queue, req, drifted, renamed, missed,
                 lost, plans>>

IndexWrites(w) ==
  /\ Is(w, "index", "embed") /\ Finish(w)
  /\ LET r == work[w].msg.row IN
     rows' = [rows EXCEPT ![Conv(w)][r].vector = work[w].copy, ![Conv(w)][r].indexed = TRUE]
  /\ UNCHANGED <<chainVars, labels, ident, rerun, summary, queue, req, history, plans>>

IndexRaises(w) ==
  /\ Is(w, "index", "embed") /\ Spend("raise") /\ Finish(w)
  /\ stale' = stale \cup {<<Conv(w), work[w].msg.row>>}
  /\ UNCHANGED <<chainVars, nameVars, rerun, summary, queue, req, drifted, renamed, missed, lost>>

-----------------------------------------------------------------------------
Diarize(c) == \/ DiarizeBegin(c) \/ DiarizeFails(c) \/ DiarizeSucceeds(c)
              \/ DiarizeSendsIndex(c) \/ SchedulePostDiarization(c) \/ DiarizerLost(c)

Task(w) ==
  \/ \E m \in Messages : Take(w, m)
  \/ WorkerDies(w) \/ ChildLost(w) \/ Redeliver(w)
  \/ IdentifyBegin(w) \/ IdentifySkips(w) \/ \E a \in Answers : IdentifyAnswered(w, a)
  \/ IdentifyCommits(w) \/ IdentifyRaises(w) \/ IdentifySchedules(w) \/ IdentifyHandler(w)
  \/ IdentifyLast(w)
  \/ SummaryReads(w) \/ SummaryClaims(w) \/ SummaryAnswered(w) \/ SummaryStored(w)
  \/ SummaryRaises(w) \/ SummaryHandler(w)
  \/ IndexReads(w) \/ IndexWrites(w) \/ IndexRaises(w)

Request ==
  \/ \E p \in 0 .. MaxConvs : CreateConversation(p)
  \/ \E c \in Convs : \/ DeleteConversation(c) \/ RequestIdentify(c) \/ Reindex(c)
                      \/ \E s \in Speakers : PatchSpeaker(c, s)
                      \/ \E S \in SUBSET Speakers : ApplySuggestions(c, S)
  \/ CommitNames \/ RetrySummary \/ Resummary \/ ApiDies

Next == Request \/ (\E c \in Convs : Diarize(c)) \/ (\E w \in Workers : Task(w))

Spec == Init /\ [][Next]_vars

-----------------------------------------------------------------------------
\* Properties

Shown == [Speakers -> {"none", "manual", "auto"}]
Segments ==
  Seq([conv : Convs, row : 1 .. MaxRows, names : Shown, people : Shown, whole : BOOLEAN])

TypeOK ==
  /\ length \in 1 .. MaxConvs /\ Len(prev) <= length /\ \A c \in DOMAIN prev : prev[c] \in 0 .. c - 1
  /\ deleted \subseteq DOMAIN prev
  /\ \A c \in Convs : /\ Len(rows[c]) <= MaxRows
                      /\ \A r \in DOMAIN rows[c] : rows[c][r].indexed \in BOOLEAN
                           /\ {rows[c][r].names, rows[c][r].vector} \subseteq Shown
  /\ rerun \in [Convs -> {"no", "running", "index", "post"}]
  /\ labels \in [Convs -> [Speakers -> Sources]]
  /\ ident \in [Convs -> {"idle", "pending", "running", "skipped", "success", "failed"}]
  /\ summary \in [status : {"absent", "running", "success", "failed"}, segs : Segments]
  /\ queue \in [Messages -> 0 .. MaxCopies]
  /\ \A w \in Workers : work[w].msg \in Messages /\ work[w].segs \in Segments
                        /\ work[w].row \in 0 .. MaxRows
  /\ req = NoReq \/ req.row \in DOMAIN rows[req.conv]
  /\ lost \subseteq Messages

Quiet(kind) == /\ \A m \in Messages : m.kind = kind => queue[m] = 0
               /\ \A w \in Workers : work[w] # Idle => work[w].msg.kind # kind

\* A status "running" refuses the user's request to identify and the admin's to summarize
\* again, and the user waits for a summary shown as pending. Neither stays behind: a task
\* is at work that will change it, or its message is waiting or still to be sent. Unless
\* the message of the last task that began was acknowledged before it was done, because
\* its child process died or its exception handler failed; or what sends it was lost.
IsWorked(m) == queue[m] > 0 \/ (\E w \in Workers : work[w] # Idle /\ work[w].msg = m) \/ m \in lost
RunningIsWorked ==
  /\ \A c \in Convs : ident[c] = "running" => IsWorked(Identify(c))
  /\ StatusShown = "running" => IsWorked(Summarize)
  /\ (StatusShown = "pending" /\ \E c \in Live : rows[c] # <<>>) =>
       missed \/ ~Quiet("summary") \/ ~Quiet("identify") \/ \E c \in Convs : rerun[c] \in {"index", "post"}

\* Once nothing is left to do, the summary of the session, unless it says it failed, lists
\* every segment, in the order of the recording. What was not cut off for its length was
\* made from the newest transcript, under the names identification had given its speakers,
\* and the participants listed are those of the text. Excepted: a task or its message was
\* lost, two summaries overlapped, or the user gave other names; and the participants of a
\* conversation whose text need not show the map.
SummaryCurrent ==
  (Quiet("identify") /\ Quiet("summary") /\ ~missed /\ summary.status # "failed"
     /\ \A c \in Live : rerun[c] \in {"no", "running"}) =>
  \A c \in Live : rows[c] # <<>> =>
    \E i \in DOMAIN summary.segs :
      /\ summary.segs[i].conv = c
      /\ summary.segs[i].whole =>
           /\ summary.segs[i].row = Newest(c)
           /\ c \in renamed \/ summary.segs[i].names = rows[c][Newest(c)].names
           /\ c \in renamed \cup drifted \/ summary.segs[i].people = summary.segs[i].names

\* The summary is made from every conversation once, each after the one it continues,
\* also when a client continued one conversation twice, began without the link, or
\* deleted one in the middle.
ChainInOrder ==
  Live # {} => \A order \in Orders(Live) :
    /\ Len(order) = Cardinality(Live) /\ {order[i] : i \in DOMAIN order} = Live
    /\ \A i, j \in DOMAIN order : prev[order[i]] = order[j] => j < i

\* The text of the newest transcript shows the names of the map, whoever wrote them last.
\* Excepted: a rerun was begun under names, or finished under names given meanwhile; a
\* suggestion replaced a name; or a writer's map or row was overtaken before its commit.
NamesShown ==
  \A c \in Convs \ drifted :
    rows[c] # <<>> => rows[c][Newest(c)].names = Names(labels[c])

\* Once no task of the index waits or is at work, the vector of a transcript is that of
\* its text, even while a request that writes names goes on. Excepted: the task read the
\* text before the commit that had queued it, two of them overlapped, a call failed, or the
\* child process of the task, or of the diarization about to queue it, died.
IndexFits ==
  Quiet("index") =>
  \A c \in Convs : rerun[c] # "index" =>
    \A r \in DOMAIN rows[c] :
      <<c, r>> \in stale \/ (rows[c][r].indexed /\ rows[c][r].vector = rows[c][r].names)
=============================================================================
