------------------------ MODULE SessionSummaryProofs ------------------------
(***************************************************************************)
(* Proofs about SessionSummary, for any number of speakers, workers,       *)
(* conversations, revisions and copies of a message, and any plans: no     *)
(* status "running", and no summary shown as pending, is left behind; and  *)
(* the text of a conversation shows the names of its map.                  *)
(***************************************************************************)
EXTENDS SessionSummary, TLAPS

-----------------------------------------------------------------------------
\* The inductive invariant

\* What the argument needs of the types; the texts of a bundle play no part in it.
Fields == {"msg", "at", "base", "copy", "row", "segs", "seen"}
ChainTypes ==
  /\ length \in 1 .. MaxConvs /\ prev \in Seq(Nat) /\ Len(prev) <= length
  /\ DOMAIN rows = Convs
  /\ rerun \in [Convs -> {"no", "running", "index", "post"}]
NameTypes ==
  /\ ident \in [Convs -> {"idle", "pending", "running", "skipped", "success", "failed"}]
  /\ req = NoReq \/ req.conv \in Convs
SummaryTypes ==
  /\ DOMAIN summary = {"status", "segs"}
  /\ summary.status \in {"absent", "running", "success", "failed"}
QueueTypes == queue \in [Messages -> Nat]
WorkTypes ==
  /\ DOMAIN work = Workers
  /\ \A w \in Workers : work[w] = [f \in Fields |-> work[w][f]] /\ work[w].msg \in Messages
Types == ChainTypes /\ NameTypes /\ SummaryTypes /\ QueueTypes /\ WorkTypes

\* The places of the three tasks.
Before == {"start", "llm", "skip", "suggest", "persist", "except"}
PlacesOf(kind) ==
  CASE kind = "identify" -> Before \cup {"post", "last"}
    [] kind = "summary"  -> {"start", "claim", "llm", "store", "except"}
    [] OTHER             -> {"start", "embed"}
AtWork(w) == work[w].at # "idle"
PlacesFit ==
  \A w \in Workers : work[w] = Idle \/ work[w].at \in PlacesOf(work[w].msg.kind)

\* Once a summary task has passed its claim the row of the summary is there.
RowIsThere ==
  \A w \in Workers :
    (work[w].msg.kind = "summary" /\ work[w].at \in {"llm", "store", "except"})
      => summary.status # "absent"

\* The task that will change the status, or its message.
WillIdentify(c) ==
  queue[Identify(c)] > 0 \/ \E w \in Workers : work[w].msg = Identify(c) /\ work[w].at \in Before
WillSummarize ==
  \/ queue[Summarize] > 0
  \/ \E w \in Workers : /\ work[w].msg = Summarize
                       /\ work[w].at \in {"start", "claim", "llm", "except"}
Waits(kind) ==
  \/ \E m \in Messages : m.kind = kind /\ queue[m] > 0
  \/ \E w \in Workers : AtWork(w) /\ work[w].msg.kind = kind
Expected ==
  missed \/ Waits("summary") \/ Waits("identify") \/ \E c \in Convs : rerun[c] \in {"index", "post"}

IdentifyWorked ==
  \A c \in Convs : ident[c] = "running" => WillIdentify(c) \/ Identify(c) \in lost
SummaryWorked == summary.status = "running" => WillSummarize \/ Summarize \in lost
PendingWorked ==
  (summary.status = "absent" /\ \E c \in Convs : rows[c] # <<>>) => Expected

IInv == /\ Types /\ PlacesFit /\ RowIsThere
        /\ IdentifyWorked /\ SummaryWorked /\ PendingWorked

-----------------------------------------------------------------------------
\* Messages

\* A message is known by its kind.
LEMMA MessageFields ==
  /\ \A m \in Messages : m.kind \in {"identify", "summary", "index"}
  /\ \A m \in Messages : m.kind = "identify" => m.conv \in Convs /\ m = Identify(m.conv)
  /\ \A m \in Messages : m.kind = "summary" => m = Summarize
  /\ \A m \in Messages : m.kind = "index" => m.conv \in Convs
  /\ \A c \in Convs : Identify(c) \in Messages /\ Identify(c).kind = "identify"
                      /\ Identify(c).conv = c
  /\ Summarize \in Messages /\ Summarize.kind = "summary"
BY DEF Messages, Identify, Summarize, Index, Msg

\* A worker without a task is at no place of one.
LEMMA IdleFields ==
  /\ Idle.msg = Summarize /\ Idle.at = "idle" /\ Idle = [f \in Fields |-> Idle[f]]
BY DEF Idle, Fields

\* The invariant implies the property.
LEMMA Implied == IInv => RunningIsWorked
<1> SUFFICES ASSUME IInv PROVE RunningIsWorked
  OBVIOUS
<1>1. \A w \in Workers : AtWork(w) => work[w] # Idle
  BY IdleFields DEF AtWork
<1>2. ASSUME NEW c \in Convs, ident[c] = "running"
      PROVE  IsWorked(Identify(c))
  <2>1. WillIdentify(c) \/ Identify(c) \in lost
    BY <1>2 DEF IInv, IdentifyWorked
  <2> QED
    BY <2>1, <1>1 DEF WillIdentify, Before, AtWork, IsWorked, Identify
<1>3. StatusShown = "running" => IsWorked(Summarize)
  <2> SUFFICES ASSUME StatusShown = "running" PROVE IsWorked(Summarize)
    OBVIOUS
  <2>1. WillSummarize \/ Summarize \in lost
    BY DEF IInv, SummaryWorked, StatusShown
  <2> QED
    BY <2>1, <1>1 DEF WillSummarize, AtWork, IsWorked, Summarize
<1>4. ASSUME StatusShown = "pending", NEW d \in Live, rows[d] # <<>>
      PROVE  missed \/ ~Quiet("summary") \/ ~Quiet("identify")
             \/ \E c \in Convs : rerun[c] \in {"index", "post"}
  <2>1. summary.status = "absent"
    BY <1>4 DEF IInv, Types, SummaryTypes, StatusShown
  <2>2. d \in Convs
    BY SessionBounds, <1>4 DEF IInv, Types, ChainTypes, Live, Convs
  <2>3. Expected
    BY <1>4, <2>1, <2>2 DEF IInv, PendingWorked
  <2>4. \A kind : Waits(kind) => ~Quiet(kind)
    BY <1>1 DEF Waits, Quiet
  <2> QED
    BY <2>3, <2>4 DEF Expected
<1> QED
  BY <1>2, <1>3, <1>4 DEF RunningIsWorked

\* Nothing has happened and nothing is waited for.
LEMMA Initially == Init => IInv
<1> SUFFICES ASSUME Init PROVE IInv
  OBVIOUS
<1>1. \A w \in Workers : work[w] = Idle
  BY DEF Init
<1>2. Types
  <2>1. ChainTypes /\ QueueTypes
    BY DEF Init, ChainTypes, QueueTypes
  <2>2. NameTypes /\ SummaryTypes
    BY DEF Init, NameTypes, SummaryTypes
  <2>3. WorkTypes
    BY <1>1, IdleFields, MessageFields DEF Init, WorkTypes
  <2> QED
    BY <2>1, <2>2, <2>3 DEF Types
<1>3. PlacesFit /\ RowIsThere
  BY <1>1, IdleFields DEF PlacesFit, RowIsThere
<1>4. IdentifyWorked /\ SummaryWorked /\ PendingWorked
  BY DEF Init, IdentifyWorked, SummaryWorked, PendingWorked
<1> QED
  BY <1>2, <1>3, <1>4 DEF IInv

-----------------------------------------------------------------------------
\* What the small operators write

\* The queue loses no message.
Grows == \A m \in Messages : queue[m] > 0 => queue'[m] > 0

\* What is sent is in the queue, with all that was.
LEMMA Sent ==
  ASSUME QueueTypes, NEW m, Send(m)
  PROVE  QueueTypes' /\ Grows /\ (m \in Messages => queue'[m] > 0)
<1>1. CASE m \in Messages
  BY <1>1 DEF QueueTypes, Send, With, Grows
<1>2. CASE m \notin Messages
  BY <1>2 DEF QueueTypes, Send, With, Grows
<1> QED
  BY <1>1, <1>2

\* A queue left alone loses nothing.
LEMMA NotSent ==
  ASSUME QueueTypes, UNCHANGED queue
  PROVE  QueueTypes' /\ Grows
BY DEF QueueTypes, Grows

\* Nor does one to which an index task was, or was not, sent.
LEMMA IndexSent ==
  ASSUME QueueTypes, NEW c, NEW r, SendIndex(c, r)
  PROVE  QueueTypes' /\ Grows
BY Sent, NotSent DEF SendIndex

\* The task of one worker goes on to a place, or ends.
Moves(w, l) ==
  /\ WorkTypes'
  /\ \A v \in Workers \ {w} : work'[v] = work[v]
  /\ work'[w].msg = work[w].msg /\ work'[w].at = l
Ends(w) ==
  /\ WorkTypes'
  /\ \A v \in Workers \ {w} : work'[v] = work[v]
  /\ work'[w] = Idle

\* A task that keeps its message and its shape moves.
LEMMA MovesTo ==
  ASSUME WorkTypes, NEW w \in Workers, NEW c, c = [f \in Fields |-> c[f]],
         c.msg = work[w].msg, work' = [work EXCEPT ![w] = c]
  PROVE  Moves(w, c.at)
<1>1. DOMAIN work' = Workers /\ work'[w] = c /\ \A v \in Workers \ {w} : work'[v] = work[v]
  BY DEF WorkTypes
<1>2. \A v \in Workers : work'[v] = [f \in Fields |-> work'[v][f]] /\ work'[v].msg \in Messages
  BY <1>1 DEF WorkTypes
<1> QED
  BY <1>1, <1>2 DEF Moves, WorkTypes

\* A new place, with all else the task knows, is a move.
LEMMA GotoMoves ==
  ASSUME WorkTypes, NEW w \in Workers, NEW l, Goto(w, l)
  PROVE  Moves(w, l)
<1> DEFINE c == [work[w] EXCEPT !.at = l]
<1>1. work[w] = [f \in Fields |-> work[w][f]]
  BY DEF WorkTypes
<1>2. c = [f \in Fields |-> c[f]] /\ c.msg = work[w].msg /\ c.at = l
  BY <1>1 DEF Fields
<1>3. work' = [work EXCEPT ![w] = c]
  BY DEF Goto
<1> HIDE DEF c
<1> QED
  BY <1>2, <1>3, MovesTo

\* So is one with nothing but its message.
LEMMA ContinueMoves ==
  ASSUME WorkTypes, NEW w \in Workers, NEW l, Continue(w, l)
  PROVE  Moves(w, l)
<1> DEFINE c == [Idle EXCEPT !.msg = work[w].msg, !.at = l]
<1>1. c = [f \in Fields |-> c[f]] /\ c.msg = work[w].msg /\ c.at = l
  BY IdleFields DEF Fields
<1>2. work' = [work EXCEPT ![w] = c]
  BY DEF Continue
<1> HIDE DEF c
<1> QED
  BY <1>1, <1>2, MovesTo

\* A finished task leaves its worker idle.
LEMMA FinishEnds ==
  ASSUME WorkTypes, NEW w \in Workers, Finish(w)
  PROVE  Ends(w)
<1>1. work' = [work EXCEPT ![w] = Idle]
  BY DEF Finish
<1>2. DOMAIN work' = Workers /\ work'[w] = Idle /\ \A v \in Workers \ {w} : work'[v] = work[v]
  BY <1>1 DEF WorkTypes
<1>3. \A v \in Workers : work'[v] = [f \in Fields |-> work'[v][f]] /\ work'[v].msg \in Messages
  BY <1>2, IdleFields, MessageFields DEF WorkTypes
<1> QED
  BY <1>2, <1>3 DEF Ends, WorkTypes

-----------------------------------------------------------------------------
\* What waits goes on waiting

\* Whatever one worker does, the others wait for what they waited for.
LEMMA OthersWait ==
  ASSUME WorkTypes, Grows, NEW w \in Workers, \A v \in Workers \ {w} : work'[v] = work[v]
  PROVE  /\ \A c \in Convs : WillIdentify(c) =>
              WillIdentify(c)' \/ (work[w].msg = Identify(c) /\ work[w].at \in Before)
         /\ WillSummarize => \/ WillSummarize'
                             \/ /\ work[w].msg = Summarize
                                /\ work[w].at \in {"start", "claim", "llm", "except"}
         /\ \A kind : Waits(kind) => Waits(kind)' \/ (AtWork(w) /\ work[w].msg.kind = kind)
<1>1. ASSUME NEW c \in Convs, WillIdentify(c)
      PROVE  WillIdentify(c)' \/ (work[w].msg = Identify(c) /\ work[w].at \in Before)
  BY <1>1, MessageFields DEF WillIdentify, Grows, Identify
<1>2. ASSUME WillSummarize
      PROVE  WillSummarize' \/ (/\ work[w].msg = Summarize
                                /\ work[w].at \in {"start", "claim", "llm", "except"})
  BY <1>2, MessageFields DEF WillSummarize, Grows, Summarize
<1>3. ASSUME NEW kind, Waits(kind)
      PROVE  Waits(kind)' \/ (AtWork(w) /\ work[w].msg.kind = kind)
  BY <1>3 DEF Waits, Grows, AtWork
<1> QED
  BY <1>1, <1>2, <1>3

\* A task that goes on is waited for at the places it is waited for.
LEMMA MoverWaits ==
  ASSUME NEW w \in Workers, NEW l, Moves(w, l)
  PROVE  /\ \A c \in Convs : (work[w].msg = Identify(c) /\ l \in Before) => WillIdentify(c)'
         /\ (work[w].msg = Summarize /\ l \in {"start", "claim", "llm", "except"})
              => WillSummarize'
         /\ l # "idle" => Waits(work[w].msg.kind)'
<1>1. work'[w].msg = work[w].msg /\ work'[w].at = l
  BY DEF Moves
<1> QED
  BY <1>1 DEF WillIdentify, WillSummarize, Waits, AtWork, Identify, Summarize

\* So is one whose message is in the queue again.
LEMMA QueuedWaits ==
  ASSUME NEW m \in Messages, queue'[m] > 0
  PROVE  /\ \A c \in Convs : m = Identify(c) => WillIdentify(c)'
         /\ m = Summarize => WillSummarize'
         /\ Waits(m.kind)'
BY DEF WillIdentify, WillSummarize, Waits, Identify, Summarize

\* Of what waits nothing is lost in a step of no worker.
LEMMA NoWorkerWaits ==
  ASSUME Grows, work' = work
  PROVE  /\ \A c \in Convs : WillIdentify(c) => WillIdentify(c)'
         /\ WillSummarize => WillSummarize'
         /\ \A kind : Waits(kind) => Waits(kind)'
<1>1. \A c \in Convs : WillIdentify(c) => WillIdentify(c)'
  BY MessageFields DEF WillIdentify, Grows, Identify
<1>2. WillSummarize => WillSummarize'
  BY MessageFields DEF WillSummarize, Grows, Summarize
<1>3. \A kind : Waits(kind) => Waits(kind)'
  BY DEF Waits, Grows, AtWork
<1> QED
  BY <1>1, <1>2, <1>3

-----------------------------------------------------------------------------
\* Rows

\* A conversation without a row gets none by a change of its rows.
LEMMA EmptyStays ==
  ASSUME NEW f, NEW r, NEW x, f = <<>>
  PROVE  [f EXCEPT ![r] = x] = <<>>
OBVIOUS

\* The names of a text are written to a row there is.
NoNewRows ==
  /\ DOMAIN rows' = Convs
  /\ \A c \in Convs : rows[c] = <<>> => rows'[c] = <<>>

\* A text shown under new names is that of a row there was.
LEMMA Persisted ==
  ASSUME DOMAIN rows = Convs, NEW c, NEW r, NEW map, rows' = Persist(c, r, map)
  PROVE  NoNewRows
<1> DEFINE new == [rows[c][r] EXCEPT !.names = Names(map)]
<1>1. rows' = [rows EXCEPT ![c] = [rows[c] EXCEPT ![r] = new]]
  BY DEF Persist
<1> HIDE DEF new
<1>2. rows[c] = <<>> => [rows[c] EXCEPT ![r] = new] = <<>>
  BY EmptyStays
<1> QED
  BY <1>1, <1>2 DEF NoNewRows

-----------------------------------------------------------------------------
\* Requests and diarizations

\* A step of no worker keeps what is waited for.
LEMMA NoWorkerKept ==
  ASSUME IInv, work' = work, Grows, summary' = summary, lost \subseteq lost', missed => missed',
         \A c \in Convs : ident'[c] = "running" => ident[c] = "running",
         (\A c \in Convs : rows[c] = <<>> => rows'[c] = <<>>) \/ Expected',
         (\A c \in Convs : rerun[c] \in {"index", "post"} => rerun'[c] \in {"index", "post"})
           \/ Expected'
  PROVE  PlacesFit' /\ RowIsThere' /\ IdentifyWorked' /\ SummaryWorked' /\ PendingWorked'
<1>1. PlacesFit' /\ RowIsThere'
  BY DEF IInv, PlacesFit, RowIsThere
<1>2. IdentifyWorked'
  BY NoWorkerWaits DEF IInv, IdentifyWorked
<1>3. SummaryWorked'
  BY NoWorkerWaits DEF IInv, SummaryWorked
<1>4. Expected => Expected'
  BY NoWorkerWaits DEF Expected
<1>5. PendingWorked'
  BY <1>4 DEF IInv, PendingWorked
<1> QED
  BY <1>1, <1>2, <1>3, <1>5

\* A request writes names, or the chain, and sends messages.
LEMMA RequestKept ==
  ASSUME IInv, Request
  PROVE  IInv'
<1> DEFINE Rest == PlacesFit' /\ RowIsThere' /\ IdentifyWorked' /\ SummaryWorked' /\ PendingWorked'
<1>1. /\ DOMAIN rows = Convs /\ QueueTypes /\ WorkTypes /\ SummaryTypes /\ NameTypes /\ ChainTypes
  BY DEF IInv, Types, ChainTypes
<1>2. ASSUME UNCHANGED <<work, summary>>
      PROVE  WorkTypes' /\ SummaryTypes'
  BY <1>1, <1>2 DEF WorkTypes, SummaryTypes
<1>3. ASSUME UNCHANGED <<prev, length, rows, rerun>> PROVE ChainTypes'
  BY <1>1, <1>3 DEF ChainTypes
<1>4. ASSUME UNCHANGED <<ident, req>> PROVE NameTypes'
  BY <1>1, <1>4 DEF NameTypes
<1>5. ASSUME NEW p \in 0 .. MaxConvs, CreateConversation(p) PROVE IInv'
  <2>1. /\ UNCHANGED <<rows, ident, req, rerun, summary, queue, work, missed, lost, length>>
        /\ prev' = Append(prev, p) /\ Len(prev) < length
    BY <1>5 DEF CreateConversation, nameVars, history
  <2>2. ChainTypes'
    BY <1>1, <2>1, SessionBounds DEF ChainTypes
  <2>3. QueueTypes' /\ Grows
    BY <1>1, <2>1, NotSent
  <2>4. Rest
    BY <2>1, <2>3, NoWorkerKept
  <2> QED
    BY <1>2, <1>4, <2>1, <2>2, <2>3, <2>4 DEF IInv, Types
<1>6. ASSUME NEW c \in Convs, DeleteConversation(c) PROVE IInv'
  <2>1. UNCHANGED <<rows, ident, req, rerun, summary, queue, work, missed, lost, length, prev>>
    BY <1>6 DEF DeleteConversation, nameVars, history
  <2>2. QueueTypes' /\ Grows
    BY <1>1, <2>1, NotSent
  <2>3. Rest
    BY <2>1, <2>2, NoWorkerKept
  <2> QED
    BY <1>2, <1>3, <1>4, <2>1, <2>2, <2>3 DEF IInv, Types
<1>7. ASSUME NEW c \in Convs, RequestIdentify(c) PROVE IInv'
  <2>1. /\ UNCHANGED <<rows, req, rerun, summary, work, missed, lost, length, prev>>
        /\ ident' = [ident EXCEPT ![c] = "pending"]
        /\ (\E m : Send(m)) \/ UNCHANGED queue
    BY <1>7 DEF RequestIdentify, chainVars, history
  <2>2. QueueTypes' /\ Grows
    BY <1>1, <2>1, Sent, NotSent
  <2>3. NameTypes' /\ \A d \in Convs : ident'[d] = "running" => ident[d] = "running"
    BY <1>1, <2>1 DEF NameTypes
  <2>4. Rest
    BY <2>1, <2>2, <2>3, NoWorkerKept
  <2> QED
    BY <1>2, <1>3, <2>1, <2>2, <2>3, <2>4 DEF IInv, Types
<1>8. ASSUME NEW c \in Convs, Reindex(c) PROVE IInv'
  <2>1. /\ UNCHANGED <<rows, ident, req, rerun, summary, work, missed, lost, length, prev>>
        /\ \E m : Send(m)
    BY <1>8 DEF Reindex, chainVars, nameVars, history
  <2>2. QueueTypes' /\ Grows
    BY <1>1, <2>1, Sent
  <2>3. Rest
    BY <2>1, <2>2, NoWorkerKept
  <2> QED
    BY <1>2, <1>3, <1>4, <2>1, <2>2, <2>3 DEF IInv, Types
<1>9. ASSUME RetrySummary \/ Resummary PROVE IInv'
  <2>1. /\ UNCHANGED <<rows, ident, req, rerun, summary, work, missed, lost, length, prev>>
        /\ \E m : Send(m)
    BY <1>9 DEF RetrySummary, Resummary, chainVars, nameVars, history
  <2>2. QueueTypes' /\ Grows
    BY <1>1, <2>1, Sent
  <2>3. Rest
    BY <2>1, <2>2, NoWorkerKept
  <2> QED
    BY <1>2, <1>3, <1>4, <2>1, <2>2, <2>3 DEF IInv, Types
<1>10. ASSUME NEW c \in Convs,
              (\E s \in Speakers : PatchSpeaker(c, s))
                \/ \E S \in SUBSET Speakers : ApplySuggestions(c, S)
       PROVE  IInv'
  <2>1. /\ UNCHANGED <<rows, ident, rerun, summary, work, missed, lost, length, prev>>
        /\ req'.conv = c /\ \E m : Send(m)
    BY <1>10 DEF PatchSpeaker, ApplySuggestions, chainVars, nameVars, history
  <2>2. QueueTypes' /\ Grows
    BY <1>1, <2>1, Sent
  <2>3. Rest
    BY <2>1, <2>2, NoWorkerKept
  <2>4. NameTypes'
    BY <1>1, <2>1 DEF NameTypes
  <2> QED
    BY <1>2, <1>3, <2>1, <2>2, <2>3, <2>4 DEF IInv, Types
<1>11. ASSUME CommitNames PROVE IInv'
  <2>1. /\ UNCHANGED <<rerun, summary, work, queue, missed, lost, length, prev>>
        /\ req' = NoReq /\ req.conv \in Convs
        /\ ident' = ident \/ ident' = [ident EXCEPT ![req.conv] = "success"]
        /\ rows' = Persist(req.conv, req.row, req.copy)
    BY <1>1, <1>11 DEF CommitNames, chainVars, NameTypes
  <2>2. QueueTypes' /\ Grows
    BY <1>1, <2>1, NotSent
  <2>3. NoNewRows
    BY <1>1, <2>1, Persisted
  <2>4. NameTypes' /\ \A d \in Convs : ident'[d] = "running" => ident[d] = "running"
    BY <1>1, <2>1 DEF NameTypes
  <2>5. ChainTypes'
    BY <1>1, <2>1, <2>3 DEF ChainTypes, NoNewRows, Convs
  <2>6. Rest
    BY <2>1, <2>2, <2>3, <2>4, NoWorkerKept DEF NoNewRows
  <2> QED
    BY <1>2, <2>1, <2>2, <2>4, <2>5, <2>6 DEF IInv, Types
<1>12. ASSUME ApiDies PROVE IInv'
  <2>1. /\ UNCHANGED <<rows, ident, rerun, summary, work, queue, missed, lost, length, prev>>
        /\ req' = NoReq
    BY <1>12 DEF ApiDies, chainVars, nameVars, history
  <2>2. QueueTypes' /\ Grows
    BY <1>1, <2>1, NotSent
  <2>3. Rest
    BY <2>1, <2>2, NoWorkerKept
  <2>4. NameTypes'
    BY <1>1, <2>1 DEF NameTypes
  <2> QED
    BY <1>2, <1>3, <2>1, <2>2, <2>3, <2>4 DEF IInv, Types
<1> QED
  BY <1>5, <1>6, <1>7, <1>8, <1>9, <1>10, <1>11, <1>12 DEF Request

\* A diarization makes a row, and then has its summary made: by the task that identifies
\* the speakers.
LEMMA DiarizeKept ==
  ASSUME IInv, NEW c \in Convs, Diarize(c)
  PROVE  IInv'
<1> DEFINE Rest == PlacesFit' /\ RowIsThere' /\ IdentifyWorked' /\ SummaryWorked' /\ PendingWorked'
<1>1. /\ DOMAIN rows = Convs /\ QueueTypes /\ WorkTypes /\ SummaryTypes /\ NameTypes /\ ChainTypes
  BY DEF IInv, Types, ChainTypes
<1>2. /\ UNCHANGED <<work, summary, lost, length, prev, req>> /\ WorkTypes' /\ SummaryTypes'
  <2>1. UNCHANGED <<work, summary, lost, length, prev, req>>
    BY DEF Diarize, DiarizeBegin, DiarizeFails, DiarizeSucceeds, DiarizeSendsIndex,
       SchedulePostDiarization, DiarizerLost, chainVars, nameVars, history
  <2> QED
    BY <1>1, <2>1 DEF WorkTypes, SummaryTypes
<1>3. ASSUME NEW x \in {"no", "running", "index", "post"}, rerun' = [rerun EXCEPT ![c] = x],
             DOMAIN rows' = Convs
      PROVE  ChainTypes'
  BY <1>1, <1>2, <1>3 DEF ChainTypes, Convs
<1>4. ASSUME ident' = ident \/ ident' = [ident EXCEPT ![c] = "idle"]
      PROVE  NameTypes' /\ \A d \in Convs : ident'[d] = "running" => ident[d] = "running"
  BY <1>1, <1>2, <1>4 DEF NameTypes
<1>5. ASSUME rerun[c] \notin {"index", "post"}, \E x : rerun' = [rerun EXCEPT ![c] = x]
      PROVE  \A d \in Convs : rerun[d] \in {"index", "post"} => rerun'[d] \in {"index", "post"}
  BY <1>1, <1>5 DEF ChainTypes
<1>6. CASE DiarizeBegin(c)
  <2>1. /\ UNCHANGED <<rows, queue, missed>> /\ ident' = [ident EXCEPT ![c] = "idle"]
        /\ rerun[c] = "no" /\ rerun' = [rerun EXCEPT ![c] = "running"]
    BY <1>6 DEF DiarizeBegin
  <2>2. QueueTypes' /\ Grows
    BY <1>1, <2>1, NotSent
  <2>3. Rest
    BY <1>2, <1>4, <1>5, <2>1, <2>2, NoWorkerKept
  <2> QED
    BY <1>1, <1>2, <1>3, <1>4, <2>1, <2>2, <2>3 DEF IInv, Types
<1>7. CASE DiarizeFails(c)
  <2>1. /\ UNCHANGED <<rows, queue, missed, ident>>
        /\ rerun[c] = "running" /\ rerun' = [rerun EXCEPT ![c] = "no"]
    BY <1>7 DEF DiarizeFails, nameVars, history
  <2>2. QueueTypes' /\ Grows
    BY <1>1, <2>1, NotSent
  <2>3. Rest
    BY <1>2, <1>4, <1>5, <2>1, <2>2, NoWorkerKept
  <2> QED
    BY <1>1, <1>2, <1>3, <1>4, <2>1, <2>2, <2>3 DEF IInv, Types
<1>8. CASE DiarizeSucceeds(c)
  <2>1. /\ UNCHANGED <<queue, missed, ident>> /\ DOMAIN rows' = Convs
        /\ rerun[c] = "running" /\ rerun' = [rerun EXCEPT ![c] = "index"]
    BY <1>1, <1>8 DEF DiarizeSucceeds
  <2>2. QueueTypes' /\ Grows
    BY <1>1, <2>1, NotSent
  <2>3. rerun'[c] = "index"
    BY <1>1, <2>1 DEF ChainTypes
  <2>4. Expected'
    BY <2>3 DEF Expected
  <2>5. Rest
    BY <1>2, <1>4, <2>1, <2>2, <2>4, NoWorkerKept
  <2> QED
    BY <1>2, <1>3, <1>4, <2>1, <2>2, <2>5 DEF IInv, Types
<1>9. CASE DiarizeSendsIndex(c)
  <2>1. /\ UNCHANGED <<rows, missed, ident>> /\ rerun' = [rerun EXCEPT ![c] = "post"]
        /\ SendIndex(c, Newest(c))
    BY <1>9 DEF DiarizeSendsIndex, nameVars
  <2>2. QueueTypes' /\ Grows
    BY <1>1, <2>1, IndexSent
  <2>3. \A d \in Convs : rerun[d] \in {"index", "post"} => rerun'[d] \in {"index", "post"}
    BY <1>1, <2>1 DEF ChainTypes
  <2>4. Rest
    BY <1>2, <1>4, <2>1, <2>2, <2>3, NoWorkerKept
  <2> QED
    BY <1>1, <1>2, <1>3, <1>4, <2>1, <2>2, <2>4 DEF IInv, Types
<1>10. CASE SchedulePostDiarization(c)
  <2>1. /\ UNCHANGED <<rows, ident>> /\ rerun' = [rerun EXCEPT ![c] = "no"]
        /\ \/ Send(Identify(c)) /\ missed' = missed
           \/ missed' = TRUE /\ UNCHANGED queue
    BY <1>10 DEF SchedulePostDiarization, nameVars
  <2>2. QueueTypes' /\ Grows
    BY <1>1, <2>1, Sent, NotSent
  <2>3. Expected'
    <3>1. CASE missed'
      BY <3>1 DEF Expected
    <3>2. CASE Send(Identify(c))
      BY <1>1, <3>2, Sent, QueuedWaits, MessageFields DEF Expected
    <3> QED
      BY <2>1, <3>1, <3>2
  <2>4. Rest
    BY <1>2, <1>4, <2>1, <2>2, <2>3, NoWorkerKept
  <2> QED
    BY <1>1, <1>2, <1>3, <1>4, <2>1, <2>2, <2>4 DEF IInv, Types
<1>11. CASE DiarizerLost(c)
  <2>1. /\ UNCHANGED <<rows, queue, ident>> /\ rerun' = [rerun EXCEPT ![c] = "no"]
        /\ missed' = (missed \/ rerun[c] # "running")
    BY <1>11 DEF DiarizerLost, nameVars
  <2>2. QueueTypes' /\ Grows
    BY <1>1, <2>1, NotSent
  <2>3. \/ Expected'
        \/ \A d \in Convs : rerun[d] \in {"index", "post"} => rerun'[d] \in {"index", "post"}
    <3>1. CASE rerun[c] = "running"
      BY <1>5, <2>1, <3>1
    <3>2. CASE rerun[c] # "running"
      BY <2>1, <3>2 DEF Expected
    <3> QED
      BY <3>1, <3>2
  <2>4. Rest
    BY <1>2, <1>4, <2>1, <2>2, <2>3, NoWorkerKept
  <2> QED
    BY <1>1, <1>2, <1>3, <1>4, <2>1, <2>2, <2>4 DEF IInv, Types
<1> QED
  BY <1>6, <1>7, <1>8, <1>9, <1>10, <1>11 DEF Diarize

-----------------------------------------------------------------------------
\* Tasks

\* A worker that is not idle is at a place of its task.
LEMMA Kinds == ASSUME IInv, NEW w \in Workers
               PROVE  /\ work[w].msg \in Messages
                      /\ work[w] # Idle => work[w].at \in PlacesOf(work[w].msg.kind)
                      /\ work[w].at # "idle" => work[w] # Idle
  BY IdleFields DEF IInv, Types, WorkTypes, PlacesFit

\* No place of a task is that of an idle worker.
LEMMA NoPlaceIsIdle == ASSUME NEW kind PROVE "idle" \notin PlacesOf(kind)
  BY DEF PlacesOf, Before

\* A task that goes on: it may leave the places at which it is waited for only when the
\* status says no longer that it runs.
LEMMA MoveKept ==
  ASSUME IInv, NEW w \in Workers, NEW l \in PlacesOf(work[w].msg.kind), Moves(w, l), Grows,
         NoNewRows, rerun' = rerun, missed => Expected',
         \A c \in Convs : Identify(c) \in lost => Identify(c) \in lost' \/ WillIdentify(c)',
         Summarize \in lost => Summarize \in lost' \/ WillSummarize',
         summary.status # "absent" => summary'.status # "absent",
         (work[w].msg.kind = "summary" /\ l \in {"llm", "store", "except"})
           => summary'.status # "absent",
         summary'.status = "running" => summary.status = "running" \/ WillSummarize',
         \A c \in Convs : ident'[c] = "running" => ident[c] = "running" \/ WillIdentify(c)',
         \A c \in Convs : (/\ work[w].msg = Identify(c) /\ work[w].at \in Before
                           /\ l \notin Before) => ident'[c] # "running",
         (work[w].msg.kind = "summary" /\ l = "store") => summary'.status # "running"
  PROVE  PlacesFit' /\ RowIsThere' /\ IdentifyWorked' /\ SummaryWorked' /\ PendingWorked'
<1>1. /\ WorkTypes /\ work'[w].msg = work[w].msg /\ work'[w].at = l
      /\ \A v \in Workers \ {w} : work'[v] = work[v]
  BY DEF IInv, Types, Moves
<1>2. PlacesFit'
  BY <1>1 DEF IInv, PlacesFit
<1>3. RowIsThere'
  BY <1>1 DEF IInv, RowIsThere
<1>4. IdentifyWorked'
  <2> SUFFICES ASSUME NEW c \in Convs, ident'[c] = "running"
               PROVE  WillIdentify(c)' \/ Identify(c) \in lost'
    BY DEF IdentifyWorked, Identify
  <2>1. CASE ident[c] = "running"
    <3>1. WillIdentify(c) \/ Identify(c) \in lost
      BY <2>1 DEF IInv, IdentifyWorked
    <3>2. CASE WillIdentify(c)
      <4>1. WillIdentify(c)' \/ (work[w].msg = Identify(c) /\ work[w].at \in Before)
        BY <1>1, <3>2, OthersWait
      <4> QED
        BY <4>1, MoverWaits
    <3> QED
      BY <3>1, <3>2
  <2> QED
    BY <2>1
<1>5. SummaryWorked'
  <2> SUFFICES ASSUME summary'.status = "running" PROVE WillSummarize' \/ Summarize \in lost'
    BY DEF SummaryWorked, Summarize
  <2>1. CASE summary.status = "running"
    <3>1. WillSummarize \/ Summarize \in lost
      BY <2>1 DEF IInv, SummaryWorked
    <3>2. CASE WillSummarize
      <4>1. WillSummarize' \/ work[w].msg = Summarize
        BY <1>1, <3>2, OthersWait
      <4>2. work[w].msg = Summarize => l \in {"start", "claim", "llm", "except"}
        BY MessageFields DEF PlacesOf
      <4> QED
        BY <4>1, <4>2, MoverWaits
    <3> QED
      BY <3>1, <3>2
  <2> QED
    BY <2>1
<1>6. Expected => Expected'
  <2>1. l # "idle"
    BY NoPlaceIsIdle
  <2>2. \A kind : Waits(kind) => Waits(kind)'
    BY <1>1, <2>1, OthersWait, MoverWaits
  <2> QED
    BY <2>2 DEF Expected
<1>7. PendingWorked'
  BY <1>6 DEF IInv, PendingWorked, NoNewRows
<1> QED
  BY <1>2, <1>3, <1>4, <1>5, <1>7

\* A task that ends: what it was waited for is done, or waited for elsewhere.
LEMMA EndKept ==
  ASSUME IInv, NEW w \in Workers, Ends(w), Grows, NoNewRows, rerun' = rerun, missed => missed',
         lost \subseteq lost',
         summary.status # "absent" => summary'.status # "absent",
         summary'.status = "running" => summary.status = "running",
         \A c \in Convs : ident'[c] = "running" => ident[c] = "running",
         \A c \in Convs : (work[w].msg = Identify(c) /\ work[w].at \in Before)
                            => Identify(c) \in lost' \/ ident'[c] # "running" \/ WillIdentify(c)',
         (work[w].msg = Summarize /\ work[w].at \in {"start", "claim", "llm", "except"})
           => Summarize \in lost' \/ summary'.status # "running" \/ WillSummarize',
         work[w].msg.kind \in {"identify", "summary"} => Expected' \/ summary'.status # "absent"
  PROVE  PlacesFit' /\ RowIsThere' /\ IdentifyWorked' /\ SummaryWorked' /\ PendingWorked'
<1>1. WorkTypes /\ work'[w] = Idle /\ \A v \in Workers \ {w} : work'[v] = work[v]
  BY DEF IInv, Types, Ends
<1>2. PlacesFit'
  BY <1>1 DEF IInv, PlacesFit
<1>3. RowIsThere'
  BY <1>1, IdleFields DEF IInv, RowIsThere
<1>4. IdentifyWorked'
  <2> SUFFICES ASSUME NEW c \in Convs, ident'[c] = "running"
               PROVE  WillIdentify(c)' \/ Identify(c) \in lost'
    BY DEF IdentifyWorked, Identify
  <2>1. WillIdentify(c) \/ Identify(c) \in lost
    BY DEF IInv, IdentifyWorked
  <2> QED
    BY <1>1, <2>1, OthersWait
<1>5. SummaryWorked'
  <2> SUFFICES ASSUME summary'.status = "running" PROVE WillSummarize' \/ Summarize \in lost'
    BY DEF SummaryWorked, Summarize
  <2>1. WillSummarize \/ Summarize \in lost
    BY DEF IInv, SummaryWorked
  <2> QED
    BY <1>1, <2>1, OthersWait
<1>6. PendingWorked'
  <2> SUFFICES ASSUME summary'.status = "absent", NEW c \in Convs, rows'[c] # <<>>
               PROVE  Expected'
    BY DEF PendingWorked
  <2>1. Expected
    BY DEF IInv, PendingWorked, NoNewRows
  <2>2. \A kind : Waits(kind) => Waits(kind)' \/ work[w].msg.kind = kind
    BY <1>1, OthersWait
  <2> QED
    BY <2>1, <2>2 DEF Expected
<1> QED
  BY <1>2, <1>3, <1>4, <1>5, <1>6

\* The chain and the requests are no business of a task, and it makes no rows.
LEMMA TaskFrame ==
  ASSUME IInv, NEW w \in Workers, Task(w)
  PROVE  /\ UNCHANGED <<rerun, req>> /\ NoNewRows /\ ChainTypes'
<1>1. DOMAIN rows = Convs /\ ChainTypes
  BY DEF IInv, Types, ChainTypes
<1>2. ASSUME UNCHANGED rows PROVE NoNewRows
  BY <1>1, <1>2 DEF NoNewRows
<1>3. UNCHANGED <<prev, length, rerun, req>> /\ NoNewRows
  <2>1. CASE (\E m \in Messages : Take(w, m)) \/ WorkerDies(w) \/ ChildLost(w) \/ Redeliver(w)
    BY <1>2, <2>1 DEF Take, WorkerDies, ChildLost, Redeliver, chainVars, nameVars, history
  <2>2. CASE \/ IdentifyBegin(w) \/ IdentifySkips(w) \/ (\E a \in Answers : IdentifyAnswered(w, a))
             \/ IdentifyRaises(w) \/ IdentifySchedules(w) \/ IdentifyHandler(w) \/ IdentifyLast(w)
    BY <1>2, <2>2 DEF IdentifyBegin, IdentifySkips, IdentifyAnswered, IdentifyRaises,
       IdentifySchedules, IdentifyHandler, IdentifyLast, chainVars, nameVars, history
  <2>3. CASE IdentifyCommits(w)
    <3>1. rows' = rows \/ rows' = Persist(Conv(w), work[w].row, work[w].copy)
      BY <2>3 DEF IdentifyCommits
    <3>2. NoNewRows
      BY <1>1, <1>2, <3>1, Persisted
    <3> QED
      BY <2>3, <3>2 DEF IdentifyCommits, chainVars
  <2>4. CASE SummaryReads(w) \/ SummaryClaims(w) \/ SummaryAnswered(w) \/ SummaryStored(w)
             \/ SummaryRaises(w) \/ SummaryHandler(w) \/ IndexReads(w) \/ IndexRaises(w)
    BY <1>2, <2>4 DEF SummaryReads, SummaryClaims, SummaryAnswered, SummaryStored, SummaryRaises,
       SummaryHandler, IndexReads, IndexRaises, chainVars, nameVars, history
  <2>5. CASE IndexWrites(w)
    <3> DEFINE r == work[w].msg.row
               c == Conv(w)
               written == [rows[c][r] EXCEPT !.vector = work[w].copy]
               one == [rows EXCEPT ![c] = [rows[c] EXCEPT ![r] = written]]
    <3>1. rows' = [one EXCEPT ![c] = [one[c] EXCEPT ![r] = [one[c][r] EXCEPT !.indexed = TRUE]]]
      BY <2>5 DEF IndexWrites
    <3> HIDE DEF written, r, c
    <3>2. DOMAIN one = Convs /\ \A d \in Convs : rows[d] = <<>> => one[d] = <<>>
      BY <1>1, EmptyStays
    <3> HIDE DEF one
    <3> DEFINE x == [one[c][r] EXCEPT !.indexed = TRUE]
    <3>3. rows' = [one EXCEPT ![c] = [one[c] EXCEPT ![r] = x]]
      BY <3>1
    <3> HIDE DEF x
    <3>4. DOMAIN rows' = Convs /\ \A d \in Convs : one[d] = <<>> => rows'[d] = <<>>
      BY <3>2, <3>3, EmptyStays
    <3>5. NoNewRows
      BY <3>2, <3>4 DEF NoNewRows
    <3> QED
      BY <2>5, <3>5 DEF IndexWrites, chainVars, history
  <2> QED
    BY <2>1, <2>2, <2>3, <2>4, <2>5 DEF Task
<1> QED
  BY <1>1, <1>3 DEF ChainTypes, NoNewRows

\* The message of a task is in the queue, at work or back again.
LEMMA MessageKept ==
  ASSUME IInv, NEW w \in Workers,
         (\E m \in Messages : Take(w, m)) \/ WorkerDies(w) \/ ChildLost(w) \/ Redeliver(w)
  PROVE  IInv'
<1> DEFINE Rest == PlacesFit' /\ RowIsThere' /\ IdentifyWorked' /\ SummaryWorked' /\ PendingWorked'
<1>1. QueueTypes /\ WorkTypes /\ SummaryTypes /\ NameTypes
  BY DEF IInv, Types
<1>2. /\ UNCHANGED <<ident, summary, rerun, req>> /\ NoNewRows /\ ChainTypes'
      /\ NameTypes' /\ SummaryTypes' /\ (UNCHANGED <<missed, lost>> \/ ChildLost(w))
  <2>1. UNCHANGED <<ident, summary>> /\ (UNCHANGED <<missed, lost>> \/ ChildLost(w))
    BY DEF Take, WorkerDies, ChildLost, Redeliver, nameVars, history
  <2>2. UNCHANGED <<rerun, req>> /\ NoNewRows /\ ChainTypes'
    BY TaskFrame DEF Task
  <2> QED
    BY <1>1, <2>1, <2>2 DEF NameTypes, SummaryTypes
<1>3. ASSUME NEW m \in Messages, Take(w, m) PROVE IInv'
  <2>0. UNCHANGED <<missed, lost>>
    BY <1>3 DEF Take, history
  <2>1. /\ work[w] = Idle /\ queue[m] > 0 /\ queue' = [queue EXCEPT ![m] = @ - 1]
        /\ work' = [work EXCEPT ![w] = [Idle EXCEPT !.msg = m, !.at = "start"]]
    BY <1>3 DEF Take
  <2>2. QueueTypes' /\ \A q \in Messages \ {m} : queue[q] > 0 => queue'[q] > 0
    BY <1>1, <2>1 DEF QueueTypes
  <2> DEFINE c == [Idle EXCEPT !.msg = m, !.at = "start"]
  <2>3. c = [f \in Fields |-> c[f]] /\ c.msg = m /\ c.at = "start"
    BY IdleFields DEF Fields
  <2>4. work' = [work EXCEPT ![w] = c]
    BY <2>1
  <2> HIDE DEF c
  <2>5. /\ DOMAIN work' = Workers /\ work'[w] = c
        /\ \A v \in Workers \ {w} : work'[v] = work[v]
    BY <1>1, <2>4 DEF WorkTypes
  <2>6. WorkTypes'
    BY <1>1, <2>3, <2>5 DEF WorkTypes
  <2>7. PlacesFit'
    BY <2>3, <2>5, MessageFields DEF IInv, PlacesFit, PlacesOf, Before
  <2>8. RowIsThere'
    BY <1>2, <2>3, <2>5 DEF IInv, RowIsThere
  <2>9. \A d \in Convs : WillIdentify(d) => WillIdentify(d)'
    <3> SUFFICES ASSUME NEW d \in Convs, WillIdentify(d) PROVE WillIdentify(d)'
      OBVIOUS
    <3>1. ASSUME NEW v \in Workers, work[v].msg = Identify(d), work[v].at \in Before
          PROVE  WillIdentify(d)'
      BY <2>1, <2>5, <3>1, IdleFields DEF WillIdentify, Before, Identify
    <3>2. ASSUME queue[Identify(d)] > 0, Identify(d) # m PROVE WillIdentify(d)'
      BY <2>2, <3>2, MessageFields DEF WillIdentify, Identify
    <3>3. ASSUME Identify(d) = m PROVE WillIdentify(d)'
      BY <2>3, <2>5, <3>3 DEF WillIdentify, Before, Identify
    <3> QED
      BY <3>1, <3>2, <3>3 DEF WillIdentify
  <2>10. WillSummarize => WillSummarize'
    <3>1. ASSUME NEW v \in Workers, work[v].msg = Summarize,
                 work[v].at \in {"start", "claim", "llm", "except"}
          PROVE  WillSummarize'
      BY <2>1, <2>5, <3>1, IdleFields DEF WillSummarize, Summarize
    <3>2. ASSUME queue[Summarize] > 0, Summarize # m PROVE WillSummarize'
      BY <2>2, <3>2, MessageFields DEF WillSummarize, Summarize
    <3>3. ASSUME Summarize = m PROVE WillSummarize'
      BY <2>3, <2>5, <3>3 DEF WillSummarize, Summarize
    <3> QED
      BY <3>1, <3>2, <3>3 DEF WillSummarize
  <2>11. \A kind : Waits(kind) => Waits(kind)'
    <3> SUFFICES ASSUME NEW kind, Waits(kind) PROVE Waits(kind)'
      OBVIOUS
    <3>1. ASSUME NEW v \in Workers, AtWork(v), work[v].msg.kind = kind PROVE Waits(kind)'
      BY <2>1, <2>5, <3>1, IdleFields DEF Waits, AtWork
    <3>2. ASSUME NEW q \in Messages, q.kind = kind, queue[q] > 0, q # m PROVE Waits(kind)'
      BY <2>2, <3>2 DEF Waits
    <3>3. ASSUME m.kind = kind PROVE Waits(kind)'
      BY <2>3, <2>5, <3>3 DEF Waits, AtWork
    <3> QED
      BY <3>1, <3>2, <3>3 DEF Waits
  <2>12. IdentifyWorked' /\ SummaryWorked'
    BY <1>2, <2>0, <2>9, <2>10 DEF IInv, Identify, Summarize, IdentifyWorked, SummaryWorked
  <2>13. PendingWorked'
    BY <1>2, <2>0, <2>11 DEF IInv, PendingWorked, Expected, NoNewRows
  <2> QED
    BY <1>2, <2>2, <2>6, <2>7, <2>8, <2>12, <2>13 DEF IInv, Types
<1>4. CASE WorkerDies(w)
  <2>1. PICK m \in Messages : m = work[w].msg
    BY Kinds
  <2>2. Send(m) /\ Finish(w) /\ UNCHANGED <<missed, lost>>
    BY <1>4, <2>1 DEF WorkerDies, PutBack, history
  <2>3. QueueTypes' /\ Grows /\ queue'[m] > 0
    BY <1>1, <2>2, Sent
  <2>4. Ends(w) /\ WorkTypes'
    BY <1>1, <2>2, FinishEnds DEF Ends
  <2>5. /\ \A c \in Convs : m = Identify(c) => WillIdentify(c)'
        /\ m = Summarize => WillSummarize'
        /\ Waits(m.kind)'
    BY <2>3, QueuedWaits
  <2>6. m.kind \in {"identify", "summary"} => Expected'
    BY <2>5 DEF Expected
  <2>7. Rest
    BY <1>2, <2>1, <2>2, <2>3, <2>4, <2>5, <2>6, EndKept
  <2> QED
    BY <1>2, <2>3, <2>4, <2>7 DEF IInv, Types
<1>5. CASE Redeliver(w)
  <2>1. Send(work[w].msg) /\ work' = work /\ UNCHANGED <<missed, lost>>
    BY <1>5 DEF Redeliver, PutBack, history
  <2>2. QueueTypes' /\ Grows
    BY <1>1, <2>1, Sent
  <2>3. WorkTypes'
    BY <1>1, <2>1 DEF WorkTypes
  <2>4. Rest
    BY <1>2, <2>1, <2>2, NoWorkerKept DEF NoNewRows
  <2> QED
    BY <1>2, <2>2, <2>3, <2>4 DEF IInv, Types
<1>6. CASE ChildLost(w)
  <2>1. Finish(w) /\ Lose(work[w].msg) /\ UNCHANGED queue
    BY <1>6 DEF ChildLost
  <2>2. QueueTypes' /\ Grows
    BY <1>1, <2>1, NotSent
  <2>3. Ends(w) /\ WorkTypes'
    BY <1>1, <2>1, FinishEnds DEF Ends
  <2>4. /\ lost \subseteq lost' /\ (missed => missed')
        /\ work[w].msg.kind # "index" => work[w].msg \in lost' /\ missed'
    BY <2>1 DEF Lose
  <2>5. /\ \A c \in Convs : work[w].msg = Identify(c) => Identify(c) \in lost'
        /\ work[w].msg = Summarize => Summarize \in lost'
        /\ work[w].msg.kind \in {"identify", "summary"} => Expected'
    BY <2>4, MessageFields DEF Expected
  <2>6. Rest
    BY <1>2, <2>2, <2>3, <2>4, <2>5, EndKept
  <2> QED
    BY <1>2, <2>2, <2>3, <2>6 DEF IInv, Types
<1> QED
  BY <1>3, <1>4, <1>5, <1>6

\* A task of identification goes on, or ends with the summary queued or missed.
LEMMA IdentifyKept ==
  ASSUME IInv, NEW w \in Workers,
         \/ IdentifyBegin(w) \/ IdentifySkips(w) \/ (\E a \in Answers : IdentifyAnswered(w, a))
         \/ IdentifyCommits(w) \/ IdentifyRaises(w) \/ IdentifySchedules(w)
         \/ IdentifyHandler(w) \/ IdentifyLast(w)
  PROVE  IInv'
<1> DEFINE Rest == PlacesFit' /\ RowIsThere' /\ IdentifyWorked' /\ SummaryWorked' /\ PendingWorked'
<1>1. QueueTypes /\ WorkTypes /\ SummaryTypes /\ NameTypes
  BY DEF IInv, Types
<1>2. UNCHANGED <<rerun, req>> /\ NoNewRows /\ ChainTypes'
  BY TaskFrame DEF Task
<1>3. UNCHANGED summary /\ SummaryTypes'
  BY <1>1 DEF IdentifyBegin, IdentifySkips, IdentifyAnswered, IdentifyCommits, IdentifyRaises,
     IdentifySchedules, IdentifyHandler, IdentifyLast, SummaryTypes
<1>4. work[w].msg.kind = "identify"
  <2>1. CASE IdentifyCommits(w)
    BY <2>1, Kinds DEF IdentifyCommits, PlacesOf, Before, Idle
  <2> QED
    BY <2>1 DEF IdentifyBegin, IdentifySkips, IdentifyAnswered, IdentifyRaises,
       IdentifySchedules, IdentifyHandler, IdentifyLast, Is
<1>5. PICK c \in Convs : work[w].msg = Identify(c) /\ Conv(w) = c
  BY <1>4, Kinds, MessageFields DEF Conv
<1>6. \A d \in Convs : work[w].msg = Identify(d) => d = c
  BY <1>5 DEF Identify, Msg
<1>7. work[w].msg # Summarize
  BY <1>4, MessageFields
<1>8. ASSUME UNCHANGED ident PROVE NameTypes'
  BY <1>1, <1>2, <1>8 DEF NameTypes
<1>9. ASSUME NEW x \in {"running", "skipped", "success", "failed"},
             ident' = [ident EXCEPT ![c] = x]
      PROVE  NameTypes' /\ ident'[c] = x /\ \A d \in Convs \ {c} : ident'[d] = ident[d]
  BY <1>1, <1>2, <1>9 DEF NameTypes
<1>10. ASSUME NEW l \in PlacesOf("identify"), Moves(w, l), Grows, UNCHANGED missed,
              lost \subseteq lost' \cup {Identify(c)},
              Identify(c) \in lost => Identify(c) \in lost' \/ l \in Before,
              \A d \in Convs : ident'[d] = "running" => ident[d] = "running" \/ WillIdentify(d)',
              (work[w].at \in Before /\ l \notin Before) => ident'[c] # "running"
       PROVE  Rest
  <2>1. missed => Expected'
    BY <1>10 DEF Expected
  <2>2. \A d \in Convs : Identify(d) \in lost => Identify(d) \in lost' \/ WillIdentify(d)'
    <3> SUFFICES ASSUME NEW d \in Convs, Identify(d) \in lost, Identify(d) \notin lost'
                 PROVE  WillIdentify(d)'
      BY DEF Identify
    <3>1. d = c /\ l \in Before
      BY <1>10, MessageFields
    <3> QED
      BY <1>5, <1>10, <3>1, MoverWaits
  <2>3. Summarize \in lost => Summarize \in lost'
    BY <1>10, MessageFields
  <2> QED
    BY <1>2, <1>3, <1>4, <1>6, <1>10, <2>1, <2>2, <2>3, MoveKept
<1>11. ASSUME Ends(w), Grows, Expected', missed => missed', lost \subseteq lost',
              \A d \in Convs : ident'[d] = "running" => ident[d] = "running",
              work[w].at \in Before => Identify(c) \in lost' \/ ident'[c] # "running"
       PROVE  Rest
  BY <1>2, <1>3, <1>6, <1>7, <1>11, EndKept
<1>12. ASSUME QueueTypes, Send(Summarize) PROVE QueueTypes' /\ Grows /\ Expected'
  <2>1. QueueTypes' /\ Grows /\ queue'[Summarize] > 0
    BY <1>12, Sent, MessageFields
  <2> QED
    BY <2>1, QueuedWaits, MessageFields DEF Expected
<1>13. CASE IdentifyBegin(w)
  <2>1. Goto(w, "llm") /\ ident' = [ident EXCEPT ![c] = "running"]
        /\ UNCHANGED <<queue, missed>> /\ lost' = lost \ {Identify(c)}
    BY <1>5, <1>13 DEF IdentifyBegin
  <2>2. Moves(w, "llm") /\ WorkTypes' /\ QueueTypes' /\ Grows
    BY <1>1, <2>1, GotoMoves, NotSent DEF Moves
  <2>3. WillIdentify(c)'
    BY <1>5, <2>2, MoverWaits DEF Before
  <2>4. NameTypes' /\ \A d \in Convs \ {c} : ident'[d] = ident[d]
    BY <1>9, <2>1
  <2>5. Rest
    BY <1>10, <2>1, <2>2, <2>3, <2>4 DEF PlacesOf, Before
  <2> QED
    BY <1>2, <1>3, <2>2, <2>4, <2>5 DEF IInv, Types
<1>14. CASE IdentifySkips(w)
  <2>1. /\ UNCHANGED <<missed, lost>>
        /\ \/ Finish(w) /\ Send(Summarize) /\ ident' = [ident EXCEPT ![c] = "skipped"]
           \/ Goto(w, "except") /\ UNCHANGED <<ident, queue>>
    BY <1>5, <1>14 DEF IdentifySkips, history
  <2>2. CASE Finish(w) /\ Send(Summarize) /\ ident' = [ident EXCEPT ![c] = "skipped"]
    <3>1. Ends(w) /\ WorkTypes' /\ QueueTypes' /\ Grows /\ Expected'
      BY <1>1, <1>12, <2>2, FinishEnds DEF Ends
    <3>2. NameTypes' /\ ident'[c] = "skipped" /\ \A d \in Convs \ {c} : ident'[d] = ident[d]
      BY <1>9, <2>2
    <3>3. Rest
      BY <1>11, <2>1, <3>1, <3>2
    <3> QED
      BY <1>2, <1>3, <3>1, <3>2, <3>3 DEF IInv, Types
  <2>3. CASE Goto(w, "except") /\ UNCHANGED <<ident, queue>>
    <3>1. Moves(w, "except") /\ WorkTypes' /\ QueueTypes' /\ Grows
      BY <1>1, <2>3, GotoMoves, NotSent DEF Moves
    <3>2. Rest
      BY <1>10, <2>1, <2>3, <3>1 DEF PlacesOf, Before
    <3> QED
      BY <1>2, <1>3, <1>8, <2>3, <3>1, <3>2 DEF IInv, Types
  <2> QED
    BY <2>1, <2>2, <2>3
<1>15. ASSUME NEW a \in Answers, IdentifyAnswered(w, a) PROVE IInv'
  <2> DEFINE l == IF a = NoNames THEN "skip" ELSE
                  IF \E s \in Speakers : a[s] = "auto" THEN "persist" ELSE "suggest"
             next == [work[w] EXCEPT !.at = l, !.base = labels[c], !.copy = Merge(labels[c], a),
                                     !.row = Newest(c)]
  <2>1. work' = [work EXCEPT ![w] = next]
    BY <1>5, <1>15 DEF IdentifyAnswered
  <2>2. UNCHANGED <<ident, missed, lost>>
        /\ (SendIndex(c, Newest(c)) \/ UNCHANGED queue)
    BY <1>5, <1>15 DEF IdentifyAnswered, nameVars
  <2>3. work[w] = [f \in Fields |-> work[w][f]]
    BY <1>1 DEF WorkTypes
  <2>4. l \in {"skip", "persist", "suggest"}
    OBVIOUS
  <2> HIDE DEF l
  <2>5. next = [f \in Fields |-> next[f]] /\ next.msg = work[w].msg /\ next.at = l
    BY <2>3 DEF Fields
  <2> HIDE DEF next
  <2>6. Moves(w, l) /\ WorkTypes'
    BY <1>1, <2>1, <2>5, MovesTo DEF Moves
  <2>7. QueueTypes' /\ Grows
    BY <1>1, <2>2, IndexSent, NotSent
  <2>8. Rest
    BY <1>10, <2>2, <2>4, <2>6, <2>7 DEF PlacesOf, Before
  <2> QED
    BY <1>2, <1>3, <1>8, <2>2, <2>6, <2>7, <2>8 DEF IInv, Types
<1>16. CASE IdentifyCommits(w)
  <2> DEFINE x == IF work[w].at = "skip" THEN "skipped" ELSE "success"
  <2>1. Continue(w, "post") /\ ident' = [ident EXCEPT ![c] = x]
        /\ UNCHANGED <<queue, missed, lost>>
    BY <1>5, <1>16 DEF IdentifyCommits
  <2>2. Moves(w, "post") /\ WorkTypes' /\ QueueTypes' /\ Grows
    BY <1>1, <2>1, ContinueMoves, NotSent DEF Moves
  <2>3. NameTypes' /\ ident'[c] = x /\ \A d \in Convs \ {c} : ident'[d] = ident[d]
    BY <1>9, <2>1
  <2>4. Rest
    BY <1>10, <2>1, <2>2, <2>3 DEF PlacesOf
  <2> QED
    BY <1>2, <1>3, <2>2, <2>3, <2>4 DEF IInv, Types
<1>17. CASE IdentifyRaises(w)
  <2>1. Continue(w, "except") /\ UNCHANGED <<ident, queue, missed, lost>>
    BY <1>17 DEF IdentifyRaises, nameVars, history
  <2>2. Moves(w, "except") /\ WorkTypes' /\ QueueTypes' /\ Grows
    BY <1>1, <2>1, ContinueMoves, NotSent DEF Moves
  <2>3. Rest
    BY <1>10, <2>1, <2>2 DEF PlacesOf, Before
  <2> QED
    BY <1>2, <1>3, <1>8, <2>1, <2>2, <2>3 DEF IInv, Types
<1>18. CASE IdentifySchedules(w)
  <2>1. work[w].at = "post" /\ UNCHANGED <<ident, missed, lost>>
        /\ \/ Send(Summarize) /\ Finish(w)
           \/ Goto(w, "except") /\ UNCHANGED queue
    BY <1>18 DEF IdentifySchedules, Is, nameVars, history
  <2>2. CASE Send(Summarize) /\ Finish(w)
    <3>1. Ends(w) /\ WorkTypes' /\ QueueTypes' /\ Grows /\ Expected'
      BY <1>1, <1>12, <2>2, FinishEnds DEF Ends
    <3>2. Rest
      BY <1>11, <2>1, <3>1 DEF Before
    <3> QED
      BY <1>2, <1>3, <1>8, <2>1, <3>1, <3>2 DEF IInv, Types
  <2>3. CASE Goto(w, "except") /\ UNCHANGED queue
    <3>1. Moves(w, "except") /\ WorkTypes' /\ QueueTypes' /\ Grows
      BY <1>1, <2>3, GotoMoves, NotSent DEF Moves
    <3>2. Rest
      BY <1>10, <2>1, <3>1 DEF PlacesOf, Before
    <3> QED
      BY <1>2, <1>3, <1>8, <2>1, <3>1, <3>2 DEF IInv, Types
  <2> QED
    BY <2>1, <2>2, <2>3
<1>19. CASE IdentifyHandler(w)
  <2>1. UNCHANGED queue
        /\ \/ /\ ident' = [ident EXCEPT ![c] = "failed"] /\ Goto(w, "last")
              /\ UNCHANGED <<missed, lost>>
           \/ /\ Finish(w) /\ UNCHANGED ident
              /\ missed' = TRUE /\ lost \subseteq lost' /\ Identify(c) \in lost'
    BY <1>4, <1>5, <1>19 DEF IdentifyHandler, Lose
  <2>2. QueueTypes' /\ Grows
    BY <1>1, <2>1, NotSent
  <2>3. CASE ident' = [ident EXCEPT ![c] = "failed"] /\ Goto(w, "last")
             /\ UNCHANGED <<missed, lost>>
    <3>1. Moves(w, "last") /\ WorkTypes'
      BY <1>1, <2>3, GotoMoves DEF Moves
    <3>2. NameTypes' /\ ident'[c] = "failed" /\ \A d \in Convs \ {c} : ident'[d] = ident[d]
      BY <1>9, <2>3
    <3>3. Rest
      BY <1>10, <2>2, <2>3, <3>1, <3>2 DEF PlacesOf
    <3> QED
      BY <1>2, <1>3, <2>2, <3>1, <3>2, <3>3 DEF IInv, Types
  <2>4. CASE /\ Finish(w) /\ UNCHANGED ident
             /\ missed' = TRUE /\ lost \subseteq lost' /\ Identify(c) \in lost'
    <3>1. Ends(w) /\ WorkTypes' /\ Expected'
      BY <1>1, <2>4, FinishEnds DEF Ends, Expected
    <3>2. Rest
      BY <1>11, <2>2, <2>4, <3>1
    <3> QED
      BY <1>2, <1>3, <1>8, <2>2, <2>4, <3>1, <3>2 DEF IInv, Types
  <2> QED
    BY <2>1, <2>3, <2>4
<1>20. CASE IdentifyLast(w)
  <2>1. /\ work[w].at = "last" /\ Finish(w) /\ UNCHANGED <<ident, lost>>
        /\ \/ Send(Summarize) /\ UNCHANGED missed
           \/ missed' = TRUE /\ UNCHANGED queue
    BY <1>20 DEF IdentifyLast, Is, nameVars
  <2>2. QueueTypes' /\ Grows /\ Expected' /\ (missed => missed')
    <3>1. CASE Send(Summarize) /\ UNCHANGED missed
      BY <1>1, <1>12, <3>1
    <3>2. CASE missed' = TRUE /\ UNCHANGED queue
      BY <1>1, <3>2, NotSent DEF Expected
    <3> QED
      BY <2>1, <3>1, <3>2
  <2>3. Ends(w) /\ WorkTypes'
    BY <1>1, <2>1, FinishEnds DEF Ends
  <2>4. Rest
    BY <1>11, <2>1, <2>2, <2>3 DEF Before
  <2> QED
    BY <1>2, <1>3, <1>8, <2>1, <2>2, <2>3, <2>4 DEF IInv, Types
<1> QED
  BY <1>13, <1>14, <1>15, <1>16, <1>17, <1>18, <1>19, <1>20

\* A task of the summary goes on, or ends when the summary's row is there.
LEMMA SummaryKept ==
  ASSUME IInv, NEW w \in Workers,
         \/ SummaryReads(w) \/ SummaryClaims(w) \/ SummaryAnswered(w) \/ SummaryStored(w)
         \/ SummaryRaises(w) \/ SummaryHandler(w)
  PROVE  IInv'
<1> DEFINE Rest == PlacesFit' /\ RowIsThere' /\ IdentifyWorked' /\ SummaryWorked' /\ PendingWorked'
<1>1. QueueTypes /\ WorkTypes /\ SummaryTypes /\ NameTypes
  BY DEF IInv, Types
<1>2. UNCHANGED <<rerun, req>> /\ NoNewRows /\ ChainTypes'
  BY TaskFrame DEF Task
<1>3. UNCHANGED <<ident, queue>> /\ NameTypes' /\ QueueTypes' /\ Grows
  <2>1. UNCHANGED <<ident, queue>>
    BY DEF SummaryReads, SummaryClaims, SummaryAnswered, SummaryStored, SummaryRaises,
       SummaryHandler, nameVars
  <2> QED
    BY <1>1, <1>2, <2>1, NotSent DEF NameTypes
<1>4. work[w].msg.kind = "summary" /\ work[w].msg = Summarize
  <2>1. work[w].msg.kind = "summary"
    BY DEF SummaryReads, SummaryClaims, SummaryAnswered, SummaryStored, SummaryRaises,
       SummaryHandler, Is
  <2> QED
    BY <2>1, Kinds, MessageFields
<1>5. \A c \in Convs : work[w].msg # Identify(c)
  BY <1>4, MessageFields
<1>6. ASSUME NEW l, Moves(w, l), l # "idle" PROVE Expected'
  <2>1. work'[w].at # "idle" /\ work'[w].msg.kind = "summary"
    BY <1>4, <1>6 DEF Moves
  <2>2. Waits("summary")'
    BY <2>1 DEF Waits, AtWork
  <2> QED
    BY <2>2 DEF Expected
<1>7. ASSUME NEW l \in PlacesOf("summary"), Moves(w, l), lost \subseteq lost' \cup {Summarize},
             Summarize \in lost => Summarize \in lost' \/ WillSummarize',
             summary.status # "absent" => summary'.status # "absent",
             l \in {"llm", "store", "except"} => summary'.status # "absent",
             summary'.status = "running" => summary.status = "running" \/ WillSummarize',
             l = "store" => summary'.status # "running"
      PROVE  Rest
  <2>1. Expected'
    BY <1>6, <1>7, NoPlaceIsIdle
  <2>2. \A c \in Convs : Identify(c) \in lost => Identify(c) \in lost'
    BY <1>7, MessageFields
  <2> QED
    BY <1>2, <1>3, <1>4, <1>5, <1>7, <2>1, <2>2, MoveKept
<1>8. ASSUME Ends(w), missed => missed', lost \subseteq lost', summary'.status # "absent",
             summary'.status = "running" => summary.status = "running",
             work[w].at # "store" => Summarize \in lost' \/ summary'.status # "running"
      PROVE  Rest
  BY <1>2, <1>3, <1>5, <1>8, EndKept
<1>9. CASE SummaryReads(w)
  <2>1. PICK order, fit :
          work' = [work EXCEPT ![w].at = "claim", ![w].segs = Bundle(order, fit),
                               ![w].seen = summary.status # "absent"]
    BY <1>9 DEF SummaryReads
  <2> DEFINE next == [work[w] EXCEPT !.at = "claim", !.segs = Bundle(order, fit),
                                     !.seen = summary.status # "absent"]
  <2>2. work' = [work EXCEPT ![w] = next]
    BY <2>1
  <2>3. work[w] = [f \in Fields |-> work[w][f]]
    BY <1>1 DEF WorkTypes
  <2>4. next = [f \in Fields |-> next[f]] /\ next.msg = work[w].msg /\ next.at = "claim"
    BY <2>3 DEF Fields
  <2> HIDE DEF next
  <2>5. Moves(w, "claim") /\ WorkTypes'
    BY <1>1, <2>2, <2>4, MovesTo DEF Moves
  <2>6. UNCHANGED <<summary, lost>> /\ SummaryTypes'
    BY <1>1, <1>9 DEF SummaryReads, SummaryTypes
  <2>7. Rest
    BY <1>7, <2>5, <2>6 DEF PlacesOf
  <2> QED
    BY <1>2, <1>3, <2>5, <2>6, <2>7 DEF IInv, Types
<1>10. CASE SummaryClaims(w)
  <2>1. /\ lost \subseteq lost' \cup {Summarize}
        /\ \/ Continue(w, "except") /\ UNCHANGED summary /\ summary.status # "absent"
           \/ /\ summary' = [summary EXCEPT !.status = "running"]
              /\ Continue(w, "except") \/ Goto(w, "llm")
    BY <1>10 DEF SummaryClaims, history
  <2>2. PICK l \in {"llm", "except"} : Moves(w, l)
    BY <1>1, <2>1, ContinueMoves, GotoMoves
  <2>3. WorkTypes' /\ WillSummarize'
    BY <1>4, <2>2, MoverWaits DEF Moves
  <2>4. SummaryTypes' /\ summary'.status # "absent"
    BY <1>1, <2>1 DEF SummaryTypes
  <2>5. l \in PlacesOf("summary") /\ l # "store"
    BY <2>2 DEF PlacesOf
  <2>6. Rest
    BY <1>7, <2>1, <2>2, <2>3, <2>4, <2>5
  <2> QED
    BY <1>2, <1>3, <2>3, <2>4, <2>6 DEF IInv, Types
<1>11. CASE SummaryAnswered(w)
  <2>1. Continue(w, "store") /\ UNCHANGED lost /\ SummaryTypes' /\ summary'.status = "success"
    BY <1>11 DEF SummaryAnswered, SummaryTypes, history
  <2>2. Moves(w, "store") /\ WorkTypes'
    BY <1>1, <2>1, ContinueMoves DEF Moves
  <2>3. Rest
    BY <1>7, <2>1, <2>2 DEF PlacesOf
  <2> QED
    BY <1>2, <1>3, <2>1, <2>2, <2>3 DEF IInv, Types
<1>12. CASE SummaryStored(w)
  <2>1. Finish(w) /\ work[w].at = "store" /\ UNCHANGED <<summary, lost, missed>>
    BY <1>12 DEF SummaryStored, Is, history
  <2>2. Ends(w) /\ WorkTypes' /\ SummaryTypes' /\ summary.status # "absent"
    BY <1>1, <1>4, <2>1, FinishEnds DEF Ends, SummaryTypes, IInv, RowIsThere
  <2>3. Rest
    BY <1>8, <2>1, <2>2
  <2> QED
    BY <1>2, <1>3, <2>2, <2>3 DEF IInv, Types
<1>13. CASE SummaryRaises(w)
  <2>1. Continue(w, "except") /\ work[w].at \in {"llm", "store"}
        /\ UNCHANGED <<summary, lost>>
    BY <1>13 DEF SummaryRaises, Is, history
  <2>2. Moves(w, "except") /\ WorkTypes' /\ SummaryTypes' /\ summary.status # "absent"
    BY <1>1, <1>4, <2>1, ContinueMoves DEF Moves, SummaryTypes, IInv, RowIsThere
  <2>3. Rest
    BY <1>7, <2>1, <2>2 DEF PlacesOf
  <2> QED
    BY <1>2, <1>3, <2>2, <2>3 DEF IInv, Types
<1>14. CASE SummaryHandler(w)
  <2>1. /\ Finish(w) /\ work[w].at = "except"
        /\ \/ summary' = [summary EXCEPT !.status = "failed"] /\ UNCHANGED <<lost, missed>>
           \/ /\ lost \subseteq lost' /\ Summarize \in lost' /\ missed' = TRUE
              /\ UNCHANGED summary
    BY <1>14, MessageFields DEF SummaryHandler, Is, Lose
  <2>2. Ends(w) /\ WorkTypes' /\ SummaryTypes' /\ summary.status # "absent"
    BY <1>1, <1>4, <2>1, FinishEnds DEF Ends, SummaryTypes, IInv, RowIsThere
  <2>3. summary'.status # "absent" /\ (Summarize \in lost' \/ summary'.status = "failed")
    BY <1>1, <2>1, <2>2 DEF SummaryTypes
  <2>4. (summary'.status = "running" => summary.status = "running")
        /\ (missed => missed') /\ lost \subseteq lost' 
    BY <1>1, <2>1 DEF SummaryTypes
  <2>5. Rest
    BY <1>8, <2>2, <2>3, <2>4
  <2> QED
    BY <1>2, <1>3, <2>2, <2>5 DEF IInv, Types
<1> QED
  BY <1>9, <1>10, <1>11, <1>12, <1>13, <1>14

\* A task of the index is waited for by nobody.
LEMMA IndexKept ==
  ASSUME IInv, NEW w \in Workers, IndexReads(w) \/ IndexWrites(w) \/ IndexRaises(w)
  PROVE  IInv'
<1> DEFINE Rest == PlacesFit' /\ RowIsThere' /\ IdentifyWorked' /\ SummaryWorked' /\ PendingWorked'
<1>1. QueueTypes /\ WorkTypes /\ SummaryTypes /\ NameTypes
  BY DEF IInv, Types
<1>2. UNCHANGED <<rerun, req>> /\ NoNewRows /\ ChainTypes'
  BY TaskFrame DEF Task
<1>3. UNCHANGED <<ident, summary, queue, missed, lost>>
  BY DEF IndexReads, IndexWrites, IndexRaises, nameVars, history
<1>4. QueueTypes' /\ Grows /\ NameTypes' /\ SummaryTypes'
  BY <1>1, <1>2, <1>3, NotSent DEF NameTypes, SummaryTypes
<1>5. work[w].msg.kind = "index"
  BY DEF IndexReads, IndexWrites, IndexRaises, Is
<1>6. work[w].msg # Summarize /\ \A c \in Convs : work[w].msg # Identify(c)
  BY <1>5, MessageFields
<1>7. CASE IndexReads(w)
  <2> DEFINE c == Conv(w)
             r == work[w].msg.row
             next == [work[w] EXCEPT !.at = "embed", !.copy = rows[c][r].names]
  <2>1. work' = [work EXCEPT ![w] = next]
    BY <1>7 DEF IndexReads
  <2>2. work[w] = [f \in Fields |-> work[w][f]]
    BY <1>1 DEF WorkTypes
  <2>3. next = [f \in Fields |-> next[f]] /\ next.msg = work[w].msg /\ next.at = "embed"
    BY <2>2 DEF Fields
  <2> HIDE DEF next
  <2>4. Moves(w, "embed") /\ WorkTypes'
    BY <1>1, <2>1, <2>3, MovesTo DEF Moves
  <2>5. "embed" \in PlacesOf(work[w].msg.kind) /\ (missed => Expected')
    BY <1>3, <1>5 DEF PlacesOf, Expected
  <2>6. Rest
    BY <1>2, <1>3, <1>4, <1>5, <1>6, <2>4, <2>5, MoveKept
  <2> QED
    BY <1>2, <1>4, <2>4, <2>6 DEF IInv, Types
<1>8. CASE IndexWrites(w) \/ IndexRaises(w)
  <2>1. Ends(w) /\ WorkTypes'
    BY <1>1, <1>8, FinishEnds DEF Ends, IndexWrites, IndexRaises
  <2>2. Rest
    BY <1>2, <1>3, <1>4, <1>5, <1>6, <2>1, EndKept
  <2> QED
    BY <1>2, <1>4, <2>1, <2>2 DEF IInv, Types
<1> QED
  BY <1>7, <1>8

-----------------------------------------------------------------------------
\* The specification

\* Every step, and a step that changes nothing, keeps the invariant.
LEMMA StepKept ==
  ASSUME IInv, [Next]_vars
  PROVE  IInv'
<1>1. CASE Request
  BY <1>1, RequestKept
<1>2. ASSUME NEW c \in Convs, Diarize(c) PROVE IInv'
  BY <1>2, DiarizeKept
<1>3. ASSUME NEW w \in Workers, Task(w) PROVE IInv'
  BY <1>3, MessageKept, IdentifyKept, SummaryKept, IndexKept DEF Task
<1>4. CASE UNCHANGED vars
  <2>1. /\ UNCHANGED <<length, prev, rows, rerun, ident, req, summary, queue, work, missed, lost>>
    BY <1>4 DEF vars, chainVars, nameVars, history
  <2>2. Types'
    <3>1. ChainTypes' /\ NameTypes' /\ SummaryTypes'
      BY <2>1 DEF IInv, Types, ChainTypes, NameTypes, SummaryTypes
    <3>2. QueueTypes' /\ WorkTypes'
      BY <2>1 DEF IInv, Types, QueueTypes, WorkTypes
    <3> QED
      BY <3>1, <3>2 DEF Types
  <2>3. Grows
    BY <2>1 DEF IInv, Types, QueueTypes, Grows
  <2>4. PlacesFit' /\ RowIsThere' /\ IdentifyWorked' /\ SummaryWorked' /\ PendingWorked'
    BY <2>1, <2>3, NoWorkerKept
  <2> QED
    BY <2>2, <2>4 DEF IInv
<1> QED
  BY <1>1, <1>2, <1>3, <1>4 DEF Next

\* In every reachable state the inductive invariant holds.
THEOREM Invariance == Spec => []IInv
<1>1. Init => IInv
  BY Initially
<1>2. IInv /\ [Next]_vars => IInv'
  BY StepKept
<1> QED
  BY <1>1, <1>2, PTL DEF Spec

\* A status "running" of an identification or of the summary, or a summary shown as
\* pending, is never left behind: a task is at work that will change it or its message is
\* waiting, unless that message was acknowledged before its task was done, its child
\* process dead or its handler failed, or what sends it was lost: whatever worker dies with
\* its parent, and however often a message is delivered.
THEOREM Worked == Spec => []RunningIsWorked
<1>1. IInv => RunningIsWorked
  BY Implied
<1> QED
  BY <1>1, Invariance, PTL

-----------------------------------------------------------------------------
\* The text shows the names of the map

\* Of a row only its names matter, and that it has some.
IsSeq(s) == \E S : s \in Seq(S)
RowShape(s) == IsSeq(s) /\ \A r \in DOMAIN s : "names" \in DOMAIN s[r]
NamesInv ==
  /\ DOMAIN labels = Convs /\ DOMAIN rows = Convs /\ \A c \in Convs : RowShape(rows[c])
  /\ NamesShown

\* A sequence with another element at one place.
LEMMA Overwritten ==
  ASSUME NEW s, IsSeq(s), NEW i, NEW x
  PROVE  LET t == [s EXCEPT ![i] = x] IN
         /\ IsSeq(t) /\ Len(t) = Len(s) /\ DOMAIN t = DOMAIN s
         /\ \A j \in DOMAIN s : t[j] = IF j = i THEN x ELSE s[j]
<1> DEFINE t == [s EXCEPT ![i] = x]
<1>1. PICK S : s \in Seq(S)
  BY DEF IsSeq
<1>2. DOMAIN t = 1 .. Len(s) /\ \A j \in DOMAIN s : t[j] = IF j = i THEN x ELSE s[j]
  BY <1>1
<1>3. t \in [1 .. Len(s) -> S \cup {x}]
  <2>1. t = [j \in 1 .. Len(s) |-> IF j = i THEN x ELSE s[j]]
    BY <1>1
  <2>2. \A j \in 1 .. Len(s) : s[j] \in S
    BY <1>1
  <2> QED
    BY <2>1, <2>2
<1>4. t \in Seq(S \cup {x}) /\ Len(t) = Len(s)
  BY <1>1, <1>3
<1> QED
  BY <1>1, <1>2, <1>4 DEF IsSeq

\* A place that a sequence has not is not written.
LEMMA NotOverwritten ==
  ASSUME NEW s, IsSeq(s), NEW i, i \notin DOMAIN s, NEW x
  PROVE  [s EXCEPT ![i] = x] = s
<1>1. s = [j \in DOMAIN s |-> s[j]]
  BY DEF IsSeq
<1>2. [s EXCEPT ![i] = x] = [j \in DOMAIN s |-> s[j]]
  OBVIOUS
<1> QED
  BY <1>1, <1>2

\* A sequence with one more element.
LEMMA Appended ==
  ASSUME NEW s, IsSeq(s), NEW x
  PROVE  LET t == Append(s, x) IN
         /\ IsSeq(t) /\ Len(t) = Len(s) + 1 /\ Len(t) \in DOMAIN t /\ t[Len(t)] = x
         /\ \A j \in DOMAIN t : t[j] = IF j = Len(t) THEN x ELSE s[j]
         /\ DOMAIN t = DOMAIN s \cup {Len(t)} /\ Len(t) \notin DOMAIN s
<1>1. PICK S : s \in Seq(S)
  BY DEF IsSeq
<1>2. s \in Seq(S \cup {x})
  BY <1>1
<1> QED
  BY <1>2 DEF IsSeq

\* A step that writes no names and no map keeps them together.
LEMMA NamesFrame ==
  ASSUME NamesInv, UNCHANGED <<rows, labels, drifted>>
  PROVE  NamesInv'
BY DEF NamesInv, NamesShown, Newest

\* The row that was read shows the map that is stored with it.
LEMMA PersistKeeps ==
  ASSUME NamesInv, NEW c \in Convs, NEW r, NEW map, rows' = Persist(c, r, map),
         labels' = [labels EXCEPT ![c] = map], drifted' = DriftAfter(c, r)
  PROVE  NamesInv'
<1> DEFINE new == [rows[c][r] EXCEPT !.names = Names(map)]
           text == [rows[c] EXCEPT ![r] = new]
<1>1. rows' = [rows EXCEPT ![c] = text]
  BY DEF Persist
<1>2. /\ DOMAIN labels' = Convs /\ labels'[c] = map
      /\ \A d \in Convs \ {c} : labels'[d] = labels[d]
  BY DEF NamesInv
<1>3. r \in DOMAIN rows[c] => new.names = Names(map) /\ "names" \in DOMAIN new
  BY DEF NamesInv, RowShape
<1> HIDE DEF new
<1>4. /\ IsSeq(text) /\ Len(text) = Len(rows[c]) /\ DOMAIN text = DOMAIN rows[c]
      /\ \A j \in DOMAIN rows[c] : text[j] = IF j = r THEN new ELSE rows[c][j]
  BY Overwritten DEF NamesInv, RowShape
<1> HIDE DEF text
<1>5. RowShape(text)
  BY <1>3, <1>4 DEF NamesInv, RowShape
<1>6. DOMAIN rows' = Convs /\ rows'[c] = text /\ \A d \in Convs \ {c} : rows'[d] = rows[d]
  BY <1>1 DEF NamesInv
<1>7. \A d \in Convs : RowShape(rows'[d])
  BY <1>5, <1>6 DEF NamesInv
<1>8. ASSUME NEW d \in Convs \ drifted', rows'[d] # <<>>
      PROVE  rows'[d][Len(rows'[d])].names = Names(labels'[d])
  <2>1. CASE d = c
    <3>1. r = Len(rows[c])
      BY <1>8, <2>1 DEF DriftAfter, Newest
    <3>2. Len(text) \in DOMAIN text
      BY <1>4, <1>6, <1>8, <2>1 DEF IsSeq
    <3>3. text[Len(text)] = new /\ new.names = Names(map)
      BY <1>3, <1>4, <3>1, <3>2
    <3> QED
      BY <1>2, <1>6, <2>1, <3>3
  <2>2. CASE d # c
    <3>1. d \notin drifted
      BY <1>8, <2>2 DEF DriftAfter
    <3> QED
      BY <1>2, <1>6, <1>8, <2>2, <3>1 DEF NamesInv, NamesShown, Newest
  <2> QED
    BY <2>1, <2>2
<1> QED
  BY <1>2, <1>6, <1>7, <1>8 DEF NamesInv, NamesShown, Newest

\* A rerun begins without names, and its row has none.
LEMMA RerunKeepsNames ==
  ASSUME NamesInv, NEW c \in Convs, Diarize(c)
  PROVE  NamesInv'
<1>1. Names(NoNames) = NoNames
  BY DEF Names, NoNames, Effective
<1>2. CASE DiarizeBegin(c)
  <2>1. /\ UNCHANGED rows /\ labels' = [labels EXCEPT ![c] = NoNames]
        /\ drifted' = IF rows[c] # <<>> /\ rows[c][Newest(c)].names # NoNames
                      THEN drifted \cup {c} ELSE drifted
    BY <1>2 DEF DiarizeBegin
  <2>2. /\ DOMAIN labels' = Convs /\ labels'[c] = NoNames
        /\ \A d \in Convs \ {c} : labels'[d] = labels[d]
    BY <2>1 DEF NamesInv
  <2>3. ASSUME NEW d \in Convs \ drifted', rows[d] # <<>>
        PROVE  rows[d][Len(rows[d])].names = Names(labels'[d])
    BY <1>1, <2>1, <2>2, <2>3 DEF NamesInv, NamesShown, Newest
  <2> QED
    BY <2>1, <2>2, <2>3 DEF NamesInv, NamesShown, Newest
<1>3. CASE DiarizeSucceeds(c)
  <2> DEFINE row == [names |-> NoNames, vector |-> NoNames, indexed |-> FALSE]
             text == Append(rows[c], row)
  <2>1. /\ UNCHANGED labels /\ rows' = [rows EXCEPT ![c] = text]
        /\ drifted' = IF Names(labels[c]) # NoNames THEN drifted \cup {c} ELSE drifted \ {c}
    BY <1>3 DEF DiarizeSucceeds
  <2>2. row.names = NoNames /\ "names" \in DOMAIN row
    OBVIOUS
  <2> HIDE DEF row
  <2>3. RowShape(text) /\ text[Len(text)] = row
    BY <2>2, Appended DEF NamesInv, RowShape
  <2> HIDE DEF text
  <2>4. DOMAIN rows' = Convs /\ rows'[c] = text /\ \A d \in Convs \ {c} : rows'[d] = rows[d]
    BY <2>1 DEF NamesInv
  <2>5. \A d \in Convs : RowShape(rows'[d])
    BY <2>3, <2>4 DEF NamesInv
  <2>6. ASSUME NEW d \in Convs \ drifted', rows'[d] # <<>>
        PROVE  rows'[d][Len(rows'[d])].names = Names(labels[d])
    BY <2>1, <2>2, <2>3, <2>4, <2>6 DEF NamesInv, NamesShown, Newest
  <2> QED
    BY <2>1, <2>4, <2>5, <2>6 DEF NamesInv, NamesShown, Newest
<1>4. CASE \/ DiarizeFails(c) \/ DiarizeSendsIndex(c) \/ SchedulePostDiarization(c)
           \/ DiarizerLost(c)
  BY <1>4, NamesFrame DEF DiarizeFails, DiarizeSendsIndex, SchedulePostDiarization, DiarizerLost,
     nameVars, history
<1> QED
  BY <1>2, <1>3, <1>4 DEF Diarize

\* What the LLM said is stored with the text, or changes nothing that is shown.
LEMMA AnswerKeepsNames ==
  ASSUME IInv, NamesInv, NEW w \in Workers, IdentifyCommits(w)
  PROVE  NamesInv'
<1> DEFINE c == Conv(w)
<1>1. c \in Convs
  BY Kinds, MessageFields DEF IdentifyCommits, PlacesOf, Before, Idle, Conv
<1>2. CASE work[w].at = "persist"
  <2>1. /\ rows' = Persist(c, work[w].row, work[w].copy)
        /\ labels' = [labels EXCEPT ![c] = work[w].copy] /\ drifted' = DriftAfter(c, work[w].row)
    BY <1>2 DEF IdentifyCommits
  <2> QED
    BY <1>1, <2>1, PersistKeeps
<1>3. CASE work[w].at = "skip"
  BY <1>3, NamesFrame DEF IdentifyCommits
<1>4. CASE work[w].at = "suggest"
  <2>1. /\ UNCHANGED rows /\ labels' = [labels EXCEPT ![c] = work[w].copy]
        /\ drifted' = IF Replaces(w) \/ labels[c] # work[w].base
                      THEN drifted \cup {c} ELSE drifted
    BY <1>4 DEF IdentifyCommits
  <2> HIDE DEF c
  <2>2. /\ DOMAIN labels' = Convs /\ labels'[c] = work[w].copy
        /\ \A d \in Convs \ {c} : labels'[d] = labels[d]
    BY <1>1, <2>1 DEF NamesInv
  <2>3. \A d \in Convs \ drifted' : d \notin drifted /\ Names(labels'[d]) = Names(labels[d])
    BY <2>1, <2>2 DEF Replaces
  <2> QED
    BY <2>1, <2>2, <2>3 DEF NamesInv, NamesShown, Newest
<1> QED
  BY <1>2, <1>3, <1>4 DEF IdentifyCommits

\* The vector of a row is no name of it.
LEMMA VectorKeepsNames ==
  ASSUME IInv, NamesInv, NEW w \in Workers, IndexWrites(w)
  PROVE  NamesInv'
<1> DEFINE c == Conv(w)
           r == work[w].msg.row
           one == [rows[c][r] EXCEPT !.vector = work[w].copy]
           new == [one EXCEPT !.indexed = TRUE]
           text == [rows[c] EXCEPT ![r] = new]
<1>1. c \in Convs
  BY Kinds, MessageFields DEF IndexWrites, Is, Conv
<1>2. UNCHANGED <<labels, drifted>>
  BY DEF IndexWrites, history
<1>3. rows' = [rows EXCEPT ![c] = text]
  <2>1. rows' = [rows EXCEPT ![c][r].vector = work[w].copy, ![c][r].indexed = TRUE]
    BY DEF IndexWrites
  <2> DEFINE half == [rows[c] EXCEPT ![r] = one]
  <2>2. rows' = [[rows EXCEPT ![c] = half] EXCEPT ![c] =
                   [[rows EXCEPT ![c] = half][c] EXCEPT ![r] =
                      [[rows EXCEPT ![c] = half][c][r] EXCEPT !.indexed = TRUE]]]
    BY <2>1
  <2> HIDE DEF one
  <2>3. [rows EXCEPT ![c] = half][c] = half
    BY <1>1 DEF NamesInv
  <2>4. [half EXCEPT ![r] = [half[r] EXCEPT !.indexed = TRUE]] = text
    <3>1. CASE r \in DOMAIN rows[c]
      BY <3>1
    <3>2. CASE r \notin DOMAIN rows[c]
      <4>1. half = rows[c] /\ text = rows[c]
        BY <1>1, <3>2, NotOverwritten DEF NamesInv, RowShape
      <4> QED
        BY <3>2, <4>1
    <3> QED
      BY <3>1, <3>2
  <2> QED
    BY <2>2, <2>3, <2>4
<1>4. r \in DOMAIN rows[c] => new.names = rows[c][r].names /\ "names" \in DOMAIN new
  BY <1>1 DEF NamesInv, RowShape
<1> HIDE DEF new
<1>5. /\ IsSeq(text) /\ Len(text) = Len(rows[c]) /\ DOMAIN text = DOMAIN rows[c]
      /\ \A j \in DOMAIN rows[c] : text[j] = IF j = r THEN new ELSE rows[c][j]
  BY <1>1, Overwritten DEF NamesInv, RowShape
<1> HIDE DEF text, c
<1>6. RowShape(text) /\ \A j \in DOMAIN rows[c] : text[j].names = rows[c][j].names
  BY <1>1, <1>4, <1>5 DEF NamesInv, RowShape
<1>7. DOMAIN rows' = Convs /\ rows'[c] = text /\ \A d \in Convs \ {c} : rows'[d] = rows[d]
  BY <1>1, <1>3 DEF NamesInv
<1>8. \A d \in Convs : RowShape(rows'[d])
  BY <1>6, <1>7 DEF NamesInv
<1>9. ASSUME NEW d \in Convs \ drifted, rows'[d] # <<>>
      PROVE  rows'[d][Len(rows'[d])].names = Names(labels[d])
  <2>1. CASE d = c
    <3>1. Len(text) \in DOMAIN text /\ rows[c] # <<>>
      BY <1>5, <1>7, <1>9, <2>1 DEF IsSeq
    <3>2. rows[c][Len(rows[c])].names = Names(labels[c])
      BY <1>1, <1>9, <2>1, <3>1 DEF NamesInv, NamesShown, Newest
    <3> QED
      BY <1>5, <1>6, <1>7, <2>1, <3>1, <3>2
  <2>2. CASE d # c
    BY <1>7, <1>9, <2>2 DEF NamesInv, NamesShown, Newest
  <2> QED
    BY <2>1, <2>2
<1> QED
  BY <1>2, <1>7, <1>8, <1>9 DEF NamesInv, NamesShown, Newest

\* Every step, and a step that changes nothing, keeps text and map together.
LEMMA NamesStep ==
  ASSUME IInv, NamesInv, [Next]_vars
  PROVE  NamesInv'
<1>1. CASE CommitNames
  <2>1. /\ rows' = Persist(req.conv, req.row, req.copy)
        /\ labels' = [labels EXCEPT ![req.conv] = req.copy]
        /\ drifted' = DriftAfter(req.conv, req.row) /\ req # NoReq
    BY <1>1 DEF CommitNames
  <2>2. req.conv \in Convs
    BY <2>1 DEF IInv, Types, NameTypes
  <2> QED
    BY <2>1, <2>2, PersistKeeps
<1>2. CASE Request /\ ~CommitNames
  BY <1>2, NamesFrame DEF Request, CreateConversation, DeleteConversation, RequestIdentify, Reindex,
     PatchSpeaker, ApplySuggestions, RetrySummary, Resummary, ApiDies, nameVars, history
<1>3. ASSUME NEW c \in Convs, Diarize(c) PROVE NamesInv'
  BY <1>3, RerunKeepsNames
<1>4. ASSUME NEW w \in Workers, Task(w) PROVE NamesInv'
  <2>1. CASE IdentifyCommits(w) \/ IndexWrites(w)
    BY <2>1, AnswerKeepsNames, VectorKeepsNames
  <2>2. CASE (\E m \in Messages : Take(w, m)) \/ WorkerDies(w) \/ ChildLost(w) \/ Redeliver(w)
    BY <2>2, NamesFrame DEF Take, WorkerDies, ChildLost, Redeliver, nameVars, history
  <2>3. CASE \/ IdentifyBegin(w) \/ IdentifySkips(w) \/ (\E a \in Answers : IdentifyAnswered(w, a))
             \/ IdentifyRaises(w) \/ IdentifySchedules(w) \/ IdentifyHandler(w) \/ IdentifyLast(w)
    BY <2>3, NamesFrame DEF IdentifyBegin, IdentifySkips, IdentifyAnswered, IdentifyRaises,
       IdentifySchedules, IdentifyHandler, IdentifyLast, nameVars, history
  <2>4. CASE SummaryReads(w) \/ SummaryClaims(w) \/ SummaryAnswered(w) \/ SummaryStored(w)
             \/ SummaryRaises(w) \/ SummaryHandler(w) \/ IndexReads(w) \/ IndexRaises(w)
    BY <2>4, NamesFrame DEF SummaryReads, SummaryClaims, SummaryAnswered, SummaryStored,
       SummaryRaises, SummaryHandler, IndexReads, IndexRaises, nameVars, history
  <2> QED
    BY <1>4, <2>1, <2>2, <2>3, <2>4 DEF Task
<1>5. CASE UNCHANGED vars
  BY <1>5, NamesFrame DEF vars, nameVars, history
<1> QED
  BY <1>1, <1>2, <1>3, <1>4, <1>5 DEF Next

\* The text of the newest transcript shows the names of the map after every write of
\* either, by the user, by identify_speakers or by a rerun, unless the conversation has
\* drifted: for any number of writers at once.
THEOREM NamesSafe == Spec => []NamesShown
<1>1. Init => NamesInv
  <2> SUFFICES ASSUME Init PROVE NamesInv
    OBVIOUS
  <2>1. <<>> \in Seq({})
    OBVIOUS
  <2> QED
    BY <2>1 DEF Init, NamesInv, NamesShown, RowShape, IsSeq
<1>2. IInv /\ NamesInv /\ [Next]_vars => NamesInv'
  BY NamesStep
<1>3. NamesInv => NamesShown
  BY DEF NamesInv
<1> QED
  BY <1>1, <1>2, <1>3, Invariance, PTL DEF Spec

=============================================================================
