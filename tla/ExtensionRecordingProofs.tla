---------------------- MODULE ExtensionRecordingProofs ----------------------
(***************************************************************************)
(* Proofs about ExtensionRecording, for any number of windows and any      *)
(* bounds.                                                                 *)
(***************************************************************************)
EXTENDS ExtensionRecording, TLAPS

-----------------------------------------------------------------------------
\* The inductive invariant

\* TypeOK, in parts, with what the calls under way need to stay within it.
Numbers == 0 .. MaxStarts
Session == [surface : {None, Offscreen, "popup"}, conv : Numbers, window : Panels \cup {None}]
Record  == [on : BOOLEAN, conv : Numbers, media : Numbers, ws : Numbers, parts : SUBSET Convs]
Call    == [conv : Numbers, ws : Numbers, phase : {"ack", "upload"}]
StartStates == {None, "ensure", "create", "send", "wait", "write", "clear", "close", "ok", "error"}
StopStates  == {None, "check", "wait", "clear", "close"}
Places == {None, "clear", "create", "start", "record", "register", "stop", "stopping", "closed"}

SessionTypes == session \in Session /\ offDoc \in BOOLEAN
RecorderType == recorder \in [Docs -> Record]
StreamTypes  == live \in [Docs -> SUBSET Convs] /\ starting \in [Docs -> SUBSET Convs]
CallTypes ==
  /\ DOMAIN stopping = Docs
  /\ \A d \in Docs : stopping[d] \in Seq(Call)
  /\ \A d \in Docs : \A i \in DOMAIN stopping[d] :
       stopping[d][i].phase = "ack" => stopping[d][i].ws # 0
StartTypes ==
  /\ waiters \subseteq Convs /\ starts \in [Convs -> StartStates]
  /\ \A c \in Convs : starts[c] # None => c <= Len(owner)
StopTypes == resolver \in Callers \cup {None} /\ stops \in [Callers -> StopStates]
PanelTypes ==
  /\ open \subseteq Panels /\ ui \in [Panels -> {None, Offscreen, "popup"}]
  /\ at \in [Panels -> Places] /\ conv \in [Panels -> Numbers]
OwnerType == owner \in Seq(Panels) /\ Len(owner) <= MaxStarts
HistoryTypes ==
  /\ told \subseteq Convs /\ heard \subseteq Convs /\ delivered \subseteq Convs
  /\ failed \subseteq Convs /\ crossed \in BOOLEAN /\ lost \in BOOLEAN /\ budget \in 0 .. MaxEvents
DocTypes == RecorderType /\ StreamTypes /\ CallTypes
Types == /\ SessionTypes /\ DocTypes /\ StartTypes /\ StopTypes /\ PanelTypes /\ OwnerType
         /\ HistoryTypes

\* The promises of the service worker are those of calls that wait for them.
ResolverWaits == resolver # None => stops[resolver] = "wait"
WaitersWait == \A c \in waiters : starts[c] = "wait"

\* A recorder that does something has its document; a panel that waits for the stream is
\* in handleStart.
Busy(d) == recorder[d].on \/ starting[d] # {} \/ stopping[d] # <<>>
HasDocumentOpen == Busy(Offscreen) => offDoc
PanelRecords ==
  \A p \in Panels : starting[p] # {} => at[p] = "record" /\ starting[p] = {conv[p]}
PanelAsks == \A p \in Panels : at[p] = "start" => conv[p] # 0

\* What is recorded belongs to conversation c, the last one that was created.
Holds(r, l, s, q, c) ==
  /\ r.parts \subseteq {c} /\ r.media \in {0, c} /\ r.ws \in {0, c}
  /\ l \subseteq {c} /\ s \subseteq {c}
  /\ r.on => r.conv = c /\ s = {}
  /\ ~r.on => r.parts = {} /\ r.ws = 0 /\ r.media = 0 /\ l = {}
  /\ l # {} => r.media = c
  /\ s # {} => r.conv = c
  /\ q # <<>> => s = {} /\ l = {} /\ r.media = 0
  /\ \A i \in DOMAIN q : q[i].conv = c /\ (q[i].phase = "ack" => q[i].ws = c)
LastHeld ==
  \A d \in Docs : Holds(recorder[d], live[d], starting[d], stopping[d], Len(owner))

\* One start at a time, one recorder at a time.
Runs(c) == starts[c] \notin {None, "ok", "error"}
InStart(p) == at[p] \in StartPhases
OneStart ==
  /\ \A p, q \in Panels : InStart(p) /\ InStart(q) => p = q
  /\ \A c \in Convs : Runs(c) => c = Len(owner)
  /\ \A p \in Panels : InStart(p) /\ StartRuns => at[p] = "start"
  /\ \A p \in Panels : at[p] = "start" => conv[p] = Len(owner)
OneRecorder ==
  /\ \A d, e \in Docs : Busy(d) /\ Busy(e) => d = e
  /\ \A p \in Panels : at[p] \in {"clear", "create"} => \A d \in Docs : ~Busy(d)
  /\ \A p \in Panels : at[p] \in {"record", "register"} => ~Busy(Offscreen)
  /\ \A p \in Panels : Busy(p) => ~StartRuns /\ \A q \in Panels : at[q] # "start"
  /\ \A c \in Convs : starts[c] \in {"ensure", "create", "send"} => ~Busy(Offscreen)

\* No stop while a start is under way, nor while the stream is waited for.
StopsAlone ==
  /\ StopRuns => ~Starting /\ starting[Offscreen] = {}
  /\ Starting => stopping[Offscreen] = <<>>
  /\ \A c \in Convs : starts[c] = "write" => starting[Offscreen] = {}
  /\ (StartRuns \/ starting[Offscreen] # {} \/ \E p \in Panels : at[p] = "create")
       => session.surface # Offscreen
  /\ \A k \in Callers : stops[k] \in {"wait", "clear", "close"} => live[Offscreen] = {}
  /\ \A k \in Callers : stops[k] \in {"clear", "close"}
       => recorder[Offscreen].parts \subseteq failed

\* What a panel was told of, and what it may be told of next.
ToldLast ==
  /\ told \subseteq DOMAIN owner /\ heard \subseteq DOMAIN owner
  /\ (StartRuns \/ \E p \in Panels : at[p] \in {"start", "record", "register"} \/ Busy(p))
       => Len(owner) \notin told
  /\ (StartRuns \/ \E p \in Panels : at[p] = "start" /\ starts[conv[p]] = "ok")
       => (Len(owner) \in heard => Len(owner) \in recorder[Offscreen].parts)

\* The microphone is on for a start under way or for the session.
LiveShown ==
  ~lost => /\ starting[Offscreen] # {} => StartRuns
           /\ live[Offscreen] # {} /\ ~StartRuns
                => session.surface = Offscreen /\ session.conv = Len(owner)

Kept == told \cap heard \subseteq delivered \cup failed \cup recorder[Offscreen].parts

Uncrossed == ~crossed => /\ LastHeld /\ OneStart /\ OneRecorder /\ StopsAlone /\ ToldLast
                         /\ LiveShown /\ Kept

IInv == Types /\ ResolverWaits /\ WaitersWait /\ HasDocumentOpen /\ PanelRecords /\ PanelAsks
        /\ Uncrossed

-----------------------------------------------------------------------------
\* Lemmas on the operators

\* The parts make up TypeOK.
LEMMA TypesAreTypeOK == ASSUME Types PROVE TypeOK
<1>1. /\ session \in [surface : {None, Offscreen, "popup"}, conv : 0 .. MaxStarts,
                      window : Panels \cup {None}]
      /\ offDoc \in BOOLEAN
  BY DEF Types, SessionTypes, Session, Numbers
<1>2. recorder \in [Docs -> [on : BOOLEAN, conv : 0 .. MaxStarts, media : 0 .. MaxStarts,
                             ws : 0 .. MaxStarts, parts : SUBSET Convs]]
  BY DEF Types, DocTypes, RecorderType, Record, Numbers
<1>3. \A d \in Docs : stopping[d] \in Seq([conv : 0 .. MaxStarts, ws : 0 .. MaxStarts,
                                           phase : {"ack", "upload"}])
  BY DEF Types, DocTypes, CallTypes, Call, Numbers
<1>4. /\ waiters \subseteq Convs /\ resolver \in Callers \cup {None}
      /\ starts \in [Convs -> {None, "ensure", "create", "send", "wait", "write", "clear",
                               "close", "ok", "error"}]
      /\ stops \in [Callers -> {None, "check", "wait", "clear", "close"}]
  BY DEF Types, StartTypes, StopTypes, StartStates, StopStates
<1>5. /\ open \subseteq Panels /\ ui \in [Panels -> {None, Offscreen, "popup"}]
      /\ at \in [Panels -> {None, "clear", "create", "start", "record", "register", "stop",
                            "stopping", "closed"}]
      /\ conv \in [Panels -> 0 .. MaxStarts] /\ owner \in Seq(Panels)
  BY DEF Types, PanelTypes, OwnerType, Places, Numbers
<1> QED
  BY <1>1, <1>2, <1>3, <1>4, <1>5 DEF TypeOK, Types, DocTypes, StreamTypes, HistoryTypes

\* The constants, as the proofs use them.
LEMMA Constants ==
  /\ MaxStarts \in Nat /\ MaxStops \in Nat /\ MaxEvents \in Nat
  /\ 0 \in Numbers /\ Convs = Numbers \ {0}
  /\ Panels \subseteq Docs /\ Offscreen \in Docs /\ Offscreen \notin Panels
  /\ Panels \subseteq Callers /\ {"menu", "window"} \subseteq Callers
  /\ None \notin Callers
  BY RecorderBounds, PanelsAreNew DEF Numbers, Convs, Docs, Callers, Offscreen, None

\* A sequence from which an element is removed has no element it did not have.
LEMMA RemoveAtIn ==
  ASSUME NEW S, NEW s \in Seq(S), NEW i \in DOMAIN s
  PROVE  /\ RemoveAt(s, i) \in Seq(S)
         /\ \A j \in DOMAIN RemoveAt(s, i) : \E k \in DOMAIN s : RemoveAt(s, i)[j] = s[k]
<1> DEFINE a == SubSeq(s, 1, i - 1)
           b == SubSeq(s, i + 1, Len(s))
<1>1. i \in 1 .. Len(s) /\ Len(s) \in Nat
  OBVIOUS
<1>2. /\ a \in Seq(S) /\ Len(a) = i - 1
      /\ \A j \in 1 .. i - 1 : a[j] = s[j]
  BY <1>1
<1>3. /\ b \in Seq(S) /\ Len(b) = Len(s) - i
      /\ \A j \in 1 .. Len(s) - i : b[j] = s[i + j]
  BY <1>1
<1>4. RemoveAt(s, i) = a \o b
  BY DEF RemoveAt
<1> HIDE DEF a, b
<1>5. a \o b \in Seq(S)
  BY <1>2, <1>3
<1>6. ASSUME NEW j \in DOMAIN (a \o b) PROVE \E k \in DOMAIN s : (a \o b)[j] = s[k]
  <2>1. j \in 1 .. Len(s) - 1 /\ Len(a \o b) = Len(s) - 1
    BY <1>1, <1>2, <1>3
  <2>2. CASE j <= i - 1
    <3>1. (a \o b)[j] = a[j] /\ j \in DOMAIN s
      BY <1>1, <1>2, <1>3, <2>1, <2>2
    <3> QED
      BY <3>1, <2>1, <2>2, <1>2
  <2>3. CASE j > i - 1
    <3>1. (a \o b)[j] = b[j - (i - 1)] /\ j + 1 \in DOMAIN s
      BY <1>1, <1>2, <1>3, <2>1, <2>3
    <3>2. j - (i - 1) \in 1 .. Len(s) - i /\ i + (j - (i - 1)) = j + 1
      BY <1>1, <2>1, <2>3
    <3>3. b[j - (i - 1)] = s[i + (j - (i - 1))]
      BY <3>2, <1>3
    <3> QED
      BY <3>1, <3>2, <3>3
  <2> QED
    BY <1>1, <2>1, <2>2, <2>3
<1> QED
  BY <1>4, <1>5, <1>6

-----------------------------------------------------------------------------
\* What a step does to the recorder of document d

\* The other recorders stay as they are.
OnlyIn(d) == \A e \in Docs \ {d} :
  /\ recorder'[e] = recorder[e] /\ live'[e] = live[e]
  /\ starting'[e] = starting[e] /\ stopping'[e] = stopping[e]

\* A document that is gone holds nothing.
LEMMA GoneDoes ==
  ASSUME Types, NEW d \in Docs, Gone(d)
  PROVE  /\ DocTypes' /\ OnlyIn(d)
         /\ recorder'[d] = Idle /\ live'[d] = {} /\ starting'[d] = {} /\ stopping'[d] = <<>>
<1> USE DEF Types, RecorderType, StreamTypes, CallTypes, Gone, OnlyIn, DocTypes
<1>1. Idle \in Record
  BY Constants DEF Idle, Record
<1>2. RecorderType' /\ StreamTypes'
  BY <1>1
<1>3. CallTypes'
  OBVIOUS
<1> QED
  BY <1>2, <1>3

\* The fields of a record that a call of start() or stop() sets.
LEMMA StartCallDoes ==
  ASSUME Types, NEW d \in Docs, NEW c \in Convs, StartCall(d, c)
  PROVE  /\ DocTypes' /\ OnlyIn(d)
         /\ recorder'[d].on = recorder[d].on /\ recorder'[d].media = recorder[d].media
         /\ recorder'[d].ws = recorder[d].ws
         /\ recorder'[d].conv = c /\ recorder'[d].parts = {}
         /\ live' = live /\ starting'[d] = starting[d] \cup {c} /\ stopping' = stopping
<1> USE DEF Types, RecorderType, StreamTypes, CallTypes, StartCall, OnlyIn, DocTypes
<1>1. recorder[d] \in Record /\ c \in Numbers
  BY Constants
<1> DEFINE r == [recorder[d] EXCEPT !.conv = c, !.parts = {}]
<1>2. /\ r \in Record /\ r.on = recorder[d].on /\ r.media = recorder[d].media
      /\ r.ws = recorder[d].ws /\ r.conv = c /\ r.parts = {}
  BY <1>1 DEF Record
<1>3. recorder' = [recorder EXCEPT ![d] = r]
  OBVIOUS
<1> HIDE DEF r
<1> QED
  BY <1>2, <1>3

\* stop(): what it read is in its call, and the microphone is off.
LEMMA StopCallDoes ==
  ASSUME Types, NEW d \in Docs, StopCall(d)
  PROVE  /\ DocTypes' /\ OnlyIn(d)
         /\ recorder'[d].on = recorder[d].on /\ recorder'[d].media = 0
         /\ recorder'[d].ws = recorder[d].ws
         /\ recorder'[d].conv = recorder[d].conv /\ recorder'[d].parts = recorder[d].parts
         /\ live'[d] = live[d] \ {recorder[d].media} /\ starting' = starting
         /\ \E call \in Call : /\ stopping'[d] = Append(stopping[d], call)
                               /\ call.conv = recorder[d].conv
                               /\ call.phase = "ack" => call.ws = recorder[d].ws /\ call.ws # 0
<1> USE DEF Types, RecorderType, StreamTypes, CallTypes, StopCall, OnlyIn, DocTypes
<1>1. recorder[d] \in Record /\ 0 \in Numbers
  BY Constants
<1> DEFINE r == [recorder[d] EXCEPT !.media = 0]
           call == [conv |-> recorder[d].conv, ws |-> recorder[d].ws,
                    phase |-> IF recorder[d].ws # 0 THEN "ack" ELSE "upload"]
<1>2. /\ r \in Record /\ r.on = recorder[d].on /\ r.media = 0
      /\ r.ws = recorder[d].ws /\ r.conv = recorder[d].conv /\ r.parts = recorder[d].parts
  BY <1>1 DEF Record
<1>3. call \in Call /\ call.conv = recorder[d].conv
      /\ (call.phase = "ack" => call.ws = recorder[d].ws /\ call.ws # 0)
  BY <1>1 DEF Record, Call
<1>4. /\ recorder' = [recorder EXCEPT ![d] = r]
      /\ stopping' = [stopping EXCEPT ![d] = Append(stopping[d], call)]
  OBVIOUS
<1> HIDE DEF r, call
<1>5. Append(stopping[d], call) \in Seq(Call)
      /\ \A i \in DOMAIN Append(stopping[d], call) :
           Append(stopping[d], call)[i].phase = "ack" => Append(stopping[d], call)[i].ws # 0
  BY <1>3
<1>6. CallTypes'
  BY <1>4, <1>5
<1>7. /\ stopping'[d] = Append(stopping[d], call)
      /\ \A e \in Docs \ {d} : stopping'[e] = stopping[e]
  BY <1>4
<1>8. \E m \in Call : /\ stopping'[d] = Append(stopping[d], m)
                      /\ m.conv = recorder[d].conv
                      /\ m.phase = "ack" => m.ws = recorder[d].ws /\ m.ws # 0
  BY <1>3, <1>7
<1>9. RecorderType' /\ StreamTypes'
  BY <1>2, <1>4
<1> QED
  BY <1>2, <1>4, <1>6, <1>7, <1>8, <1>9

\* The end of a stop(): the recorder records no more, and its parts are gone.
LEMMA StopDoneDoes ==
  ASSUME Types, NEW d \in Docs, NEW i \in DOMAIN stopping[d], StopDone(d, i),
         live' = live, starting' = starting
  PROVE  /\ DocTypes' /\ OnlyIn(d)
         /\ recorder'[d].on = FALSE /\ recorder'[d].media = recorder[d].media
         /\ recorder'[d].ws = 0 /\ recorder'[d].parts = {}
         /\ \A j \in DOMAIN stopping'[d] : \E k \in DOMAIN stopping[d] :
              stopping'[d][j] = stopping[d][k]
<1> USE DEF Types, RecorderType, StreamTypes, CallTypes, OnlyIn, DocTypes
<1>1. recorder[d] \in Record /\ 0 \in Numbers
  BY Constants
<1> DEFINE r == [recorder[d] EXCEPT !.on = FALSE, !.conv = 0, !.ws = 0, !.parts = {}]
           q == RemoveAt(stopping[d], i)
<1>2. /\ r \in Record /\ r.on = FALSE /\ r.media = recorder[d].media
      /\ r.ws = 0 /\ r.parts = {}
  BY <1>1 DEF Record
<1>3. /\ recorder' = [recorder EXCEPT ![d] = r]
      /\ stopping' = [stopping EXCEPT ![d] = q]
  BY DEF StopDone
<1>4. /\ q \in Seq(Call)
      /\ \A j \in DOMAIN q : \E k \in DOMAIN stopping[d] : q[j] = stopping[d][k]
  BY RemoveAtIn
<1> HIDE DEF r, q
<1>5. CallTypes'
  BY <1>3, <1>4
<1> QED
  BY <1>2, <1>3, <1>4, <1>5

\* The microphone is on.
LEMMA StartedDoes ==
  ASSUME Types, NEW d \in Docs, NEW c \in Convs, Started(d, c)
  PROVE  /\ DocTypes' /\ OnlyIn(d) /\ c \in starting[d]
         /\ recorder'[d].on = TRUE /\ recorder'[d].media = c /\ recorder'[d].ws = c
         /\ recorder'[d].conv = recorder[d].conv /\ recorder'[d].parts = recorder[d].parts
         /\ live'[d] = live[d] \cup {c} /\ starting'[d] = starting[d] \ {c}
         /\ stopping' = stopping
<1> USE DEF Types, RecorderType, StreamTypes, CallTypes, OnlyIn, DocTypes
<1>1. recorder[d] \in Record /\ c \in Numbers
  BY Constants
<1> DEFINE r == [recorder[d] EXCEPT !.on = TRUE, !.media = c, !.ws = c]
<1>2. /\ r \in Record /\ r.on = TRUE /\ r.media = c /\ r.ws = c
      /\ r.conv = recorder[d].conv /\ r.parts = recorder[d].parts
  BY <1>1 DEF Record
<1>3. /\ recorder' = [recorder EXCEPT ![d] = r] /\ stopping' = stopping /\ c \in starting[d]
      /\ live' = [live EXCEPT ![d] = @ \cup {c}]
      /\ starting' = [starting EXCEPT ![d] = @ \ {c}]
  BY DEF Started
<1> HIDE DEF r
<1> QED
  BY <1>2, <1>3

\* A start that fails leaves the recorder without a connection.
LEMMA StartRaisesDoes ==
  ASSUME Types, NEW d \in Docs, NEW c \in Convs, StartRaises(d, c)
  PROVE  /\ DocTypes' /\ OnlyIn(d) /\ c \in starting[d]
         /\ recorder'[d].on = recorder[d].on /\ recorder'[d].media = recorder[d].media
         /\ recorder'[d].ws = 0
         /\ recorder'[d].conv = recorder[d].conv /\ recorder'[d].parts = recorder[d].parts
         /\ live' = live /\ starting'[d] = starting[d] \ {c} /\ stopping' = stopping
<1> USE DEF Types, RecorderType, StreamTypes, CallTypes, OnlyIn, DocTypes
<1>1. recorder[d] \in Record /\ 0 \in Numbers
  BY Constants
<1> DEFINE r == [recorder[d] EXCEPT !.ws = 0]
<1>2. /\ r \in Record /\ r.on = recorder[d].on /\ r.media = recorder[d].media /\ r.ws = 0
      /\ r.conv = recorder[d].conv /\ r.parts = recorder[d].parts
  BY <1>1 DEF Record
<1>3. /\ recorder' = [recorder EXCEPT ![d] = r] /\ stopping' = stopping /\ live' = live
      /\ starting' = [starting EXCEPT ![d] = @ \ {c}] /\ c \in starting[d]
  BY DEF StartRaises
<1> HIDE DEF r
<1> QED
  BY <1>2, <1>3

\* A chunk is held, and heard of.
LEMMA ChunkDoes ==
  ASSUME Types, NEW d \in Docs, Chunk(d)
  PROVE  \E c \in live[d] :
         /\ DocTypes' /\ OnlyIn(d)
         /\ recorder'[d].on = recorder[d].on /\ recorder'[d].media = recorder[d].media
         /\ recorder'[d].ws = recorder[d].ws /\ recorder'[d].conv = recorder[d].conv
         /\ recorder'[d].parts = recorder[d].parts \cup {c} /\ heard' = heard \cup {c}
         /\ live' = live /\ starting' = starting /\ stopping' = stopping
<1> USE DEF Types, RecorderType, StreamTypes, CallTypes, OnlyIn, DocTypes
<1>1. PICK c \in live[d] : /\ recorder' = [recorder EXCEPT ![d].parts = @ \cup {c}]
                           /\ heard' = heard \cup {c}
  BY DEF Chunk
<1>2. recorder[d] \in Record /\ c \in Convs
  OBVIOUS
<1> DEFINE r == [recorder[d] EXCEPT !.parts = @ \cup {c}]
<1>3. /\ r \in Record /\ r.on = recorder[d].on /\ r.media = recorder[d].media
      /\ r.ws = recorder[d].ws /\ r.conv = recorder[d].conv
      /\ r.parts = recorder[d].parts \cup {c}
  BY <1>2 DEF Record
<1>4. /\ recorder' = [recorder EXCEPT ![d] = r]
      /\ stopping' = stopping /\ live' = live /\ starting' = starting
  BY <1>1 DEF Chunk
<1> HIDE DEF r
<1> QED
  BY <1>1, <1>3, <1>4

\* Without an answer to its finalize a stop goes on to the upload.
LEMMA NotFinalizedDoes ==
  ASSUME Types, NEW d \in Docs, NEW i \in DOMAIN stopping[d], NotFinalized(d, i)
  PROVE  /\ DocTypes' /\ OnlyIn(d)
         /\ recorder'[d].on = recorder[d].on /\ recorder'[d].media = recorder[d].media
         /\ recorder'[d].ws = 0
         /\ recorder'[d].conv = recorder[d].conv /\ recorder'[d].parts = recorder[d].parts
         /\ live' = live /\ starting' = starting
         /\ DOMAIN stopping'[d] = DOMAIN stopping[d]
         /\ \A j \in DOMAIN stopping[d] :
              /\ stopping'[d][j].conv = stopping[d][j].conv
              /\ stopping'[d][j].ws = stopping[d][j].ws
              /\ stopping'[d][j].phase = "ack" => stopping[d][j].phase = "ack"
<1> USE DEF Types, RecorderType, StreamTypes, CallTypes, OnlyIn, DocTypes
<1>1. recorder[d] \in Record /\ 0 \in Numbers /\ stopping[d] \in Seq(Call)
      /\ stopping[d][i] \in Call
  BY Constants
<1> DEFINE r == [recorder[d] EXCEPT !.ws = 0]
           m == [stopping[d][i] EXCEPT !.phase = "upload"]
           q == [stopping[d] EXCEPT ![i] = m]
<1>2. /\ r \in Record /\ r.on = recorder[d].on /\ r.media = recorder[d].media /\ r.ws = 0
      /\ r.conv = recorder[d].conv /\ r.parts = recorder[d].parts
  BY <1>1 DEF Record
<1>3. m \in Call /\ m.conv = stopping[d][i].conv /\ m.ws = stopping[d][i].ws
      /\ m.phase = "upload"
  BY <1>1 DEF Call
<1>4. /\ recorder' = [recorder EXCEPT ![d] = r] /\ live' = live /\ starting' = starting
      /\ stopping' = [stopping EXCEPT ![d] = [@ EXCEPT ![i] = m]]
  BY DEF NotFinalized
<1>4a. stopping' = [stopping EXCEPT ![d] = q]
  BY <1>4
<1> HIDE DEF r, m
<1>5. q \in Seq(Call) /\ DOMAIN q = DOMAIN stopping[d] /\ q[i] = m
      /\ \A j \in DOMAIN stopping[d] \ {i} : q[j] = stopping[d][j]
  BY <1>1, <1>3
<1> HIDE DEF q
<1>6. \A j \in DOMAIN stopping[d] :
        /\ q[j].conv = stopping[d][j].conv /\ q[j].ws = stopping[d][j].ws
        /\ q[j].phase = "ack" => stopping[d][j].phase = "ack"
  BY <1>3, <1>5
<1>7. /\ stopping'[d] = q /\ \A e \in Docs \ {d} : stopping'[e] = stopping[e]
      /\ DOMAIN stopping' = Docs
  BY <1>4a
<1>7b. \A e \in Docs : stopping'[e] \in Seq(Call)
  BY <1>5, <1>7
<1>8. \A e \in Docs : \A j \in DOMAIN stopping'[e] :
        stopping'[e][j].phase = "ack" => stopping'[e][j].ws # 0
  <2> TAKE e \in Docs
  <2>1. CASE e = d
    BY <1>5, <1>6, <1>7, <2>1
  <2>2. CASE e # d
    BY <1>7, <2>2
  <2> QED
    BY <2>1, <2>2
<1>9. DocTypes'
  BY <1>2, <1>4, <1>7, <1>7b, <1>8
<1>10. OnlyIn(d)
  BY <1>4, <1>7
<1> QED
  BY <1>2, <1>4, <1>5, <1>6, <1>7, <1>9, <1>10

\* An upload that fails leaves the recorder as it is.
LEMMA UploadRaisesDoes ==
  ASSUME Types, NEW d \in Docs, NEW i \in DOMAIN stopping[d], UploadRaises(d, i)
  PROVE  /\ DocTypes' /\ OnlyIn(d)
         /\ recorder' = recorder /\ live' = live /\ starting' = starting
         /\ \A j \in DOMAIN stopping'[d] : \E k \in DOMAIN stopping[d] :
              stopping'[d][j] = stopping[d][k]
<1> USE DEF Types, RecorderType, StreamTypes, CallTypes, OnlyIn, DocTypes
<1> DEFINE q == RemoveAt(stopping[d], i)
<1>1. recorder' = recorder /\ live' = live /\ starting' = starting
      /\ stopping' = [stopping EXCEPT ![d] = q]
  BY DEF UploadRaises
<1>2. /\ q \in Seq(Call)
      /\ \A j \in DOMAIN q : \E k \in DOMAIN stopping[d] : q[j] = stopping[d][k]
  BY RemoveAtIn
<1> HIDE DEF q
<1>3. CallTypes'
  BY <1>1, <1>2
<1> QED
  BY <1>1, <1>2, <1>3

-----------------------------------------------------------------------------
\* TypeOK is kept

\* A part whose variables stay as they are is kept.
LEMMA TypesFrame ==
  ASSUME Types
  PROVE  /\ UNCHANGED <<session, offDoc>> => SessionTypes'
         /\ UNCHANGED recVars => DocTypes'
         /\ UNCHANGED <<waiters, starts, owner>> => StartTypes'
         /\ UNCHANGED <<resolver, stops>> => StopTypes'
         /\ UNCHANGED <<open, ui, at, conv>> => PanelTypes'
         /\ UNCHANGED owner => OwnerType'
         /\ UNCHANGED historyVars => HistoryTypes'
<1> QED
  BY DEF Types, SessionTypes, DocTypes, RecorderType, StreamTypes, CallTypes, recVars, StartTypes,
         StopTypes, PanelTypes, OwnerType, HistoryTypes, historyVars

\* The records that the session is set to.
LEMMA SessionsAre ==
  /\ NoSession \in Session
  /\ \A c \in Numbers : \A w \in Panels :
       /\ [surface |-> Offscreen, conv |-> c, window |-> w] \in Session
       /\ [surface |-> "popup", conv |-> c, window |-> w] \in Session
  BY Constants DEF NoSession, Session

\* An event takes one from the budget.
LEMMA SpendKeeps ==
  ASSUME HistoryTypes, NEW e, Spend(e)
  PROVE  budget' \in 0 .. MaxEvents
  BY Constants DEF HistoryTypes, Spend

\* The calls of the service worker change their own places and the session.
LEMMA StarterTypes ==
  ASSUME Types, NEW c \in Convs, Starter(c)
  PROVE  Types'
<1> USE TypesFrame DEF Types
<1>1. starts \in [Convs -> StartStates] /\ waiters \subseteq Convs /\ starts[c] \in StartStates
  BY DEF StartTypes
<1>2. ASSUME NEW l \in StartStates, StartAt(c, l), starts[c] # None, waiters' \subseteq Convs,
             UNCHANGED owner
      PROVE  StartTypes'
  <2>1. starts' = [starts EXCEPT ![c] = l] /\ c <= Len(owner)
    BY <1>2, <1>1 DEF StartAt, StartTypes
  <2>2. starts' \in [Convs -> StartStates]
    BY <2>1, <1>1
  <2>3. \A k \in Convs : starts'[k] # None => k <= Len(owner)
    BY <2>1, <1>1 DEF StartTypes
  <2> QED
    BY <2>2, <2>3, <1>2 DEF StartTypes
<1>3. {"ensure", "create", "send", "wait", "write", "clear", "close", "ok", "error"} \subseteq
         StartStates \ {None}
  BY DEF StartStates, None
<1>4. CASE HasDocument(c)
  <2>1. StartTypes'
    BY <1>1, <1>2, <1>3, <1>4 DEF HasDocument, vars, panelVars
  <2> QED
    BY <2>1, <1>4 DEF HasDocument, panelVars, historyVars
<1>5. CASE CreateDocument(c)
  <2>1. StartTypes'
    BY <1>1, <1>2, <1>3, <1>5 DEF CreateDocument, panelVars
  <2>2. SessionTypes'
    BY <1>5 DEF CreateDocument, SessionTypes
  <2> QED
    BY <2>1, <2>2, <1>5 DEF CreateDocument, panelVars, historyVars
<1>6. CASE SendStart(c)
  <2>1. StartTypes'
    BY <1>1, <1>2, <1>3, <1>6 DEF SendStart, panelVars
  <2>2. DocTypes'
    BY StartCallDoes, Constants, <1>6 DEF SendStart
  <2> QED
    BY <2>1, <2>2, <1>6 DEF SendStart, panelVars, historyVars, DocTypes
<1>7. CASE StartTimeout(c)
  <2>1. StartTypes'
    BY <1>1, <1>2, <1>3, <1>7 DEF StartTimeout, panelVars
  <2> QED
    BY <2>1, <1>7 DEF StartTimeout, panelVars, historyVars
<1>8. CASE WriteSession(c)
  <2>1. StartTypes'
    BY <1>1, <1>2, <1>3, <1>8 DEF WriteSession, panelVars
  <2>2. c \in DOMAIN owner
    BY <1>1, <1>8, Constants DEF WriteSession, StartTypes, OwnerType, Convs, None
  <2>3. owner[c] \in Panels /\ c \in Numbers
    BY <2>2, Constants DEF OwnerType
  <2>4. SessionTypes'
    BY <2>3, <1>8, SessionsAre DEF WriteSession, SessionTypes
  <2> QED
    BY <2>1, <2>4, <1>8 DEF WriteSession, panelVars, historyVars
<1>9. CASE StartClears(c)
  <2>1. StartTypes'
    BY <1>1, <1>2, <1>3, <1>9 DEF StartClears, panelVars
  <2>2. SessionTypes'
    BY <1>9, SessionsAre DEF StartClears, SessionTypes
  <2> QED
    BY <2>1, <2>2, <1>9 DEF StartClears, panelVars, historyVars
<1>10. CASE StartCloses(c)
  <2>1. StartTypes'
    BY <1>1, <1>2, <1>3, <1>10 DEF StartCloses, panelVars
  <2>2. DocTypes'
    BY GoneDoes, Constants, <1>10 DEF StartCloses
  <2>3. SessionTypes'
    BY <1>10 DEF StartCloses, SessionTypes
  <2> QED
    BY <2>1, <2>2, <2>3, <1>10 DEF StartCloses, panelVars, historyVars, DocTypes
<1> QED
  BY <1>4, <1>5, <1>6, <1>7, <1>8, <1>9, <1>10 DEF Starter

\* So do those that stop.
LEMMA StopperTypes ==
  ASSUME Types, NEW k \in Callers, Stopper(k)
  PROVE  Types'
<1> USE TypesFrame DEF Types
<1>1. stops \in [Callers -> StopStates] /\ resolver \in Callers \cup {None}
  BY DEF StopTypes
<1>2. ASSUME NEW l \in StopStates, StopAt(k, l), resolver' \in Callers \cup {None}
      PROVE  StopTypes'
  BY <1>1, <1>2 DEF StopAt, StopTypes
<1>3. {None, "check", "wait", "clear", "close"} \subseteq StopStates
  BY DEF StopStates
<1>4. CASE ClearStale(k)
  <2>1. StopTypes'
    BY <1>1, <1>2, <1>3, <1>4 DEF ClearStale
  <2>2. SessionTypes'
    BY <1>4, SessionsAre DEF ClearStale, SessionTypes
  <2> QED
    BY <2>1, <2>2, <1>4 DEF ClearStale, panelVars, historyVars
<1>5. CASE SendStop(k)
  <2>1. StopTypes'
    BY <1>1, <1>2, <1>3, <1>5 DEF SendStop
  <2>2. DocTypes'
    BY StopCallDoes, Constants, <1>5 DEF SendStop
  <2> QED
    BY <2>1, <2>2, <1>5 DEF SendStop, panelVars, historyVars, DocTypes
<1>6. CASE StopTimeout(k)
  <2>1. StopTypes'
    BY <1>1, <1>2, <1>3, <1>6 DEF StopTimeout
  <2>2. SessionTypes'
    BY <1>6, SessionsAre DEF StopTimeout, SessionTypes
  <2> QED
    BY <2>1, <2>2, <1>6 DEF StopTimeout, panelVars, historyVars
<1>7. CASE StopClears(k)
  <2>1. StopTypes'
    BY <1>1, <1>2, <1>3, <1>7 DEF StopClears
  <2>2. SessionTypes'
    BY <1>7, SessionsAre DEF StopClears, SessionTypes
  <2> QED
    BY <2>1, <2>2, <1>7 DEF StopClears, panelVars, historyVars
<1>8. CASE StopCloses(k)
  <2>1. StopTypes'
    BY <1>1, <1>2, <1>3, <1>8 DEF StopCloses
  <2>2. DocTypes'
    BY GoneDoes, Constants, <1>8 DEF StopCloses
  <2>3. SessionTypes'
    BY <1>8 DEF StopCloses, SessionTypes
  <2> QED
    BY <2>1, <2>2, <2>3, <1>8 DEF StopCloses, panelVars, historyVars, DocTypes
<1> QED
  BY <1>4, <1>5, <1>6, <1>7, <1>8 DEF Stopper

\* What start() returns to is in its types, and a start that is answered had begun.
LEMMA StartReturnsTypes ==
  ASSUME Types, NEW d \in Docs, NEW c \in Convs, NEW ok \in BOOLEAN, StartReturns(d, c, ok),
         WaitersWait, UNCHANGED <<open, owner>>
  PROVE  StartTypes' /\ PanelTypes'
<1>1. CASE d = Offscreen
  <2>1. c \in waiters => starts[c] = "wait"
    BY DEF WaitersWait
  <2>2. UNCHANGED <<ui, at, conv>> /\ waiters' = waiters \ {c}
    BY <1>1 DEF StartReturns
  <2>3. starts' = starts \/ \E l \in {"write", "clear"} :
                              starts' = [starts EXCEPT ![c] = l] /\ starts[c] = "wait"
    BY <1>1, <2>1 DEF StartReturns
  <2>4. StartTypes'
    BY <2>2, <2>3 DEF Types, StartTypes, StartStates, None
  <2> QED
    BY <2>2, <2>4 DEF Types, PanelTypes
<1>2. CASE d # Offscreen
  <2>1. d \in Panels /\ UNCHANGED <<waiters, starts>>
    BY <1>2 DEF StartReturns, Docs
  <2>2. at' = [at EXCEPT ![d] = IF ok THEN "register" ELSE None]
        /\ ui' = [ui EXCEPT ![d] = IF ok THEN "popup" ELSE None]
        /\ conv' = IF ok THEN conv ELSE [conv EXCEPT ![d] = 0]
    BY <1>2 DEF StartReturns
  <2>3. PanelTypes'
    BY <2>1, <2>2, Constants DEF Types, PanelTypes, Places
  <2> QED
    BY <2>1, <2>3 DEF Types, StartTypes
<1> QED
  BY <1>1, <1>2

\* The same of what stop() returns to.
LEMMA StopReturnsTypes ==
  ASSUME Types, NEW d \in Docs, NEW ok \in BOOLEAN, StopReturns(d, ok),
         UNCHANGED <<offDoc, open, conv>>
  PROVE  SessionTypes' /\ StopTypes' /\ PanelTypes'
<1>1. CASE d = Offscreen
  <2>1. UNCHANGED <<session, ui, at>> /\ resolver' = None
        /\ stops' = IF resolver # None THEN [stops EXCEPT ![resolver] = "clear"] ELSE stops
    BY <1>1 DEF StopReturns
  <2> QED
    BY <2>1 DEF Types, SessionTypes, StopTypes, StopStates, PanelTypes
<1>2. CASE d # Offscreen
  <2>1. d \in Panels /\ UNCHANGED <<resolver, stops>>
    BY <1>2 DEF StopReturns, Docs
  <2>2. /\ session' = IF ok THEN NoSession ELSE session
        /\ at' = [at EXCEPT ![d] = IF @ = "stop" THEN None ELSE @]
        /\ ui' = IF ok \/ at[d] = "stop" THEN [ui EXCEPT ![d] = None] ELSE ui
    BY <1>2 DEF StopReturns
  <2>3. PanelTypes'
    BY <2>1, <2>2 DEF Types, PanelTypes, Places
  <2>4. SessionTypes'
    BY <2>2, SessionsAre DEF Types, SessionTypes
  <2> QED
    BY <2>1, <2>3, <2>4 DEF Types, StopTypes
<1> QED
  BY <1>1, <1>2

\* A recorder that starts, records and stops.
LEMMA RecorderTypes ==
  ASSUME Types, WaitersWait, NEW d \in Docs, Recorder(d) \/ Chunk(d) \/ Faults(d)
  PROVE  Types'
<1> USE TypesFrame DEF Types
<1>1. ASSUME NEW c \in Convs, Started(d, c) PROVE Types'
  <2>1. DocTypes'
    BY <1>1, StartedDoes
  <2>2. StartTypes' /\ PanelTypes'
    BY <1>1, StartReturnsTypes DEF Started
  <2> QED
    BY <2>1, <2>2, <1>1 DEF Started
<1>2. ASSUME NEW c \in Convs, StartRaises(d, c) PROVE Types'
  <2>1. DocTypes'
    BY <1>2, StartRaisesDoes
  <2>2. StartTypes' /\ PanelTypes'
    BY <1>2, StartReturnsTypes DEF StartRaises
  <2>3. HistoryTypes'
    BY <1>2, SpendKeeps DEF StartRaises, HistoryTypes
  <2> QED
    BY <2>1, <2>2, <2>3, <1>2 DEF StartRaises
<1>3. CASE Chunk(d)
  <2>1. PICK c \in live[d] : DocTypes' /\ heard' = heard \cup {c}
    BY <1>3, ChunkDoes
  <2>2. HistoryTypes'
    BY <2>1, <1>3 DEF Chunk, HistoryTypes, DocTypes, StreamTypes
  <2> QED
    BY <2>1, <2>2, <1>3 DEF Chunk, workerVars, panelVars
<1>4. ASSUME NEW i \in DOMAIN stopping[d], Finalized(d, i) PROVE Types'
  <2>1. DocTypes'
    BY <1>4, StopDoneDoes DEF Finalized
  <2>2. SessionTypes' /\ StopTypes' /\ PanelTypes'
    BY <1>4, StopReturnsTypes DEF Finalized, StopDone
  <2>2a. stopping[d][i] \in Call
    BY DEF DocTypes, CallTypes
  <2>3. stopping[d][i].ws \in Convs
    BY <2>2a, <1>4, Constants DEF Finalized, DocTypes, CallTypes, Call
  <2>4. HistoryTypes'
    BY <2>3, <1>4 DEF Finalized, HistoryTypes
  <2> QED
    BY <2>1, <2>2, <2>4, <1>4 DEF Finalized
<1>5. ASSUME NEW i \in DOMAIN stopping[d], Uploaded(d, i) PROVE Types'
  <2>1. DocTypes'
    BY <1>5, StopDoneDoes DEF Uploaded
  <2>2. SessionTypes' /\ StopTypes' /\ PanelTypes'
    BY <1>5, StopReturnsTypes DEF Uploaded, StopDone
  <2>3. recorder[d].parts \subseteq Convs
    BY DEF DocTypes, RecorderType, Record
  <2>4. HistoryTypes'
    BY <2>3, <1>5 DEF Uploaded, HistoryTypes
  <2> QED
    BY <2>1, <2>2, <2>4, <1>5 DEF Uploaded
<1>6. ASSUME NEW i \in DOMAIN stopping[d], NotFinalized(d, i) PROVE Types'
  <2>1. DocTypes'
    BY <1>6, NotFinalizedDoes
  <2> QED
    BY <2>1, <1>6 DEF NotFinalized, workerVars, panelVars, historyVars, HistoryTypes
<1>7. ASSUME NEW i \in DOMAIN stopping[d], UploadRaises(d, i) PROVE Types'
  <2>1. DocTypes'
    BY <1>7, UploadRaisesDoes
  <2>2. SessionTypes' /\ StopTypes' /\ PanelTypes'
    BY <1>7, StopReturnsTypes DEF UploadRaises
  <2>2a. stopping[d][i] \in Call
    BY DEF DocTypes, CallTypes
  <2>3. stopping[d][i].conv \in Convs
    BY <2>2a, <1>7, Constants DEF UploadRaises, DocTypes, CallTypes, Call
  <2>4. HistoryTypes'
    BY <2>3, <1>7, SpendKeeps DEF UploadRaises, HistoryTypes
  <2> QED
    BY <2>1, <2>2, <2>4, <1>7 DEF UploadRaises
<1> QED
  BY <1>1, <1>2, <1>3, <1>4, <1>5, <1>6, <1>7 DEF Recorder, Faults

\* A stop begins.
LEMMA MayStopTypes ==
  ASSUME HistoryTypes, MayStop, UNCHANGED <<told, heard, delivered, failed, lost>>
  PROVE  HistoryTypes'
<1>1. crossed' \in BOOLEAN
  BY DEF MayStop, HistoryTypes
<1>2. budget' \in 0 .. MaxEvents
  BY SpendKeeps DEF MayStop, HistoryTypes
<1> QED
  BY <1>1, <1>2 DEF HistoryTypes

\* It checks the document first.
LEMMA StopBeginsTypes ==
  ASSUME StopTypes, NEW k \in Callers, StopBegins(k), UNCHANGED resolver
  PROVE  StopTypes'
  BY DEF StopBegins, StopAt, StopTypes, StopStates

\* Who stops, and who only looks at the session.
LEMMA WatcherTypes ==
  ASSUME Types, NEW p \in Panels,
         Sync(p) \/ StopOwn(p) \/ StopOffscreen(p) \/ StopNothing(p) \/ StopAnswered(p)
         \/ OpenPanel(p)
  PROVE  Types'
<1> USE TypesFrame DEF Types
<1>1. {None, "stop", "stopping"} \subseteq Places
  BY DEF Places
<1>4. CASE Sync(p)
  <2>1. ui' = [ui EXCEPT ![p] = Shown(p)]
        /\ conv' = (IF session # NoSession /\ ~recorder[p].on
                    THEN [conv EXCEPT ![p] = session.conv] ELSE conv)
        /\ UNCHANGED <<open, at>>
    BY <1>4 DEF Sync
  <2>2. session.surface \in {None, Offscreen, "popup"} /\ session.conv \in Numbers
    BY DEF SessionTypes, Session
  <2>3. Shown(p) \in {None, Offscreen, "popup"}
    BY <2>2 DEF Shown, PanelTypes
  <2>4. PanelTypes'
    BY <2>1, <2>2, <2>3 DEF PanelTypes
  <2> QED
    BY <2>4, <1>4 DEF Sync, workerVars
<1>5. CASE StopOwn(p)
  <2>1. DocTypes'
    BY <1>5, StopCallDoes, Constants DEF StopOwn
  <2>2. PanelTypes'
    BY <1>1, <1>5 DEF StopOwn, At, PanelTypes
  <2> QED
    BY <2>1, <2>2, <1>5 DEF StopOwn, workerVars
<1>6. CASE StopOffscreen(p)
  <2>1. StopTypes'
    BY <1>6, StopBeginsTypes, Constants DEF StopOffscreen
  <2>2. PanelTypes'
    BY <1>1, <1>6 DEF StopOffscreen, At, PanelTypes
  <2> QED
    BY <2>1, <2>2, <1>6, MayStopTypes DEF StopOffscreen
<1>7. CASE StopNothing(p)
  <2>1. PanelTypes'
    BY <1>7 DEF StopNothing, PanelTypes
  <2> QED
    BY <2>1, <1>7 DEF StopNothing, workerVars
<1>8. CASE StopAnswered(p)
  <2>1. PanelTypes'
    BY <1>1, <1>8 DEF StopAnswered, At, PanelTypes
  <2> QED
    BY <2>1, <1>8 DEF StopAnswered, workerVars
<1>9. CASE OpenPanel(p)
  <2>1. PanelTypes'
    BY <1>9 DEF OpenPanel, PanelTypes
  <2> QED
    BY <2>1, <1>9 DEF OpenPanel, workerVars
<1> QED
  BY <1>4, <1>5, <1>6, <1>7, <1>8, <1>9

\* The menu stops, too.
LEMMA MenuStopTypes ==
  ASSUME Types, MenuStop
  PROVE  Types'
<1>1. HistoryTypes'
  BY MayStopTypes DEF MenuStop, Types
<1>2. StopTypes'
  BY StopBeginsTypes, Constants DEF MenuStop, Types
<1> QED
  BY <1>1, <1>2, TypesFrame DEF MenuStop, panelVars, Types

\* Who starts.
LEMMA StartingTypes ==
  ASSUME Types, PanelAsks, NEW p \in Panels,
         Start(p) \/ ClearSession(p) \/ CreateFails(p) \/ Create(p) \/ StartAnswered(p)
         \/ Register(p)
  PROVE  Types'
<1> USE TypesFrame DEF Types
<1>1. {None, "clear", "create", "start", "record", "register"} \subseteq Places
  BY DEF Places
<1>2. ASSUME NEW l \in Places, At(p, l), UNCHANGED <<open, ui, conv>>
      PROVE  PanelTypes'
  BY <1>2 DEF At, PanelTypes
<1>3. CASE Start(p)
  <2>1. PanelTypes'
    BY <1>1, <1>2, <1>3 DEF Start
  <2>2. crossed' \in BOOLEAN /\ budget' \in 0 .. MaxEvents
    BY <1>3, SpendKeeps DEF Start, HistoryTypes
  <2>3. HistoryTypes'
    BY <2>2, <1>3 DEF Start, HistoryTypes
  <2> QED
    BY <2>1, <2>3, <1>3 DEF Start, workerVars
<1>4. CASE ClearSession(p)
  <2>1. PanelTypes'
    BY <1>1, <1>2, <1>4 DEF ClearSession
  <2>2. SessionTypes'
    BY <1>4, SessionsAre DEF ClearSession, SessionTypes
  <2> QED
    BY <2>1, <2>2, <1>4 DEF ClearSession, workerVars
<1>5. CASE CreateFails(p)
  <2>1. PanelTypes'
    BY <1>1, <1>2, <1>5 DEF CreateFails
  <2>2. HistoryTypes'
    BY <1>5, SpendKeeps DEF CreateFails, HistoryTypes
  <2> QED
    BY <2>1, <2>2, <1>5 DEF CreateFails, workerVars
<1>6. CASE Create(p)
  <2> DEFINE c == Len(owner) + 1
  <2>1. c \in Convs /\ c \in Numbers /\ Len(owner) \in Nat
    BY <1>6, Constants DEF Create, OwnerType, Convs
  <2>2. owner' = Append(owner, p) /\ conv' = [conv EXCEPT ![p] = c]
        /\ UNCHANGED <<session, offDoc, waiters, resolver, stops, open, ui, historyVars>>
        /\ Len(owner) < MaxStarts
    BY <1>6 DEF Create
  <2>3. OwnerType' /\ Len(owner') = c
    BY <2>1, <2>2, Constants DEF OwnerType
  <2>4. \/ At(p, "start") /\ StartAt(c, "ensure") /\ UNCHANGED recVars
        \/ At(p, "register") /\ UNCHANGED recVars /\ UNCHANGED starts
        \/ At(p, "record") /\ StartCall(p, c) /\ UNCHANGED starts
    BY <1>6 DEF Create
  <2> HIDE DEF c
  <2>5. DocTypes'
    BY <2>1, <2>4, StartCallDoes, Constants
  <2>6. PanelTypes'
    BY <1>1, <2>1, <2>2, <2>4 DEF At, PanelTypes
  <2>7. Len(owner) <= Len(owner')
    BY <2>1, <2>3 DEF c
  <2>8. \A k \in Convs : starts'[k] # None => k <= Len(owner')
    <3> TAKE k \in Convs
    <3>1. k \in Nat /\ Len(owner) \in Nat /\ Len(owner') \in Nat
      BY <2>3, Constants DEF Convs, OwnerType
    <3>2. k = c \/ starts'[k] = starts[k]
      BY <2>1, <2>4 DEF StartAt, StartTypes
    <3>3. k = c => k <= Len(owner')
      BY <2>3, <3>1
    <3>4. starts[k] # None => k <= Len(owner)
      BY DEF StartTypes
    <3> QED
      BY <2>7, <3>1, <3>2, <3>3, <3>4
  <2>9. starts' \in [Convs -> StartStates]
    BY <2>4, <2>1 DEF StartAt, StartTypes, StartStates
  <2>10. StartTypes'
    BY <2>2, <2>8, <2>9 DEF StartTypes
  <2> QED
    BY <2>2, <2>3, <2>5, <2>6, <2>10
<1>7. CASE StartAnswered(p)
  <2>1. starts' = [starts EXCEPT ![conv[p]] = None]
    BY <1>7 DEF StartAnswered, StartAt
  <2>2. StartTypes'
    BY <2>1, <1>7 DEF StartAnswered, StartTypes, StartStates
  <2>3. PanelTypes'
    BY <1>1, <1>7, Constants DEF StartAnswered, At, PanelTypes
  <2>4. conv[p] \in Convs
    BY <1>7, Constants DEF StartAnswered, PanelTypes, PanelAsks
  <2>5. HistoryTypes'
    BY <2>4, <1>7 DEF StartAnswered, HistoryTypes
  <2> QED
    BY <2>2, <2>3, <2>5, <1>7 DEF StartAnswered
<1>8. CASE Register(p)
  <2>1. PanelTypes'
    BY <1>1, <1>8 DEF Register, At, PanelTypes
  <2>2. conv[p] \in Numbers
    BY DEF PanelTypes
  <2>3. SessionTypes'
    BY <2>2, <1>8, SessionsAre DEF Register, SessionTypes
  <2> QED
    BY <2>1, <2>3, <1>8 DEF Register, workerVars
<1> QED
  BY <1>3, <1>4, <1>5, <1>6, <1>7, <1>8

\* What the browser ends.
LEMMA BrowserTypes ==
  ASSUME Types, NEW p \in Panels,
         ClosePanel(p) \/ CloseWindow(p) \/ CloseTab(p)
  PROVE  Types'
<1> USE TypesFrame DEF Types
<1>1. ASSUME NEW l \in Places, LosePanel(p, l) PROVE DocTypes' /\ PanelTypes' /\ OwnerType'
  <2>1. DocTypes'
    BY <1>1, GoneDoes, Constants DEF LosePanel
  <2>2. PanelTypes'
    BY <1>1, Constants DEF LosePanel, At, PanelTypes
  <2> QED
    BY <1>1, <2>1, <2>2 DEF LosePanel
<1>2. ASSUME NEW e, Spend(e), crossed' \in BOOLEAN, lost' \in BOOLEAN,
             UNCHANGED <<told, heard, delivered, failed>>
      PROVE  HistoryTypes'
  BY <1>2, SpendKeeps DEF HistoryTypes
<1>3. crossed \in BOOLEAN /\ lost \in BOOLEAN /\ {None, "closed"} \subseteq Places
  BY DEF HistoryTypes, Places
<1>4. CASE ClosePanel(p)
  <2>1. DocTypes' /\ PanelTypes' /\ OwnerType'
    BY <1>1, <1>3, <1>4 DEF ClosePanel
  <2>2. HistoryTypes'
    BY <1>2, <1>3, <1>4 DEF ClosePanel, LosePanel
  <2> QED
    BY <2>1, <2>2, <1>4 DEF ClosePanel, LosePanel, workerVars
<1>5. CASE CloseWindow(p)
  <2>1. DocTypes' /\ PanelTypes' /\ OwnerType'
    BY <1>1, <1>3, <1>5 DEF CloseWindow
  <2>2. crossed' \in BOOLEAN
    BY <1>3, <1>5 DEF CloseWindow
  <2>3. HistoryTypes'
    BY <1>2, <1>3, <2>2, <1>5 DEF CloseWindow, LosePanel
  <2>4. SessionTypes'
    BY <1>5, SessionsAre DEF CloseWindow, SessionTypes
  <2>5. StopTypes'
    BY <1>5, Constants DEF CloseWindow, StopBegins, StopAt, StopTypes, StopStates
  <2> QED
    BY <2>1, <2>3, <2>4, <2>5, <1>5 DEF CloseWindow, LosePanel
<1>6. CASE CloseTab(p)
  <2>1. DocTypes'
    BY <1>6, StopCallDoes, Constants DEF CloseTab
  <2>2. SessionTypes'
    BY <1>6, SessionsAre DEF CloseTab, SessionTypes
  <2>3. HistoryTypes'
    BY <1>2, <1>3, <1>6 DEF CloseTab
  <2> QED
    BY <2>1, <2>2, <2>3, <1>6 DEF CloseTab, workerVars, panelVars
<1> QED
  BY <1>4, <1>5, <1>6

\* The service worker is ended.
LEMMA EndWorkerTypes ==
  ASSUME Types, EndWorker
  PROVE  Types'
<1> USE TypesFrame DEF Types
<1>1. StopTypes'
  BY DEF EndWorker, StopTypes, StopStates
<1>2. StartTypes'
  BY DEF EndWorker, StartTypes, StartStates, panelVars, None
<1>3. HistoryTypes'
  BY SpendKeeps DEF EndWorker, HistoryTypes
<1> QED
  BY <1>1, <1>2, <1>3 DEF EndWorker, panelVars

\* TypeOK is kept by every step.
LEMMA TypesKept ==
  ASSUME Types, WaitersWait, PanelAsks, Next
  PROVE  Types'
<1>1. ASSUME NEW d \in Docs, Recorder(d) \/ Chunk(d) \/ Faults(d) PROVE Types'
  BY <1>1, RecorderTypes
<1>2. ASSUME NEW c \in Convs, Starter(c) PROVE Types'
  BY <1>2, StarterTypes
<1>3. ASSUME NEW k \in Callers, Stopper(k) PROVE Types'
  BY <1>3, StopperTypes
<1>4. ASSUME NEW p \in Panels, Panel(p) \/ Sync(p) \/ Start(p) \/ CreateFails(p) \/ StopOwn(p)
                               \/ StopOffscreen(p) \/ StopNothing(p)
                               \/ OpenPanel(p) \/ ClosePanel(p) \/ CloseWindow(p) \/ CloseTab(p)
      PROVE  Types'
  BY <1>4, WatcherTypes, StartingTypes, BrowserTypes DEF Panel
<1>5. CASE MenuStop \/ EndWorker
  BY <1>5, MenuStopTypes, EndWorkerTypes
<1> QED
  BY <1>1, <1>2, <1>3, <1>4, <1>5 DEF Next

-----------------------------------------------------------------------------
\* The rest of the invariant is kept

\* What is promised to calls, and the seven parts about starts that do not cross.
Waits == ResolverWaits /\ WaitersWait /\ HasDocumentOpen /\ PanelRecords /\ PanelAsks
Parts == LastHeld /\ OneStart /\ OneRecorder /\ StopsAlone /\ ToldLast /\ LiveShown /\ Kept

\* A start that goes on from one call to the next, before the session is written.
LEMMA StartGoesOn ==
  ASSUME IInv, NEW c \in Convs, NEW l \in StartStates, Runs(c),
         starts' = [starts EXCEPT ![c] = l], l \notin {None, "ok", "error", "write"},
         l \in {"ensure", "create", "send"} => starts[c] \in {"ensure", "create"},
         waiters' = waiters \ {c} /\ (starts[c] = "wait" \/ waiters' = waiters),
         offDoc => offDoc', session' \in {session, NoSession},
         UNCHANGED <<recVars, resolver, stops, panelVars, historyVars>>
  PROVE  Waits' /\ Uncrossed'
<1>1. UNCHANGED <<recorder, live, starting, stopping, resolver, stops,
                  open, ui, at, conv, owner, told, heard, delivered, failed, crossed, lost>>
  BY DEF recVars, panelVars, historyVars
<1>2. \A k \in Convs : starts'[k] = IF k = c THEN l ELSE starts[k]
  BY DEF IInv, Types, StartTypes
<1>3. \A k \in Convs : Runs(k)' <=> Runs(k)
  BY <1>2 DEF Runs
<1>4. StartRuns' <=> StartRuns
  BY <1>3 DEF StartRuns, Runs
<1>5. /\ \A d \in Docs : Busy(d)' <=> Busy(d)
      /\ StopRuns' <=> StopRuns
      /\ \A p \in Panels : InStart(p)' <=> InStart(p)
  BY <1>1 DEF Busy, StopRuns, InStart
<1>6. Starting' <=> Starting
  BY <1>1, <1>4 DEF Starting
<1>7. WaitersWait'
  <2>1. c \notin waiters'
    BY DEF IInv, WaitersWait
  <2> QED
    BY <1>2, <2>1 DEF IInv, WaitersWait, Types, StartTypes
<1>8. Waits'
  BY <1>1, <1>5, <1>7, Constants
     DEF IInv, Waits, ResolverWaits, HasDocumentOpen, PanelRecords, PanelAsks
<1>9. ASSUME ~crossed' PROVE Parts'
  <2>1. Parts
    BY <1>1, <1>9 DEF IInv, Uncrossed, Parts
  <2>2. LastHeld'
    BY <1>1, <2>1 DEF LastHeld, Parts
  <2>3. OneStart'
    BY <1>1, <1>3, <1>4, <1>5, <2>1 DEF OneStart, Parts
  <2>4. OneRecorder'
    BY <1>1, <1>2, <1>4, <1>5, <2>1, Constants DEF OneRecorder, Parts
  <2>5. session.surface # Offscreen => session'.surface # Offscreen
    BY DEF NoSession, None, Offscreen
  <2>6. StopsAlone'
    BY <2>5, <1>1, <1>2, <1>4, <1>5, <1>6, <2>1 DEF StopsAlone, Parts
  <2>7. ToldLast'
    <3>1. \A p \in Panels : at[p] = "start" => conv[p] \in Convs
      BY Constants DEF IInv, PanelAsks, Types, PanelTypes
    <3>2. \A p \in Panels : at[p] = "start" /\ starts'[conv[p]] = "ok" => starts[conv[p]] = "ok"
      BY <3>1, <1>2
    <3> QED
      BY <1>1, <1>4, <1>5, <2>1, <3>2, Constants DEF ToldLast, Parts
  <2>8. LiveShown' /\ Kept'
    BY <1>1, <1>3, <1>4, <2>1 DEF LiveShown, StartRuns, Runs, Kept, Parts
  <2> QED
    BY <2>2, <2>3, <2>4, <2>6, <2>7, <2>8 DEF Parts
<1> QED
  BY <1>8, <1>9 DEF Uncrossed, Parts

\* The steps of a start in the service worker that leave the recorders alone.
LEMMA StarterRest ==
  ASSUME IInv, NEW c \in Convs,
         HasDocument(c) \/ CreateDocument(c) \/ StartTimeout(c) \/ StartClears(c)
  PROVE  Waits' /\ Uncrossed'
<1>1. {"create", "send", "clear", "close"} \subseteq StartStates \ {None, "ok", "error", "write"}
  BY DEF StartStates, None
<1>2. starts[c] \in {"ensure", "create", "wait", "clear"} => Runs(c)
  BY DEF Runs, None
<1>3. c \in waiters => starts[c] = "wait"
  BY DEF IInv, WaitersWait
<1>4. CASE HasDocument(c)
  BY <1>1, <1>2, <1>3, <1>4, StartGoesOn DEF HasDocument, StartAt
<1>5. CASE CreateDocument(c)
  BY <1>1, <1>2, <1>3, <1>5, StartGoesOn DEF CreateDocument, StartAt
<1>6. CASE StartTimeout(c)
  BY <1>1, <1>2, <1>3, <1>6, StartGoesOn DEF StartTimeout, StartAt
<1>7. CASE StartClears(c)
  BY <1>1, <1>2, <1>3, <1>7, StartGoesOn DEF StartClears, StartAt
<1> QED
  BY <1>4, <1>5, <1>6, <1>7

\* The session is written: the start is over, and the microphone is in the session.
LEMMA WriteSessionRest ==
  ASSUME IInv, NEW c \in Convs, WriteSession(c)
  PROVE  Waits' /\ Uncrossed'
<1>1. /\ UNCHANGED <<offDoc, recorder, live, starting, stopping, waiters, resolver, stops,
                     open, ui, at, conv, owner, told, heard, delivered, failed, crossed, lost>>
      /\ starts[c] = "write" /\ starts' = [starts EXCEPT ![c] = "ok"]
      /\ session'.surface = Offscreen /\ session'.conv = c
  BY DEF WriteSession, StartAt, recVars, panelVars, historyVars
<1>2. \A k \in Convs : starts'[k] = IF k = c THEN "ok" ELSE starts[k]
  BY <1>1 DEF IInv, Types, StartTypes
<1>3. /\ Runs(c) /\ \A k \in Convs : Runs(k)' <=> (Runs(k) /\ k # c)
  BY <1>1, <1>2 DEF Runs, None
<1>4. StartRuns
  BY <1>3 DEF StartRuns, Runs
<1>5. /\ \A d \in Docs : Busy(d)' <=> Busy(d)
      /\ StopRuns' <=> StopRuns
      /\ \A p \in Panels : InStart(p)' <=> InStart(p)
  BY <1>1 DEF Busy, StopRuns, InStart
<1>6. WaitersWait'
  BY <1>1, <1>2 DEF IInv, WaitersWait, Types, StartTypes
<1>7. Waits'
  BY <1>1, <1>5, <1>6, Constants
     DEF IInv, Waits, ResolverWaits, HasDocumentOpen, PanelRecords, PanelAsks
<1>8. ASSUME ~crossed' PROVE Parts'
  <2>1. Parts
    BY <1>1, <1>8 DEF IInv, Uncrossed, Parts
  <2>2. c = Len(owner) /\ \A k \in Convs : Runs(k) => k = c
    BY <1>3, <2>1 DEF Parts, OneStart
  <2>3. ~StartRuns'
    BY <1>3, <2>2 DEF StartRuns, Runs
  <2>4. LastHeld'
    BY <1>1, <2>1 DEF LastHeld, Parts
  <2>5. OneStart'
    BY <1>1, <1>3, <2>3, <1>5, <2>1 DEF OneStart, Parts
  <2>6. OneRecorder'
    BY <1>1, <1>2, <2>3, <1>5, <2>1, Constants DEF OneRecorder, Parts
  <2>7. ~(\E p \in Panels : at[p] = "create") /\ starting[Offscreen] = {}
    BY <1>1, <1>4, <2>1 DEF Parts, OneStart, StopsAlone, InStart, StartPhases
  <2>8. Starting /\ ~StopRuns
    BY <1>4, <2>1 DEF Starting, Parts, StopsAlone
  <2>9. StopsAlone'
    BY <1>1, <1>2, <2>1, <2>3, <2>7, <2>8, <1>5 DEF StopsAlone, Parts, StopRuns, None
  <2>10. ToldLast'
    BY <1>1, <1>4, <2>3, <1>5, <2>1, Constants DEF ToldLast, Parts
  <2>11. LiveShown' /\ Kept'
    BY <1>1, <2>1, <2>2, <2>7 DEF LiveShown, Kept, Parts
  <2> QED
    BY <2>4, <2>5, <2>6, <2>9, <2>10, <2>11 DEF Parts
<1> QED
  BY <1>7, <1>8 DEF Uncrossed, Parts

\* A start that failed closes the document, whatever it does.
LEMMA StartClosesRest ==
  ASSUME IInv, NEW c \in Convs, StartCloses(c)
  PROVE  Waits' /\ Uncrossed'
<1>1. /\ UNCHANGED <<session, waiters, resolver, stops,
                     open, ui, at, conv, owner, told, heard, delivered, failed, crossed, lost>>
      /\ starts[c] = "close" /\ starts' = [starts EXCEPT ![c] = "error"]
      /\ Gone(Offscreen)
  BY DEF StartCloses, StartAt, panelVars, historyVars
<1>2. \A k \in Convs : starts'[k] = IF k = c THEN "error" ELSE starts[k]
  BY <1>1 DEF IInv, Types, StartTypes
<1>3. /\ Runs(c) /\ \A k \in Convs : Runs(k)' <=> (Runs(k) /\ k # c)
  BY <1>1, <1>2 DEF Runs, None
<1>4. StartRuns
  BY <1>3 DEF StartRuns, Runs
<1>5. /\ OnlyIn(Offscreen) /\ recorder'[Offscreen] = Idle /\ live'[Offscreen] = {}
      /\ starting'[Offscreen] = {} /\ stopping'[Offscreen] = <<>>
  BY <1>1, GoneDoes, Constants DEF IInv
<1>6. /\ \A d \in Docs : Busy(d)' <=> (Busy(d) /\ d # Offscreen)
      /\ StopRuns' <=> StopRuns
      /\ \A p \in Panels : InStart(p)' <=> InStart(p)
      /\ \A p \in Panels : starting'[p] = starting[p]
  BY <1>1, <1>5, Constants DEF Busy, StopRuns, InStart, OnlyIn, Idle
<1>7. WaitersWait'
  BY <1>1, <1>2 DEF IInv, WaitersWait, Types, StartTypes
<1>8. Waits'
  BY <1>1, <1>6, <1>7, Constants
     DEF IInv, Waits, ResolverWaits, HasDocumentOpen, PanelRecords, PanelAsks
<1>9. ASSUME ~crossed' PROVE Parts'
  <2>1. Parts
    BY <1>1, <1>9 DEF IInv, Uncrossed, Parts
  <2>2. c = Len(owner) /\ \A k \in Convs : Runs(k) => k = c
    BY <1>3, <2>1 DEF Parts, OneStart
  <2>3. ~StartRuns'
    BY <1>3, <2>2 DEF StartRuns, Runs
  <2>4. LastHeld'
    BY <1>1, <1>5, <2>1 DEF LastHeld, Parts, OnlyIn, Holds, Idle
  <2>5. OneStart'
    BY <1>1, <1>3, <2>3, <1>6, <2>1 DEF OneStart, Parts
  <2>6. OneRecorder'
    BY <1>1, <1>2, <2>3, <1>6, <2>1, Constants DEF OneRecorder, Parts
  <2>7. ~(\E p \in Panels : at[p] = "create")
    BY <1>1, <1>4, <2>1 DEF Parts, OneStart, InStart, StartPhases
  <2>8. Starting /\ ~StopRuns
    BY <1>4, <2>1 DEF Starting, Parts, StopsAlone
  <2>9. StopsAlone'
    BY <1>1, <1>2, <1>5, <2>1, <2>3, <2>7, <2>8, <1>6 DEF StopsAlone, Parts, StopRuns, None
  <2>10. Len(owner) \notin told /\ recorder[Offscreen].parts \subseteq {Len(owner)}
    BY <1>4, <2>1, Constants DEF Parts, ToldLast, LastHeld, Holds
  <2>11. ToldLast'
    <3>1. \A p \in Panels : at[p] = "start" => conv[p] = c
      BY <2>1, <2>2 DEF Parts, OneStart
    <3> QED
      BY <1>1, <1>2, <1>4, <2>3, <1>6, <2>1, <3>1, Constants DEF ToldLast, Parts
  <2>12. LiveShown' /\ Kept'
    BY <1>1, <1>5, <2>1, <2>10 DEF LiveShown, Kept, Parts
  <2> QED
    BY <2>4, <2>5, <2>6, <2>9, <2>11, <2>12 DEF Parts
<1> QED
  BY <1>8, <1>9 DEF Uncrossed, Parts

\* The document is asked to record: it has nothing else to do.
LEMMA SendStartRest ==
  ASSUME IInv, NEW c \in Convs, SendStart(c)
  PROVE  Waits' /\ Uncrossed'
<1>1. /\ UNCHANGED <<session, offDoc, resolver, stops,
                     open, ui, at, conv, owner, told, heard, delivered, failed, crossed, lost>>
      /\ starts[c] = "send"
      /\ \/ /\ recorder[Offscreen].on /\ starts' = [starts EXCEPT ![c] = "write"]
            /\ waiters' = waiters /\ UNCHANGED recVars
         \/ /\ ~recorder[Offscreen].on /\ starts' = [starts EXCEPT ![c] = "wait"]
            /\ waiters' = waiters \cup {c} /\ ~offDoc /\ UNCHANGED recVars
         \/ /\ ~recorder[Offscreen].on /\ starts' = [starts EXCEPT ![c] = "wait"]
            /\ waiters' = waiters \cup {c} /\ offDoc /\ StartCall(Offscreen, c)
  BY DEF SendStart, StartAt, panelVars, historyVars
<1>2. \A k \in Convs : starts'[k] = IF k = c THEN starts'[c] ELSE starts[k]
  BY <1>1 DEF IInv, Types, StartTypes
<1>3. starts'[c] = IF recorder[Offscreen].on THEN "write" ELSE "wait"
  BY <1>1 DEF IInv, Types, StartTypes
<1>4. /\ Runs(c) /\ \A k \in Convs : Runs(k)' <=> Runs(k)
      /\ StartRuns /\ StartRuns'
  BY <1>1, <1>2, <1>3 DEF Runs, StartRuns, None
<1>5. /\ StopRuns' <=> StopRuns
      /\ \A p \in Panels : InStart(p)' <=> InStart(p)
      /\ Starting' <=> Starting
  BY <1>1, <1>4 DEF StopRuns, InStart, Starting
<1>6. \A p \in Panels : /\ recorder'[p] = recorder[p] /\ live'[p] = live[p]
                        /\ starting'[p] = starting[p] /\ stopping'[p] = stopping[p]
  BY <1>1, StartCallDoes, Constants DEF recVars, OnlyIn, IInv
<1>7. WaitersWait'
  BY <1>1, <1>2, <1>3 DEF IInv, WaitersWait, Types, StartTypes
<1>8. HasDocumentOpen'
  BY <1>1 DEF IInv, HasDocumentOpen, Busy, recVars
<1>9. Waits'
  BY <1>1, <1>6, <1>7, <1>8 DEF IInv, Waits, ResolverWaits, PanelRecords, PanelAsks
<1>10. ASSUME ~crossed' PROVE Parts'
  <2>1. Parts
    BY <1>1, <1>10 DEF IInv, Uncrossed, Parts
  <2>2. c = Len(owner) /\ ~Busy(Offscreen)
    BY <1>1, <1>4, <2>1 DEF Parts, OneStart, OneRecorder
  <2>3. /\ recorder[Offscreen].on = FALSE /\ recorder[Offscreen].parts = {}
        /\ recorder[Offscreen].media = 0 /\ recorder[Offscreen].ws = 0 /\ live[Offscreen] = {}
        /\ starting[Offscreen] = {} /\ stopping[Offscreen] = <<>>
    BY <2>1, <2>2, Constants
       DEF Parts, LastHeld, Holds, Busy, IInv, Types, DocTypes, RecorderType, Record
  <2>4. /\ recorder'[Offscreen].on = FALSE /\ recorder'[Offscreen].parts = {}
        /\ recorder'[Offscreen].media = 0 /\ recorder'[Offscreen].ws = 0
        /\ live'[Offscreen] = {} /\ starting'[Offscreen] \subseteq {c}
        /\ starting'[Offscreen] # {} => recorder'[Offscreen].conv = c
        /\ stopping'[Offscreen] = <<>>
    BY <1>1, <2>3, StartCallDoes, Constants DEF recVars, IInv
  <2>5. LastHeld'
    <3>1. \A p \in Panels : Holds(recorder[p], live[p], starting[p], stopping[p], Len(owner))'
      BY <1>1, <1>6, <2>1, Constants DEF LastHeld, Parts
    <3>2. Holds(recorder[Offscreen], live[Offscreen], starting[Offscreen], stopping[Offscreen],
                Len(owner))'
      BY <1>1, <2>2, <2>4 DEF Holds
    <3> QED
      BY <3>1, <3>2 DEF LastHeld, Docs
  <2>6. OneStart'
    BY <1>1, <1>4, <1>5, <2>1 DEF OneStart, Parts
  <2>7. \A p \in Panels : ~Busy(p) /\ ~Busy(p)'
    BY <1>4, <1>6, <2>1 DEF Parts, OneRecorder, Busy
  <2>8. \A p \in Panels : InStart(p) => at[p] = "start"
    BY <1>4, <2>1 DEF Parts, OneStart
  <2>9. \A k \in Convs : starts'[k] \notin {"ensure", "create", "send", "write"}
    BY <1>2, <1>3, <2>1, <2>2, <2>3 DEF Parts, OneStart, Runs, None
  <2>10. OneRecorder'
    BY <1>1, <2>7, <2>8, <2>9 DEF OneRecorder, InStart, StartPhases, Docs
  <2>11. Starting /\ ~StopRuns
    BY <1>4, <2>1 DEF Starting, Parts, StopsAlone
  <2>12. StopsAlone'
    BY <1>1, <2>1, <2>4, <2>9, <2>11, <1>4, <1>5 DEF StopsAlone, Parts, StopRuns, None
  <2>13. Len(owner) \notin heard
    BY <1>4, <2>1, <2>3 DEF Parts, ToldLast
  <2>14. ToldLast'
    BY <1>1, <1>4, <2>1, <2>13 DEF ToldLast, Parts
  <2>15. LiveShown' /\ Kept'
    BY <1>1, <1>4, <2>1, <2>3, <2>4 DEF LiveShown, Kept, Parts
  <2> QED
    BY <2>5, <2>6, <2>10, <2>12, <2>14, <2>15 DEF Parts
<1> QED
  BY <1>9, <1>10 DEF Uncrossed, Parts

-----------------------------------------------------------------------------
\* The recorders

\* The end of start() in the offscreen document: started, or failed.
LEMMA OffscreenStartRest ==
  ASSUME IInv, NEW c \in Convs, Started(Offscreen, c) \/ StartRaises(Offscreen, c)
  PROVE  Waits' /\ Uncrossed'
<1>1. /\ UNCHANGED <<session, offDoc, resolver, stops,
                     open, ui, at, conv, owner, told, heard, delivered, failed, crossed, lost>>
      /\ waiters' = waiters \ {c}
      /\ \/ starts' = starts
         \/ /\ c \in waiters
            /\ \E l \in {"write", "clear"} : starts' = [starts EXCEPT ![c] = l]
  BY DEF Started, StartRaises, StartReturns, historyVars
<1>2. /\ OnlyIn(Offscreen) /\ c \in starting[Offscreen]
      /\ recorder'[Offscreen].parts = recorder[Offscreen].parts
      /\ recorder'[Offscreen].conv = recorder[Offscreen].conv
      /\ starting'[Offscreen] = starting[Offscreen] \ {c} /\ stopping' = stopping
      /\ \/ /\ recorder'[Offscreen].on = TRUE /\ recorder'[Offscreen].media = c
            /\ recorder'[Offscreen].ws = c /\ live'[Offscreen] = live[Offscreen] \cup {c}
         \/ /\ recorder'[Offscreen].on = recorder[Offscreen].on
            /\ recorder'[Offscreen].media = recorder[Offscreen].media
            /\ recorder'[Offscreen].ws = 0 /\ live' = live
  BY StartedDoes, StartRaisesDoes, Constants DEF IInv
<1>3. starts[c] = "wait" \/ starts' = starts
  BY <1>1 DEF IInv, WaitersWait
<1>4. \A k \in Convs : starts'[k] = IF k = c THEN starts'[c] ELSE starts[k]
  BY <1>1 DEF IInv, Types, StartTypes
<1>5. starts'[c] = starts[c] \/ starts'[c] \in {"write", "clear"}
  BY <1>1 DEF IInv, Types, StartTypes
<1>6. \A k \in Convs : Runs(k)' <=> Runs(k)
  BY <1>3, <1>4, <1>5 DEF Runs, None
<1>7. StartRuns' <=> StartRuns
  BY <1>6 DEF StartRuns, Runs
<1>8. /\ StopRuns' <=> StopRuns
      /\ \A p \in Panels : InStart(p)' <=> InStart(p)
      /\ Starting' <=> Starting
  BY <1>1, <1>7 DEF StopRuns, InStart, Starting
<1>9. \A p \in Panels : /\ recorder'[p] = recorder[p] /\ live'[p] = live[p]
                        /\ starting'[p] = starting[p] /\ stopping'[p] = stopping[p]
  BY <1>2, Constants DEF OnlyIn
<1>10. WaitersWait'
  BY <1>1, <1>3, <1>4 DEF IInv, WaitersWait, Types, StartTypes
<1>11. Busy(Offscreen) /\ \A p \in Panels : Busy(p)' <=> Busy(p)
  BY <1>2, <1>9 DEF Busy
<1>12. Waits'
  BY <1>1, <1>9, <1>10, <1>11
     DEF IInv, Waits, ResolverWaits, HasDocumentOpen, PanelRecords, PanelAsks
<1>13. ASSUME ~crossed' PROVE Parts'
  <2>1. Parts
    BY <1>1, <1>13 DEF IInv, Uncrossed, Parts
  <2>2. Holds(recorder[Offscreen], live[Offscreen], starting[Offscreen], stopping[Offscreen],
              Len(owner))
    BY <2>1, Constants DEF Parts, LastHeld
  <2>3. /\ c = Len(owner) /\ starting'[Offscreen] = {} /\ stopping[Offscreen] = <<>>
        /\ live'[Offscreen] \subseteq {c} /\ ~StopRuns
    BY <1>2, <2>1, <2>2 DEF Holds, Parts, StopsAlone
  <2>4. Holds(recorder[Offscreen], live[Offscreen], starting[Offscreen], stopping[Offscreen],
              Len(owner))'
    BY <1>1, <1>2, <2>2, <2>3 DEF Holds
  <2>5. LastHeld'
    <3>1. \A p \in Panels : Holds(recorder[p], live[p], starting[p], stopping[p], Len(owner))'
      BY <1>1, <1>9, <2>1, Constants DEF LastHeld, Parts
    <3> QED
      BY <2>4, <3>1 DEF LastHeld, Docs
  <2>6. OneStart'
    BY <1>1, <1>6, <1>7, <1>8, <2>1 DEF OneStart, Parts
  <2>7. \A k \in Convs : /\ starts'[k] = "write" => starts[k] = "write" \/ starting'[Offscreen] = {}
                         /\ starts'[k] \in {"ensure", "create", "send"} => starts'[k] = starts[k]
    BY <1>4, <1>5, <2>3
  <2>8. \A p \in Panels : ~Busy(p)
    BY <1>11, <2>1, Constants DEF OneRecorder, Parts
  <2>9. /\ \A p \in Panels : at[p] \notin {"clear", "create", "record", "register"}
        /\ \A k \in Convs : starts[k] \notin {"ensure", "create", "send"}
    BY <1>11, <2>1, Constants DEF OneRecorder, Parts
  <2>10. OneRecorder'
    BY <1>1, <1>11, <2>7, <2>8, <2>9 DEF OneRecorder, Docs
  <2>11. StopsAlone'
    BY <1>1, <1>2, <1>7, <1>8, <2>1, <2>3, <2>7, <2>9 DEF StopsAlone, Parts, StopRuns, None
  <2>12. ToldLast'
    <3>1. \A p \in Panels : at[p] = "start"
            => conv[p] = c /\ (starts'[c] = "ok" => starts[c] = "ok")
      BY <1>5, <2>1, <2>3 DEF Parts, OneStart
    <3> QED
      BY <1>1, <1>2, <1>7, <1>11, <2>1, <3>1 DEF ToldLast, Parts
  <2>13. LiveShown'
    BY <1>1, <1>2, <1>7, <2>1, <2>3 DEF LiveShown, Parts
  <2>14. Kept'
    BY <1>1, <1>2, <2>1 DEF Kept, Parts
  <2> QED
    BY <2>5, <2>6, <2>10, <2>11, <2>12, <2>13, <2>14 DEF Parts
<1> QED
  BY <1>12, <1>13 DEF Uncrossed, Parts

\* The same in a panel: it goes on to register, or is at rest.
LEMMA PanelStartRest ==
  ASSUME IInv, NEW p \in Panels, NEW c \in Convs, Started(p, c) \/ StartRaises(p, c)
  PROVE  Waits' /\ Uncrossed'
<1>1. p # Offscreen /\ p \in Docs
  BY Constants
<1>2. /\ UNCHANGED <<session, offDoc, waiters, resolver, starts, stops,
                     open, owner, told, heard, delivered, failed, crossed, lost>>
      /\ c \in starting[p]
      /\ \E l \in {"register", None} : at' = [at EXCEPT ![p] = l]
      /\ conv' = conv \/ conv' = [conv EXCEPT ![p] = 0]
  BY <1>1 DEF Started, StartRaises, StartReturns, historyVars
<1>3. at[p] = "record" /\ starting[p] = {c}
  BY <1>2 DEF IInv, PanelRecords
<1>4. /\ OnlyIn(p)
      /\ recorder'[p].parts = recorder[p].parts
      /\ recorder'[p].conv = recorder[p].conv
      /\ starting'[p] = {} /\ stopping' = stopping
      /\ \/ /\ recorder'[p].on = TRUE /\ recorder'[p].media = c
            /\ recorder'[p].ws = c /\ live'[p] = live[p] \cup {c}
         \/ /\ recorder'[p].on = recorder[p].on
            /\ recorder'[p].media = recorder[p].media
            /\ recorder'[p].ws = 0 /\ live' = live
  BY <1>1, <1>3, StartedDoes, StartRaisesDoes DEF IInv
<1>5. /\ at'[p] \in {"register", None}
      /\ \A q \in Panels \ {p} : at'[q] = at[q] /\ conv'[q] = conv[q]
  BY <1>2 DEF IInv, Types, PanelTypes
<1>6. /\ StopRuns' <=> StopRuns
      /\ StartRuns' <=> StartRuns
      /\ \A q \in Panels : InStart(q)' => InStart(q)
      /\ Starting' => Starting
  BY <1>2, <1>3, <1>5 DEF StopRuns, StartRuns, InStart, Starting, StartPhases
<1>7. \A d \in Docs : Busy(d)' => Busy(d)
  BY <1>2, <1>4 DEF Busy, OnlyIn
<1>8. /\ recorder'[Offscreen] = recorder[Offscreen] /\ live'[Offscreen] = live[Offscreen]
      /\ starting'[Offscreen] = starting[Offscreen]
  BY <1>1, <1>4, Constants DEF OnlyIn
<1>9. \A q \in Panels : starting'[q] # {} => q # p /\ starting'[q] = starting[q]
  BY <1>4, Constants DEF OnlyIn
<1>10. \A q \in Panels : at'[q] = "start" => q # p
  BY <1>5 DEF None
<1>11. Waits'
  BY <1>2, <1>5, <1>7, <1>9, <1>10, Constants
     DEF IInv, Waits, ResolverWaits, WaitersWait, HasDocumentOpen, PanelRecords, PanelAsks
<1>12. ASSUME ~crossed' PROVE Parts'
  <2>1. Parts
    BY <1>2, <1>12 DEF IInv, Uncrossed, Parts
  <2>2. Holds(recorder[p], live[p], starting[p], stopping[p], Len(owner))
    BY <2>1, <1>1 DEF Parts, LastHeld
  <2>3. Holds(recorder[p], live[p], starting[p], stopping[p], Len(owner))'
    BY <1>2, <1>4, <2>2 DEF Holds
  <2>4. LastHeld'
    BY <1>2, <1>4, <2>1, <2>3 DEF LastHeld, Parts, OnlyIn
  <2>5. InStart(p) /\ \A q \in Panels : InStart(q)' => q = p
    BY <1>3, <1>6, <2>1 DEF Parts, OneStart, InStart, StartPhases
  <2>6. ~StartRuns /\ \A q \in Panels : at'[q] # "start"
    BY <1>3, <1>5, <2>1, <2>5 DEF Parts, OneStart, InStart, StartPhases, None
  <2>7. OneStart'
    BY <1>2, <1>6, <2>1, <2>5, <2>6 DEF OneStart, Parts, Runs
  <2>8. \A q \in Panels : /\ at'[q] \in {"clear", "create"} => at[q] \in {"clear", "create"}
                          /\ at'[q] \in {"record", "register"} => at[q] \in {"record", "register"}
    BY <1>3, <1>5 DEF None
  <2>9. OneRecorder'
    BY <1>2, <1>6, <1>7, <2>1, <2>6, <2>8, Constants DEF OneRecorder, Parts
  <2>10. \A q \in Panels : at'[q] = "create" => at[q] = "create"
    BY <1>5 DEF None
  <2>11. StopsAlone'
    BY <1>2, <1>4, <1>6, <1>8, <2>1, <2>10 DEF StopsAlone, Parts
  <2>12. Len(owner) \notin told
    BY <1>3, <2>1 DEF ToldLast, Parts
  <2>13. ToldLast'
    BY <1>2, <1>6, <2>1, <2>6, <2>12 DEF ToldLast, Parts
  <2>14. LiveShown' /\ Kept'
    BY <1>2, <1>6, <1>8, <2>1 DEF LiveShown, Kept, Parts
  <2> QED
    BY <2>4, <2>7, <2>9, <2>11, <2>13, <2>14 DEF Parts
<1> QED
  BY <1>11, <1>12 DEF Uncrossed, Parts

\* A chunk that is heard is held.
LEMMA ChunkRest ==
  ASSUME IInv, NEW d \in Docs, Chunk(d)
  PROVE  Waits' /\ Uncrossed'
<1>1. PICK c \in live[d] :
         /\ OnlyIn(d)
         /\ recorder'[d].on = recorder[d].on /\ recorder'[d].media = recorder[d].media
         /\ recorder'[d].ws = recorder[d].ws /\ recorder'[d].conv = recorder[d].conv
         /\ recorder'[d].parts = recorder[d].parts \cup {c} /\ heard' = heard \cup {c}
         /\ live' = live /\ starting' = starting /\ stopping' = stopping
  BY ChunkDoes DEF IInv
<1>2. UNCHANGED <<session, offDoc, waiters, resolver, starts, stops, open, ui, at, conv, owner,
                  told, delivered, failed, crossed, lost>>
  BY DEF Chunk, workerVars, panelVars
<1>3. \A e \in Docs : recorder'[e].on = recorder[e].on
  BY <1>1 DEF OnlyIn
<1>4. \A e \in Docs : Busy(e)' <=> Busy(e)
  BY <1>1, <1>3 DEF Busy
<1>5. /\ StopRuns' <=> StopRuns
      /\ StartRuns' <=> StartRuns
      /\ Starting' <=> Starting
      /\ \A q \in Panels : InStart(q)' <=> InStart(q)
  BY <1>2 DEF StopRuns, StartRuns, InStart, Starting
<1>6. Waits'
  BY <1>1, <1>2, <1>4, Constants
     DEF IInv, Waits, ResolverWaits, WaitersWait, HasDocumentOpen, PanelRecords, PanelAsks
<1>7. ASSUME ~crossed' PROVE Parts'
  <2>1. Parts
    BY <1>2, <1>7 DEF IInv, Uncrossed, Parts
  <2>2. Holds(recorder[d], live[d], starting[d], stopping[d], Len(owner))
    BY <2>1 DEF Parts, LastHeld
  <2>3. /\ c = Len(owner) /\ Busy(d) /\ c \in DOMAIN owner
        /\ stopping[d] = <<>> /\ starting[d] = {}
    BY <2>2, Constants DEF Holds, Busy, IInv, Types, DocTypes, StreamTypes, OwnerType, Convs
  <2>4. Holds(recorder[d], live[d], starting[d], stopping[d], Len(owner))'
    BY <1>1, <1>2, <2>2, <2>3 DEF Holds
  <2>5. LastHeld'
    BY <1>1, <1>2, <2>1, <2>4 DEF LastHeld, Parts, OnlyIn
  <2>6. OneStart'
    BY <1>2, <1>5, <2>1 DEF OneStart, Parts, Runs
  <2>7. OneRecorder'
    BY <1>2, <1>4, <1>5, <2>1, Constants DEF OneRecorder, Parts
  <2>8. /\ recorder[Offscreen].parts \subseteq recorder'[Offscreen].parts
        /\ d # Offscreen => recorder'[Offscreen].parts = recorder[Offscreen].parts
        /\ d = Offscreen => c \in recorder'[Offscreen].parts
    BY <1>1, Constants DEF OnlyIn
  <2>9. \A k \in Callers : stops[k] \in {"clear", "close"} => d # Offscreen
    BY <2>1 DEF Parts, StopsAlone
  <2>10. StopsAlone'
    BY <1>1, <1>2, <1>5, <2>1, <2>8, <2>9 DEF StopsAlone, Parts
  <2>11. d # Offscreen => /\ Len(owner) \notin told /\ ~StartRuns
                          /\ \A q \in Panels : at[q] # "start"
    BY <2>1, <2>3 DEF Parts, ToldLast, OneRecorder, Docs
  <2>12. ToldLast'
    BY <1>1, <1>2, <1>4, <1>5, <2>1, <2>3, <2>8, <2>11, Constants DEF ToldLast, Parts
  <2>13. LiveShown'
    BY <1>1, <1>2, <1>5, <2>1 DEF LiveShown, Parts
  <2>14. Kept'
    BY <1>1, <1>2, <2>1, <2>3, <2>8, <2>11 DEF Kept, Parts
  <2> QED
    BY <2>5, <2>6, <2>7, <2>10, <2>12, <2>13, <2>14 DEF Parts
<1> QED
  BY <1>6, <1>7 DEF Uncrossed, Parts

\* A stop() of the offscreen document ends: its audio is on the server, or has failed.
LEMMA OffscreenStopRest ==
  ASSUME IInv, NEW i \in DOMAIN stopping[Offscreen],
         Finalized(Offscreen, i) \/ Uploaded(Offscreen, i) \/ UploadRaises(Offscreen, i)
  PROVE  Waits' /\ Uncrossed'
<1>1. /\ UNCHANGED <<session, offDoc, waiters, starts, open, ui, at, conv, owner,
                     told, heard, crossed, lost, live, starting>>
      /\ resolver' = None
      /\ stops' = IF resolver # None THEN [stops EXCEPT ![resolver] = "clear"] ELSE stops
      /\ delivered \subseteq delivered' /\ failed \subseteq failed'
  BY DEF Finalized, Uploaded, UploadRaises, StopDone, StopReturns
<1>2. /\ OnlyIn(Offscreen)
      /\ \A j \in DOMAIN stopping'[Offscreen] : \E k \in DOMAIN stopping[Offscreen] :
           stopping'[Offscreen][j] = stopping[Offscreen][k]
      /\ \/ /\ recorder'[Offscreen].on = FALSE /\ recorder'[Offscreen].parts = {}
            /\ recorder'[Offscreen].media = recorder[Offscreen].media
            /\ recorder'[Offscreen].ws = 0
         \/ /\ recorder' = recorder /\ stopping[Offscreen][i].conv \in failed'
  <2>1. CASE Finalized(Offscreen, i)
    BY <2>1, <1>1, StopDoneDoes, Constants DEF Finalized, IInv
  <2>2. CASE Uploaded(Offscreen, i)
    BY <2>2, <1>1, StopDoneDoes, Constants DEF Uploaded, IInv
  <2>3. CASE UploadRaises(Offscreen, i)
    <3>1. stopping[Offscreen][i].conv \in failed'
      BY <2>3 DEF UploadRaises
    <3> QED
      BY <2>3, <3>1, UploadRaisesDoes, Constants DEF IInv
  <2> QED
    BY <2>1, <2>2, <2>3
<1>3. \A k \in Callers : \/ stops'[k] = stops[k]
                         \/ stops[k] = "wait" /\ stops'[k] = "clear"
  BY <1>1 DEF IInv, ResolverWaits, Types, StopTypes
<1>4. /\ StopRuns' <=> StopRuns
      /\ StartRuns' <=> StartRuns
      /\ Starting' <=> Starting
      /\ \A q \in Panels : InStart(q)' <=> InStart(q)
  BY <1>1, <1>3 DEF StopRuns, StartRuns, InStart, Starting, None
<1>5. stopping[Offscreen] # <<>> /\ Busy(Offscreen) /\ \A d \in Docs : Busy(d)' => Busy(d)
  BY <1>1, <1>2 DEF Busy, OnlyIn
<1>6. Waits'
  BY <1>1, <1>5, Constants
     DEF IInv, Waits, ResolverWaits, WaitersWait, HasDocumentOpen, PanelRecords, PanelAsks
<1>7. ASSUME ~crossed' PROVE Parts'
  <2>1. Parts
    BY <1>1, <1>7 DEF IInv, Uncrossed, Parts
  <2>2. Holds(recorder[Offscreen], live[Offscreen], starting[Offscreen], stopping[Offscreen],
              Len(owner))
    BY <2>1, Constants DEF Parts, LastHeld
  <2>3. /\ live[Offscreen] = {} /\ starting[Offscreen] = {} /\ recorder[Offscreen].media = 0
        /\ stopping[Offscreen][i].conv = Len(owner)
        /\ recorder[Offscreen].parts \subseteq {Len(owner)}
        /\ stopping[Offscreen][i].phase = "ack" => stopping[Offscreen][i].ws = Len(owner)
    BY <1>5, <2>2 DEF Holds
  <2>4. Holds(recorder[Offscreen], live[Offscreen], starting[Offscreen], stopping[Offscreen],
              Len(owner))'
    <3> DEFINE q == stopping[Offscreen]
    <3>1. \A j \in DOMAIN q' : q'[j].conv = Len(owner)
                               /\ (q'[j].phase = "ack" => q'[j].ws = Len(owner))
      BY <1>2, <2>2 DEF Holds
    <3> QED
      BY <1>1, <1>2, <2>2, <2>3, <3>1 DEF Holds
  <2>5. LastHeld'
    BY <1>1, <1>2, <2>1, <2>4 DEF LastHeld, Parts, OnlyIn
  <2>6. OneStart'
    BY <1>1, <1>4, <2>1 DEF OneStart, Parts, Runs
  <2>7. OneRecorder'
    BY <1>1, <1>4, <1>5, <2>1, Constants DEF OneRecorder, Parts
  <2>8. ~Starting
    BY <1>5, <2>1 DEF Parts, StopsAlone
  <2>9. recorder[Offscreen].parts \subseteq delivered' \cup failed'
    <3>1. CASE Finalized(Offscreen, i)
      BY <2>3, <3>1 DEF Finalized
    <3>2. CASE Uploaded(Offscreen, i)
      BY <2>3, <3>2 DEF Uploaded
    <3>3. CASE UploadRaises(Offscreen, i)
      BY <2>3, <3>3 DEF UploadRaises
    <3> QED
      BY <3>1, <3>2, <3>3
  <2>10. recorder'[Offscreen].parts \subseteq failed'
    BY <1>2, <2>3
  <2>11. StopsAlone'
    BY <1>1, <1>3, <1>4, <2>1, <2>3, <2>8, <2>10 DEF StopsAlone, Parts
  <2>12. ~StartRuns /\ \A q \in Panels : at[q] # "start"
    BY <2>8 DEF Starting, StartPhases
  <2>13. ToldLast'
    BY <1>1, <1>4, <1>5, <2>1, <2>12, Constants DEF ToldLast, Parts
  <2>14. LiveShown'
    BY <1>1, <2>3 DEF LiveShown
  <2>15. Kept'
    BY <1>1, <2>1, <2>9 DEF Kept, Parts
  <2> QED
    BY <2>5, <2>6, <2>7, <2>11, <2>13, <2>14, <2>15 DEF Parts
<1> QED
  BY <1>6, <1>7 DEF Uncrossed, Parts

\* A stop() in a panel is nothing to the offscreen document.
LEMMA PanelStopRest ==
  ASSUME IInv, NEW p \in Panels, NEW i \in DOMAIN stopping[p],
         Finalized(p, i) \/ Uploaded(p, i) \/ UploadRaises(p, i)
  PROVE  Waits' /\ Uncrossed'
<1>1. p # Offscreen /\ p \in Docs
  BY Constants
<1>2. /\ UNCHANGED <<offDoc, waiters, resolver, starts, stops, open, conv, owner,
                     told, heard, crossed, lost, live, starting>>
      /\ session' \in {session, NoSession}
      /\ at' = [at EXCEPT ![p] = IF @ = "stop" THEN None ELSE @]
      /\ delivered \subseteq delivered' /\ failed \subseteq failed'
  BY <1>1 DEF Finalized, Uploaded, UploadRaises, StopDone, StopReturns
<1>3. /\ OnlyIn(p)
      /\ \A j \in DOMAIN stopping'[p] : \E k \in DOMAIN stopping[p] :
           stopping'[p][j] = stopping[p][k]
      /\ \/ /\ recorder'[p].on = FALSE /\ recorder'[p].parts = {}
            /\ recorder'[p].media = recorder[p].media
            /\ recorder'[p].ws = 0
         \/ recorder' = recorder
  <2>1. CASE Finalized(p, i)
    BY <2>1, <1>1, <1>2, StopDoneDoes DEF Finalized, IInv
  <2>2. CASE Uploaded(p, i)
    BY <2>2, <1>1, <1>2, StopDoneDoes DEF Uploaded, IInv
  <2>3. CASE UploadRaises(p, i)
    BY <2>3, <1>1, UploadRaisesDoes DEF IInv
  <2> QED
    BY <2>1, <2>2, <2>3
<1>4. \A q \in Panels : at'[q] = at[q] \/ (at[q] = "stop" /\ at'[q] = None)
  BY <1>2 DEF IInv, Types, PanelTypes
<1>5. /\ StopRuns' <=> StopRuns
      /\ StartRuns' <=> StartRuns
      /\ Starting' <=> Starting
      /\ \A q \in Panels : InStart(q)' <=> InStart(q)
  BY <1>2, <1>4 DEF StopRuns, StartRuns, InStart, Starting, StartPhases, None
<1>6. stopping[p] # <<>> /\ Busy(p) /\ \A d \in Docs : Busy(d)' => Busy(d)
  BY <1>2, <1>3 DEF Busy, OnlyIn
<1>7. recorder'[Offscreen] = recorder[Offscreen] /\ stopping'[Offscreen] = stopping[Offscreen]
  BY <1>1, <1>3, Constants DEF OnlyIn
<1>8. \A q \in Panels : /\ at'[q] = "record" <=> at[q] = "record"
                        /\ at'[q] = "start" <=> at[q] = "start"
  BY <1>4 DEF None
<1>9. Waits'
  BY <1>2, <1>6, <1>8, Constants
     DEF IInv, Waits, ResolverWaits, WaitersWait, HasDocumentOpen, PanelRecords, PanelAsks
<1>10. ASSUME ~crossed' PROVE Parts'
  <2>1. Parts
    BY <1>2, <1>10 DEF IInv, Uncrossed, Parts
  <2>2. Holds(recorder[p], live[p], starting[p], stopping[p], Len(owner))
    BY <1>1, <2>1 DEF Parts, LastHeld
  <2>3. live[p] = {} /\ starting[p] = {} /\ recorder[p].media = 0
    BY <1>6, <2>2 DEF Holds
  <2>4. Holds(recorder[p], live[p], starting[p], stopping[p], Len(owner))'
    <3> DEFINE q == stopping[p]
    <3>1. \A j \in DOMAIN q' : q'[j].conv = Len(owner)
                               /\ (q'[j].phase = "ack" => q'[j].ws = Len(owner))
      BY <1>3, <2>2 DEF Holds
    <3> QED
      BY <1>2, <1>3, <2>2, <2>3, <3>1 DEF Holds
  <2>5. LastHeld'
    BY <1>2, <1>3, <2>1, <2>4 DEF LastHeld, Parts, OnlyIn
  <2>6. OneStart'
    BY <1>2, <1>5, <1>8, <2>1 DEF OneStart, Parts, Runs
  <2>7. OneRecorder'
    BY <1>2, <1>4, <1>5, <1>6, <1>8, <2>1, Constants DEF OneRecorder, Parts, None
  <2>8. session.surface # Offscreen => session'.surface # Offscreen
    BY <1>2 DEF NoSession, None, Offscreen
  <2>9. \A q \in Panels : at'[q] \in {"create", "start", "record", "register"} => at'[q] = at[q]
    BY <1>4 DEF None
  <2>10. StopsAlone'
    BY <1>2, <1>5, <1>7, <2>1, <2>8, <2>9 DEF StopsAlone, Parts
  <2>11. ToldLast'
    BY <1>2, <1>5, <1>6, <1>7, <1>8, <2>1, <2>9, Constants DEF ToldLast, Parts
  <2>12. live[Offscreen] = {} /\ starting[Offscreen] = {}
    BY <1>1, <1>6, <2>1, Constants DEF Parts, OneRecorder, LastHeld, Holds, Busy, IInv, Types,
                              DocTypes, RecorderType, Record
  <2>13. LiveShown'
    BY <1>2, <2>12 DEF LiveShown
  <2>14. Kept'
    BY <1>2, <1>7, <2>1 DEF Kept, Parts
  <2> QED
    BY <2>5, <2>6, <2>7, <2>10, <2>11, <2>13, <2>14 DEF Parts
<1> QED
  BY <1>9, <1>10 DEF Uncrossed, Parts

\* Without an answer the audio is still held.
LEMMA NotFinalizedRest ==
  ASSUME IInv, NEW d \in Docs, NEW i \in DOMAIN stopping[d], NotFinalized(d, i)
  PROVE  Waits' /\ Uncrossed'
<1>1. /\ OnlyIn(d)
      /\ recorder'[d].on = recorder[d].on /\ recorder'[d].media = recorder[d].media
      /\ recorder'[d].ws = 0
      /\ recorder'[d].conv = recorder[d].conv /\ recorder'[d].parts = recorder[d].parts
      /\ live' = live /\ starting' = starting
      /\ DOMAIN stopping'[d] = DOMAIN stopping[d]
      /\ \A j \in DOMAIN stopping[d] :
           /\ stopping'[d][j].conv = stopping[d][j].conv
           /\ stopping'[d][j].ws = stopping[d][j].ws
           /\ stopping'[d][j].phase = "ack" => stopping[d][j].phase = "ack"
  BY NotFinalizedDoes DEF IInv
<1>2. UNCHANGED <<session, offDoc, waiters, resolver, starts, stops, open, ui, at, conv, owner,
                  told, heard, delivered, failed, crossed, lost>>
  BY DEF NotFinalized, workerVars, panelVars
<1>3. \A e \in Docs : /\ recorder'[e].on = recorder[e].on
                      /\ recorder'[e].parts = recorder[e].parts
                      /\ stopping'[e] = <<>> <=> stopping[e] = <<>>
  <2>1. stopping[d] \in Seq(Call) /\ stopping'[d] \in Seq(Call)
    BY NotFinalizedDoes DEF IInv, Types, DocTypes, CallTypes
  <2>2. stopping'[d] = <<>> <=> stopping[d] = <<>>
    BY <1>1, <2>1
  <2> QED
    BY <1>1, <2>2 DEF OnlyIn
<1>4. \A e \in Docs : Busy(e)' <=> Busy(e)
  BY <1>1, <1>3 DEF Busy
<1>5. /\ StopRuns' <=> StopRuns
      /\ StartRuns' <=> StartRuns
      /\ Starting' <=> Starting
      /\ \A q \in Panels : InStart(q)' <=> InStart(q)
  BY <1>2 DEF StopRuns, StartRuns, InStart, Starting
<1>6. Waits'
  BY <1>1, <1>2, <1>4, Constants
     DEF IInv, Waits, ResolverWaits, WaitersWait, HasDocumentOpen, PanelRecords, PanelAsks
<1>7. ASSUME ~crossed' PROVE Parts'
  <2>1. Parts
    BY <1>2, <1>7 DEF IInv, Uncrossed, Parts
  <2>2. Holds(recorder[d], live[d], starting[d], stopping[d], Len(owner))
    BY <2>1 DEF Parts, LastHeld
  <2>3. Holds(recorder[d], live[d], starting[d], stopping[d], Len(owner))'
    BY <1>1, <1>2, <1>3, <2>2 DEF Holds
  <2>4. LastHeld'
    BY <1>1, <1>2, <2>1, <2>3 DEF LastHeld, Parts, OnlyIn
  <2>5. OneStart'
    BY <1>2, <1>5, <2>1 DEF OneStart, Parts, Runs
  <2>6. OneRecorder'
    BY <1>2, <1>4, <1>5, <2>1, Constants DEF OneRecorder, Parts
  <2>7. StopsAlone'
    BY <1>1, <1>2, <1>3, <1>5, <2>1, Constants DEF StopsAlone, Parts
  <2>8. ToldLast'
    BY <1>1, <1>2, <1>3, <1>4, <1>5, <2>1, Constants DEF ToldLast, Parts
  <2>9. LiveShown' /\ Kept'
    BY <1>1, <1>2, <1>3, <1>5, <2>1, Constants DEF LiveShown, Kept, Parts
  <2> QED
    BY <2>4, <2>5, <2>6, <2>7, <2>8, <2>9 DEF Parts
<1> QED
  BY <1>6, <1>7 DEF Uncrossed, Parts

-----------------------------------------------------------------------------
\* The stops

\* A stop that goes on, or ends, beside the recorders.
LEMMA StopGoesOn ==
  ASSUME IInv, NEW k \in Callers, ClearStale(k) \/ StopTimeout(k) \/ StopClears(k)
  PROVE  Waits' /\ Uncrossed'
<1>1. /\ UNCHANGED <<offDoc, recorder, live, starting, stopping, waiters, starts,
                     open, ui, at, conv, owner, told, heard, delivered, failed, crossed, lost>>
      /\ \E l \in {None, "close"} : /\ stops' = [stops EXCEPT ![k] = l]
                                    /\ l = "close" => stops[k] = "clear"
      /\ \/ stops[k] = "wait" /\ resolver' = None
         \/ stops[k] \in {"check", "clear"} /\ resolver' = resolver
      /\ session' = session \/ (session' = NoSession /\ (~offDoc \/ stops[k] \in {"wait", "clear"}))
  <2>1. CASE ClearStale(k)
    BY <2>1 DEF ClearStale, StopAt, recVars, panelVars, historyVars, None
  <2>2. CASE StopTimeout(k)
    BY <2>2 DEF StopTimeout, StopAt, recVars, panelVars, historyVars, None
  <2>3. CASE StopClears(k)
    BY <2>3 DEF StopClears, StopAt, recVars, panelVars, historyVars
  <2> QED
    BY <2>1, <2>2, <2>3
<1>2. \A j \in Callers : \/ stops'[j] = stops[j]
                         \/ stops'[j] = None
                         \/ stops'[j] = "close" /\ stops[j] = "clear"
  BY <1>1 DEF IInv, Types, StopTypes
<1>3. StopRuns /\ \A j \in Callers : j # k => stops'[j] = stops[j]
  BY <1>1 DEF StopRuns, IInv, Types, StopTypes, None
<1>4. /\ StartRuns' <=> StartRuns
      /\ Starting' <=> Starting
      /\ \A q \in Panels : InStart(q)' <=> InStart(q)
      /\ \A d \in Docs : Busy(d)' <=> Busy(d)
  BY <1>1 DEF StartRuns, InStart, Starting, Busy
<1>5. ResolverWaits'
  BY <1>1, <1>3 DEF IInv, ResolverWaits, Types, StopTypes
<1>6. Waits'
  BY <1>1, <1>4, <1>5, Constants
     DEF IInv, Waits, WaitersWait, HasDocumentOpen, PanelRecords, PanelAsks
<1>7. ASSUME ~crossed' PROVE Parts'
  <2>1. Parts
    BY <1>1, <1>7 DEF IInv, Uncrossed, Parts
  <2>2. LastHeld'
    BY <1>1, <2>1 DEF LastHeld, Parts
  <2>3. OneStart'
    BY <1>1, <1>4, <2>1 DEF OneStart, Parts, Runs
  <2>4. OneRecorder'
    BY <1>1, <1>4, <2>1, Constants DEF OneRecorder, Parts
  <2>5. session.surface # Offscreen => session'.surface # Offscreen
    BY <1>1 DEF NoSession, None, Offscreen
  <2>6. ~Starting /\ starting[Offscreen] = {}
    BY <1>3, <2>1 DEF StopsAlone, Parts
  <2>7. StopsAlone'
    BY <1>1, <1>2, <1>4, <2>1, <2>5, <2>6 DEF StopsAlone, Parts, None
  <2>8. ToldLast'
    BY <1>1, <1>4, <2>1, Constants DEF ToldLast, Parts
  <2>9. ~offDoc => ~recorder[Offscreen].on
    BY DEF IInv, HasDocumentOpen, Busy
  <2>10. session' = session \/ live[Offscreen] = {}
    BY <1>1, <2>1, <2>9, Constants DEF Parts, StopsAlone, LastHeld, Holds
  <2>11. LiveShown' /\ Kept'
    BY <1>1, <1>4, <2>1, <2>6, <2>10 DEF LiveShown, Kept, Parts
  <2> QED
    BY <2>2, <2>3, <2>4, <2>7, <2>8, <2>11 DEF Parts
<1> QED
  BY <1>6, <1>7 DEF Uncrossed, Parts

\* The document is asked to stop: from then on the microphone is off.
LEMMA SendStopRest ==
  ASSUME IInv, NEW k \in Callers, SendStop(k)
  PROVE  Waits' /\ Uncrossed'
<1>1. /\ UNCHANGED <<session, offDoc, waiters, starts,
                     open, ui, at, conv, owner, told, heard, delivered, failed, crossed, lost>>
      /\ stops[k] = "check" /\ offDoc
      /\ \/ /\ recorder[Offscreen].on
            /\ resolver' = k /\ stops' = [stops EXCEPT ![k] = "wait"]
            /\ \/ StopCall(Offscreen)
               \/ Len(stopping[Offscreen]) >= MaxStops /\ UNCHANGED recVars
         \/ /\ ~recorder[Offscreen].on
            /\ resolver' = None /\ stops' = [stops EXCEPT ![k] = "clear"]
            /\ UNCHANGED recVars
  <2>1. Len(stopping[Offscreen]) \in Nat
    BY Constants DEF IInv, Types, DocTypes, CallTypes
  <2> QED
    BY <2>1, Constants DEF SendStop, StopAt, panelVars, historyVars
<1>2. StopRuns /\ StopRuns'
  BY <1>1 DEF StopRuns, IInv, Types, StopTypes, None
<1>3. \A j \in Callers : j # k => stops'[j] = stops[j]
  BY <1>1 DEF IInv, Types, StopTypes
<1>4. /\ StartRuns' <=> StartRuns
      /\ Starting' <=> Starting
      /\ \A q \in Panels : InStart(q)' <=> InStart(q)
  BY <1>1 DEF StartRuns, InStart, Starting
<1>5. /\ OnlyIn(Offscreen)
      /\ recorder'[Offscreen].on = recorder[Offscreen].on
      /\ recorder'[Offscreen].ws = recorder[Offscreen].ws
      /\ recorder'[Offscreen].conv = recorder[Offscreen].conv
      /\ recorder'[Offscreen].parts = recorder[Offscreen].parts
      /\ starting' = starting
      /\ \/ /\ recorder[Offscreen].on /\ recorder'[Offscreen].media = 0
            /\ live'[Offscreen] = live[Offscreen] \ {recorder[Offscreen].media}
            /\ \E call \in Call :
                 /\ stopping'[Offscreen] = Append(stopping[Offscreen], call)
                 /\ call.conv = recorder[Offscreen].conv
                 /\ call.phase = "ack" => call.ws = recorder[Offscreen].ws /\ call.ws # 0
         \/ /\ recorder[Offscreen].on => Len(stopping[Offscreen]) >= MaxStops
            /\ UNCHANGED recVars
  BY <1>1, StopCallDoes, Constants DEF IInv, recVars, OnlyIn
<1>6. stopping[Offscreen] \in Seq(Call)
  BY Constants DEF IInv, Types, DocTypes, CallTypes
<1>7. \A d \in Docs : Busy(d)' <=> Busy(d)
  BY <1>5, <1>6 DEF Busy, OnlyIn, recVars
<1>8. ResolverWaits'
  BY <1>1, <1>3, Constants DEF IInv, ResolverWaits, Types, StopTypes
<1>9. Waits'
  BY <1>1, <1>5, <1>7, <1>8, Constants
     DEF IInv, Waits, WaitersWait, HasDocumentOpen, PanelRecords, PanelAsks
<1>10. ASSUME ~crossed' PROVE Parts'
  <2>1. Parts
    BY <1>1, <1>10 DEF IInv, Uncrossed, Parts
  <2>2. Holds(recorder[Offscreen], live[Offscreen], starting[Offscreen], stopping[Offscreen],
              Len(owner))
    BY <2>1, Constants DEF Parts, LastHeld
  <2>3. live'[Offscreen] = {}
    <3>1. CASE recorder[Offscreen].on /\ recorder'[Offscreen].media = 0
               /\ live'[Offscreen] = live[Offscreen] \ {recorder[Offscreen].media}
      BY <2>2, <3>1 DEF Holds
    <3>2. CASE recorder[Offscreen].on /\ Len(stopping[Offscreen]) >= MaxStops /\ UNCHANGED recVars
      <4>1. stopping[Offscreen] # <<>>
        BY <1>6, <3>2, Constants, OneStopFollowed
      <4> QED
        BY <4>1, <2>2, <3>2 DEF Holds, recVars
    <3>3. CASE ~recorder[Offscreen].on /\ UNCHANGED recVars
      BY <2>2, <3>3 DEF Holds, recVars
    <3> QED
      BY <1>5, <3>1, <3>2, <3>3
  <2>4. ~Starting /\ starting[Offscreen] = {}
    BY <1>2, <2>1 DEF Parts, StopsAlone
  <2>5. Holds(recorder[Offscreen], live[Offscreen], starting[Offscreen], stopping[Offscreen],
              Len(owner))'
    <3>1. CASE UNCHANGED recVars
      BY <1>1, <2>2, <3>1 DEF recVars
    <3>2. ASSUME recorder[Offscreen].on, recorder'[Offscreen].media = 0, NEW call \in Call,
                 stopping'[Offscreen] = Append(stopping[Offscreen], call),
                 call.conv = recorder[Offscreen].conv,
                 call.phase = "ack" => call.ws = recorder[Offscreen].ws /\ call.ws # 0
          PROVE  Holds(recorder[Offscreen], live[Offscreen], starting[Offscreen],
                       stopping[Offscreen], Len(owner))'
      <4> DEFINE q == stopping[Offscreen]
      <4>1. \A j \in DOMAIN q' : (j \in DOMAIN q /\ q'[j] = q[j]) \/ q'[j] = call
        BY <1>6, <3>2
      <4>2. \A j \in DOMAIN q' : q'[j].conv = Len(owner)
                                 /\ (q'[j].phase = "ack" => q'[j].ws = Len(owner))
        BY <2>2, <3>2, <4>1 DEF Holds
      <4> QED
        BY <1>1, <1>5, <2>2, <2>3, <2>4, <3>2, <4>2 DEF Holds
    <3> QED
      BY <1>5, <3>1, <3>2
  <2>6. LastHeld'
    BY <1>1, <1>5, <2>1, <2>5 DEF LastHeld, Parts, OnlyIn
  <2>7. OneStart'
    BY <1>1, <1>4, <2>1 DEF OneStart, Parts, Runs
  <2>8. OneRecorder'
    BY <1>1, <1>4, <1>7, <2>1, Constants DEF OneRecorder, Parts
  <2>9. stops'[k] \in {"clear", "close"} => recorder'[Offscreen].parts = {}
    BY <1>1, <1>5, <2>2 DEF Holds, IInv, Types, StopTypes
  <2>10. ~StartRuns /\ \A q \in Panels : ~InStart(q)
    BY <2>4 DEF Starting, InStart
  <2>11. StopsAlone'
    BY <1>1, <1>3, <1>4, <1>5, <2>1, <2>3, <2>4, <2>9, <2>10
       DEF StopsAlone, Parts, InStart, StartPhases
  <2>12. ToldLast'
    BY <1>1, <1>4, <1>5, <1>7, <2>1, <2>10, Constants DEF ToldLast, Parts
  <2>13. LiveShown' /\ Kept'
    BY <1>1, <1>5, <2>1, <2>3, <2>4 DEF LiveShown, Kept, Parts
  <2> QED
    BY <2>6, <2>7, <2>8, <2>11, <2>12, <2>13 DEF Parts
<1> QED
  BY <1>9, <1>10 DEF Uncrossed, Parts

\* A stop closes the document: what it held is on the server, or has failed.
LEMMA StopClosesRest ==
  ASSUME IInv, NEW k \in Callers, StopCloses(k)
  PROVE  Waits' /\ Uncrossed'
<1>1. /\ UNCHANGED <<session, waiters, resolver, starts,
                     open, ui, at, conv, owner, told, heard, delivered, failed, crossed, lost>>
      /\ stops[k] = "close" /\ stops' = [stops EXCEPT ![k] = None]
      /\ Gone(Offscreen)
  BY DEF StopCloses, StopAt, panelVars, historyVars
<1>2. StopRuns /\ \A j \in Callers : stops'[j] = IF j = k THEN None ELSE stops[j]
  BY <1>1 DEF StopRuns, IInv, Types, StopTypes, None
<1>3. StopRuns' => StopRuns
  BY <1>2
<1>4. /\ StartRuns' <=> StartRuns
      /\ Starting' <=> Starting
      /\ \A q \in Panels : InStart(q)' <=> InStart(q)
  BY <1>1 DEF StartRuns, InStart, Starting
<1>5. /\ OnlyIn(Offscreen) /\ recorder'[Offscreen] = Idle /\ live'[Offscreen] = {}
      /\ starting'[Offscreen] = {} /\ stopping'[Offscreen] = <<>>
  BY <1>1, GoneDoes, Constants DEF IInv
<1>6. /\ \A d \in Docs : Busy(d)' <=> (Busy(d) /\ d # Offscreen)
      /\ \A p \in Panels : starting'[p] = starting[p]
  BY <1>5, Constants DEF Busy, OnlyIn, Idle
<1>7. ResolverWaits'
  BY <1>1, <1>2 DEF IInv, ResolverWaits, Types, StopTypes
<1>8. Waits'
  BY <1>1, <1>6, <1>7, Constants
     DEF IInv, Waits, WaitersWait, HasDocumentOpen, PanelRecords, PanelAsks
<1>9. ASSUME ~crossed' PROVE Parts'
  <2>1. Parts
    BY <1>1, <1>9 DEF IInv, Uncrossed, Parts
  <2>2. ~Starting /\ ~StartRuns /\ \A q \in Panels : ~InStart(q)
    BY <1>2, <2>1 DEF Parts, StopsAlone, Starting, InStart
  <2>3. LastHeld'
    BY <1>1, <1>5, <2>1 DEF LastHeld, Parts, OnlyIn, Holds, Idle
  <2>4. OneStart'
    BY <1>1, <1>4, <2>1 DEF OneStart, Parts, Runs
  <2>5. OneRecorder'
    BY <1>1, <1>4, <1>6, <2>1, Constants DEF OneRecorder, Parts
  <2>6. StopsAlone'
    BY <1>1, <1>2, <1>3, <1>4, <1>5, <2>1, <2>2
       DEF StopsAlone, Parts, InStart, StartPhases, Idle, None
  <2>7. recorder[Offscreen].parts \subseteq failed
    BY <1>1, <2>1 DEF Parts, StopsAlone
  <2>8. ToldLast'
    BY <1>1, <1>4, <1>6, <2>1, <2>2, Constants DEF ToldLast, Parts, InStart, StartPhases
  <2>9. LiveShown' /\ Kept'
    BY <1>1, <1>5, <2>1, <2>7 DEF LiveShown, Kept, Parts, Idle
  <2> QED
    BY <2>3, <2>4, <2>5, <2>6, <2>8, <2>9 DEF Parts
<1> QED
  BY <1>8, <1>9 DEF Uncrossed, Parts

-----------------------------------------------------------------------------
\* The panels and the browser

\* What a panel does beside a start, and a stop that begins.
LEMMA CallsRest ==
  ASSUME IInv,
         UNCHANGED <<session, offDoc, recVars, waiters, resolver, starts, owner, told, heard,
                     delivered, failed, lost>>,
         \A q \in Panels : at'[q] = at[q] \/ (at'[q] \notin StartPhases /\ at[q] # "record"),
         \A q \in Panels : at[q] \in StartPhases => conv'[q] = conv[q],
         \/ stops' = stops /\ crossed' = crossed
         \/ /\ crossed' = (crossed \/ Starting)
            /\ \E k \in Callers : Free(k) /\ StopBegins(k)
  PROVE  Waits' /\ Uncrossed'
<1>1. /\ UNCHANGED <<session, offDoc, recorder, live, starting, stopping, waiters, resolver,
                     starts, owner, told, heard, delivered, failed, lost>>
      /\ crossed => crossed'
  BY DEF recVars, IInv, Types, HistoryTypes
<1>2. \A k \in Callers : \/ stops'[k] = stops[k]
                         \/ stops[k] = None /\ stops'[k] \in {None, "check"}
  BY DEF Free, StopBegins, StopAt, IInv, Types, StopTypes
<1>3. StopRuns' => StopRuns \/ session.surface = Offscreen
  <2>1. CASE stops' = stops
    BY <2>1 DEF StopRuns
  <2>2. ASSUME NEW k \in Callers, StopBegins(k), session.surface # Offscreen
        PROVE  StopRuns' => StopRuns
    <3>1. \A j \in Callers : stops'[j] = IF j = k THEN None ELSE stops[j]
      BY <2>2 DEF StopBegins, StopAt, IInv, Types, StopTypes
    <3> QED
      BY <3>1 DEF StopRuns
  <2> QED
    BY <2>1, <2>2
<1>4. \A q \in Panels : /\ InStart(q)' => InStart(q) /\ at'[q] = at[q] /\ conv'[q] = conv[q]
                        /\ at[q] = "record" => at'[q] = at[q] /\ conv'[q] = conv[q]
  BY DEF InStart, StartPhases
<1>5. /\ StartRuns' <=> StartRuns
      /\ \A d \in Docs : Busy(d)' <=> Busy(d)
  BY <1>1 DEF StartRuns, Busy
<1>6. Starting' => Starting
  BY <1>4, <1>5 DEF Starting, InStart
<1>7. ResolverWaits'
  BY <1>1, <1>2 DEF IInv, ResolverWaits, Types, StopTypes, None
<1>8. PanelAsks' /\ PanelRecords'
  BY <1>1, <1>4 DEF IInv, PanelAsks, PanelRecords, InStart, StartPhases
<1>9. Waits'
  BY <1>1, <1>5, <1>7, <1>8, Constants DEF IInv, Waits, WaitersWait, HasDocumentOpen
<1>10. ASSUME ~crossed' PROVE Parts'
  <2>1. Parts /\ (stops' = stops \/ ~Starting)
    BY <1>1, <1>10 DEF IInv, Uncrossed, Parts
  <2>2. LastHeld'
    BY <1>1, <2>1 DEF LastHeld, Parts
  <2>3. OneStart'
    <3>1. \A q \in Panels : at'[q] = "start" => InStart(q)'
      BY DEF InStart, StartPhases
    <3> QED
      BY <1>1, <1>4, <1>5, <2>1, <3>1 DEF OneStart, Parts, Runs
  <2>4. \A q \in Panels : at'[q] \in StartPhases => at[q] = at'[q]
    BY <1>4 DEF InStart
  <2>5. OneRecorder'
    BY <1>1, <2>4, <1>5, <2>1, Constants DEF OneRecorder, Parts, StartPhases
  <2>6. StopRuns' => ~Starting /\ starting[Offscreen] = {}
    <3>1. CASE stops' = stops
      BY <2>1, <3>1 DEF Parts, StopsAlone, StopRuns
    <3>2. CASE ~Starting
      BY <1>3, <2>1, <3>2 DEF Parts, StopsAlone
    <3> QED
      BY <2>1, <3>1, <3>2
  <2>7. StopsAlone'
    <3>1. \A k \in Callers : /\ stops'[k] \in {"wait", "clear", "close"} => stops[k] = stops'[k]
                             /\ stops'[k] \in {"clear", "close"} => stops[k] = stops'[k]
      BY <1>2 DEF None
    <3> QED
      BY <1>1, <1>5, <1>6, <2>1, <2>4, <2>6, <3>1 DEF StopsAlone, Parts, StartPhases
  <2>8. ToldLast'
    BY <1>1, <1>4, <1>5, <2>4, <2>1, Constants DEF ToldLast, Parts, InStart, StartPhases
  <2>9. LiveShown' /\ Kept'
    BY <1>1, <1>5, <2>1 DEF LiveShown, Kept, Parts
  <2> QED
    BY <2>2, <2>3, <2>5, <2>7, <2>8, <2>9 DEF Parts
<1> QED
  BY <1>9, <1>10 DEF Uncrossed, Parts

\* Who stops, and who only looks at the session.
LEMMA WatcherRest ==
  ASSUME IInv, NEW p \in Panels,
         Sync(p) \/ StopOffscreen(p) \/ StopNothing(p) \/ StopAnswered(p) \/ OpenPanel(p)
         \/ CreateFails(p)
  PROVE  Waits' /\ Uncrossed'
<1>1. ASSUME NEW l \in {None, "stopping"}, At(p, l), at[p] # "record"
      PROVE  \A q \in Panels : at'[q] = at[q] \/ (at'[q] \notin StartPhases /\ at[q] # "record")
  BY <1>1 DEF At, StartPhases, None, IInv, Types, PanelTypes
<1>2. CASE Sync(p)
  <2>1. \A q \in Panels : at[q] \in StartPhases => conv'[q] = conv[q]
    BY <1>2 DEF Sync, IInv, Types, PanelTypes
  <2> QED
    BY <2>1, <1>2, CallsRest DEF Sync, workerVars, historyVars
<1>3. CASE StopOffscreen(p)
  <2>1. p \in Callers
    BY Constants
  <2> QED
    BY <1>1, <2>1, <1>3, CallsRest DEF StopOffscreen, MayStop, None
<1>4. CASE StopNothing(p)
  BY <1>4, CallsRest DEF StopNothing, workerVars, historyVars
<1>5. CASE StopAnswered(p)
  BY <1>1, <1>5, CallsRest DEF StopAnswered, workerVars, historyVars
<1>6. CASE OpenPanel(p)
  BY <1>6, CallsRest DEF OpenPanel, workerVars, historyVars
<1>7. CASE CreateFails(p)
  BY <1>1, <1>7, CallsRest DEF CreateFails, workerVars
<1> QED
  BY <1>2, <1>3, <1>4, <1>5, <1>6, <1>7

\* The menu stops, too.
LEMMA MenuStopRest ==
  ASSUME IInv, MenuStop
  PROVE  Waits' /\ Uncrossed'
BY CallsRest, Constants DEF MenuStop, MayStop, panelVars

\* stop() turns off the microphone of a recorder that records.
LEMMA StopCallHolds ==
  ASSUME Types, NEW d \in Docs, NEW c, StopCall(d), recorder[d].on,
         Holds(recorder[d], live[d], starting[d], stopping[d], c)
  PROVE  live'[d] = {} /\ Holds(recorder'[d], live'[d], starting'[d], stopping'[d], c)
<1>1. PICK call \in Call : /\ stopping'[d] = Append(stopping[d], call)
                           /\ call.conv = recorder[d].conv
                           /\ call.phase = "ack" => call.ws = recorder[d].ws /\ call.ws # 0
  BY StopCallDoes
<1>2. /\ recorder'[d].on = recorder[d].on /\ recorder'[d].media = 0
      /\ recorder'[d].ws = recorder[d].ws
      /\ recorder'[d].conv = recorder[d].conv /\ recorder'[d].parts = recorder[d].parts
      /\ live'[d] = live[d] \ {recorder[d].media} /\ starting' = starting
  BY StopCallDoes
<1>3. live'[d] = {}
  BY <1>2 DEF Holds
<1>4. stopping[d] \in Seq(Call)
  BY DEF Types, DocTypes, CallTypes
<1>5. \A j \in DOMAIN stopping'[d] :
        \/ j \in DOMAIN stopping[d] /\ stopping'[d][j] = stopping[d][j]
        \/ stopping'[d][j] = call
  BY <1>1, <1>4
<1>6. \A j \in DOMAIN stopping'[d] :
        stopping'[d][j].conv = c /\ (stopping'[d][j].phase = "ack" => stopping'[d][j].ws = c)
  BY <1>1, <1>5 DEF Holds
<1> QED
  BY <1>2, <1>3, <1>6 DEF Holds

\* A panel stops its own recorder, or the track of its tab ends.
LEMMA OwnStopRest ==
  ASSUME IInv, NEW p \in Panels, StopOwn(p) \/ CloseTab(p)
  PROVE  Waits' /\ Uncrossed'
<1>1. /\ UNCHANGED <<offDoc, waiters, resolver, starts, stops, conv, owner, told, heard,
                     delivered, failed, crossed, lost>>
      /\ session' = session \/ (session.surface # Offscreen /\ session' = NoSession)
      /\ UNCHANGED recVars \/ (recorder[p].on /\ StopCall(p))
      /\ at' = at \/ (at[p] = None /\ at' = [at EXCEPT ![p] = "stop"])
  <2>1. CASE StopOwn(p)
    BY <2>1 DEF StopOwn, At, workerVars, historyVars
  <2>2. CASE CloseTab(p)
    BY <2>2 DEF CloseTab, workerVars, panelVars, Offscreen
  <2> QED
    BY <2>1, <2>2
<1>2. session.surface # Offscreen => session'.surface # Offscreen
  BY <1>1 DEF NoSession, None, Offscreen
<1>3. \A q \in Panels : at'[q] = at[q] \/ (at'[q] = "stop" /\ at[q] = None)
  BY <1>1 DEF IInv, Types, PanelTypes
<1>4. /\ OnlyIn(p) /\ recorder'[p].on = recorder[p].on /\ starting' = starting
      /\ Busy(p)' => Busy(p)
  BY <1>1, StopCallDoes, Constants DEF OnlyIn, recVars, IInv, Busy
<1>5. /\ recorder'[Offscreen] = recorder[Offscreen] /\ live'[Offscreen] = live[Offscreen]
      /\ starting'[Offscreen] = starting[Offscreen]
      /\ stopping'[Offscreen] = stopping[Offscreen]
  BY <1>4, Constants DEF OnlyIn
<1>6. \A d \in Docs : Busy(d)' => Busy(d)
  BY <1>4 DEF OnlyIn, Busy
<1>7. /\ StartRuns' <=> StartRuns
      /\ StopRuns' <=> StopRuns
      /\ Busy(Offscreen)' <=> Busy(Offscreen)
      /\ \A q \in Panels : at'[q] \in StartPhases <=> at[q] \in StartPhases
  BY <1>1, <1>3, <1>5 DEF StartRuns, StopRuns, Busy, StartPhases, None
<1>8. Starting' <=> Starting
  BY <1>7 DEF Starting
<1>9. \A q \in Panels : at'[q] \in StartPhases => at'[q] = at[q]
  BY <1>3 DEF StartPhases
<1>10. PanelRecords' /\ PanelAsks'
  BY <1>1, <1>3, <1>4 DEF IInv, PanelRecords, PanelAsks, None
<1>11. Waits'
  BY <1>1, <1>7, <1>10 DEF IInv, Waits, ResolverWaits, WaitersWait, HasDocumentOpen
<1>12. ASSUME ~crossed' PROVE Parts'
  <2>1. Parts
    BY <1>1, <1>12 DEF IInv, Uncrossed, Parts
  <2>2. \A d \in Docs : Holds(recorder[d], live[d], starting[d], stopping[d], Len(owner))
    BY <2>1 DEF Parts, LastHeld
  <2>3. Holds(recorder'[p], live'[p], starting'[p], stopping'[p], Len(owner))
    <3>1. CASE UNCHANGED recVars
      BY <2>2, <3>1, Constants DEF recVars
    <3>2. CASE recorder[p].on /\ StopCall(p)
      BY <2>2, <3>2, StopCallHolds, Constants DEF IInv
    <3> QED
      BY <1>1, <3>1, <3>2
  <2>4. LastHeld'
    BY <1>1, <1>4, <2>2, <2>3 DEF LastHeld, OnlyIn
  <2>5. OneStart'
    BY <1>1, <1>7, <1>9, <2>1 DEF OneStart, Parts, Runs, InStart, StartPhases
  <2>6. OneRecorder'
    BY <1>1, <1>6, <1>7, <1>9, <2>1, Constants DEF OneRecorder, Parts, StartPhases
  <2>7. StopsAlone'
    BY <1>1, <1>2, <1>5, <1>7, <1>8, <1>9, <2>1 DEF StopsAlone, Parts, StartPhases
  <2>8. ToldLast'
    BY <1>1, <1>5, <1>6, <1>7, <1>9, <2>1, Constants DEF ToldLast, Parts, StartPhases
  <2>9. LiveShown' /\ Kept'
    BY <1>1, <1>5, <1>7, <2>1 DEF LiveShown, Kept, Parts
  <2> QED
    BY <2>4, <2>5, <2>6, <2>7, <2>8, <2>9 DEF Parts
<1> QED
  BY <1>11, <1>12 DEF Uncrossed, Parts

\* A start begins: nothing else is under way.
LEMMA StartRest ==
  ASSUME IInv, NEW p \in Panels, Start(p)
  PROVE  Waits' /\ Uncrossed'
<1>1. /\ UNCHANGED <<session, offDoc, recorder, live, starting, stopping, waiters, resolver,
                     starts, stops, conv, owner, told, heard, delivered, failed, lost>>
      /\ at[p] = None /\ at' = [at EXCEPT ![p] = "clear"]
      /\ crossed' = (crossed \/ (Starting \/ StopRuns \/ Recording))
  BY DEF Start, At, recVars, workerVars
<1>2. \A q \in Panels : at'[q] = IF q = p THEN "clear" ELSE at[q]
  BY <1>1 DEF IInv, Types, PanelTypes
<1>3. PanelRecords' /\ PanelAsks'
  BY <1>1, <1>2 DEF IInv, PanelRecords, PanelAsks, None
<1>4. Waits'
  BY <1>1, <1>3 DEF IInv, Waits, ResolverWaits, WaitersWait, HasDocumentOpen, Busy
<1>5. ASSUME ~crossed' PROVE Parts'
  <2>1. Parts /\ ~Starting /\ ~StopRuns /\ ~Recording
    BY <1>1, <1>5 DEF IInv, Uncrossed, Parts
  <2>2. /\ ~StartRuns /\ ~StartRuns' /\ ~StopRuns'
        /\ \A q \in Panels : ~InStart(q)
        /\ \A d \in Docs : ~Busy(d) /\ ~Busy(d)'
    BY <1>1, <2>1 DEF Starting, InStart, StartRuns, StopRuns, Recording, Busy
  <2>3. \A q \in Panels : at'[q] \in StartPhases => q = p /\ at'[q] = "clear"
    BY <1>2, <2>2 DEF InStart
  <2>4. LastHeld'
    BY <1>1, <2>1 DEF LastHeld, Parts
  <2>5. OneStart'
    BY <2>2, <2>3, <1>1 DEF OneStart, InStart, StartPhases, StartRuns, Runs
  <2>6. OneRecorder'
    BY <2>2, <2>3, Constants DEF OneRecorder, StartPhases
  <2>7. \A q \in Panels : at'[q] # "create"
    BY <2>3 DEF StartPhases
  <2>8. StopsAlone'
    BY <1>1, <2>1, <2>2, <2>7, Constants DEF StopsAlone, Parts, Busy, StartRuns
  <2>9. ToldLast'
    BY <1>1, <2>1, <2>2, <2>3, Constants DEF ToldLast, Parts, StartPhases
  <2>10. LiveShown' /\ Kept'
    BY <1>1, <2>1, <2>2 DEF LiveShown, Kept, Parts
  <2> QED
    BY <2>4, <2>5, <2>6, <2>8, <2>9, <2>10 DEF Parts
<1> QED
  BY <1>4, <1>5 DEF Uncrossed, Parts

\* The session is cleared for a start, or written by a panel that records its tab: in both
\* cases the microphone is off.
LEMMA SessionIsOf ==
  ASSUME IInv, NEW p \in Panels, ClearSession(p) \/ Register(p)
  PROVE  Waits' /\ Uncrossed'
<1>1. /\ UNCHANGED <<offDoc, recorder, live, starting, stopping, waiters, resolver,
                     starts, stops, conv, owner, told, heard, delivered, failed, crossed, lost>>
      /\ \/ at[p] = "clear" /\ at' = [at EXCEPT ![p] = "create"]
         \/ at[p] = "register" /\ at' = [at EXCEPT ![p] = None]
      /\ session'.surface # Offscreen
  BY DEF ClearSession, Register, NoSession, At, recVars, workerVars, historyVars, None, Offscreen
<1>2. \A q \in Panels : \/ at'[q] = at[q]
                        \/ q = p /\ at[q] = "clear" /\ at'[q] = "create"
                        \/ q = p /\ at[q] = "register" /\ at'[q] = None
  BY <1>1 DEF IInv, Types, PanelTypes
<1>3. /\ StartRuns' <=> StartRuns
      /\ StopRuns' <=> StopRuns
      /\ \A d \in Docs : Busy(d)' <=> Busy(d)
      /\ \A q \in Panels : at'[q] \in StartPhases => at[q] \in StartPhases
  BY <1>1, <1>2 DEF StartRuns, StopRuns, Busy, StartPhases, None
<1>4. Starting' => Starting
  BY <1>3 DEF Starting
<1>5. PanelRecords' /\ PanelAsks'
  BY <1>1, <1>2 DEF IInv, PanelRecords, PanelAsks, None
<1>6. Waits'
  BY <1>1, <1>3, <1>5, Constants DEF IInv, Waits, ResolverWaits, WaitersWait, HasDocumentOpen
<1>7. ASSUME ~crossed' PROVE Parts'
  <2>1. Parts
    BY <1>1, <1>7 DEF IInv, Uncrossed, Parts
  <2>2. LastHeld'
    BY <1>1, <2>1 DEF LastHeld, Parts
  <2>3. \A q \in Panels : at'[q] \in {"start", "record", "register"} => at'[q] = at[q]
    BY <1>2 DEF None
  <2>4. ~StartRuns /\ InStart(p)
    BY <1>1, <2>1 DEF Parts, OneStart, InStart, StartPhases
  <2>5. OneStart'
    BY <1>1, <1>3, <2>1, <2>3, <2>4 DEF OneStart, Parts, Runs, InStart
  <2>6. at[p] = "clear" => \A d \in Docs : ~Busy(d)
    BY <2>1 DEF Parts, OneRecorder
  <2>7. OneRecorder'
    BY <1>1, <1>2, <1>3, <2>1, <2>3, <2>6, Constants DEF OneRecorder, Parts, None
  <2>8. ~Busy(Offscreen)
    BY <1>1, <2>6, <2>1, Constants DEF Parts, OneRecorder
  <2>9. starting[Offscreen] = {} /\ live[Offscreen] = {}
    BY <2>1, <2>8, Constants DEF Busy, Parts, LastHeld, Holds
  <2>10. StopsAlone'
    BY <1>1, <1>3, <1>4, <2>1, <2>4, <2>9 DEF StopsAlone, Parts
  <2>11. ToldLast'
    BY <1>1, <1>3, <2>1, <2>3, Constants DEF ToldLast, Parts
  <2>12. LiveShown' /\ Kept'
    BY <1>1, <2>1, <2>9 DEF LiveShown, Kept, Parts
  <2> QED
    BY <2>2, <2>5, <2>7, <2>10, <2>11, <2>12 DEF Parts
<1> QED
  BY <1>6, <1>7 DEF Uncrossed, Parts

\* A conversation is created, and a recorder asked to record it.
LEMMA CreateRest ==
  ASSUME IInv, NEW p \in Panels, Create(p)
  PROVE  Waits' /\ Uncrossed'
<1> DEFINE c == Len(owner) + 1
<1>1. /\ UNCHANGED <<session, offDoc, waiters, resolver, stops, told, heard, delivered, failed,
                     crossed, lost>>
      /\ at[p] = "create" /\ Len(owner) < MaxStarts /\ owner' = Append(owner, p)
      /\ conv' = [conv EXCEPT ![p] = c]
      /\ \/ /\ at' = [at EXCEPT ![p] = "start"] /\ starts' = [starts EXCEPT ![c] = "ensure"]
            /\ UNCHANGED recVars
         \/ /\ at' = [at EXCEPT ![p] = "register"] /\ starts' = starts
            /\ recorder[p].on /\ UNCHANGED recVars
         \/ /\ at' = [at EXCEPT ![p] = "record"] /\ starts' = starts
            /\ ~recorder[p].on /\ StartCall(p, c)
  BY DEF Create, At, StartAt, historyVars
<1>2. /\ Len(owner) \in Nat /\ c \in Convs /\ c # 0 /\ Len(owner') = c
      /\ DOMAIN owner \subseteq DOMAIN owner' /\ c \notin DOMAIN owner
  BY <1>1, Constants DEF IInv, Types, OwnerType, Convs
<1>3. starts[c] = None
  BY <1>2 DEF IInv, Types, StartTypes
<1> HIDE DEF c
<1>4. \A q \in Panels : /\ q # p => at'[q] = at[q] /\ conv'[q] = conv[q]
                        /\ conv'[p] = c
  BY <1>1 DEF IInv, Types, PanelTypes
<1>5. /\ at'[p] = "start" /\ UNCHANGED recVars
         /\ \A k \in Convs : starts'[k] = IF k = c THEN "ensure" ELSE starts[k]
      \/ /\ at'[p] = "register" /\ starts' = starts /\ recorder[p].on /\ UNCHANGED recVars
      \/ /\ at'[p] = "record" /\ starts' = starts /\ ~recorder[p].on /\ StartCall(p, c)
  BY <1>1 DEF IInv, Types, PanelTypes, StartTypes
<1>6. OnlyIn(p)
  BY <1>2, <1>5, StartCallDoes, Constants DEF OnlyIn, recVars, IInv
<1>7. StartCall(p, c) => starting'[p] = starting[p] \cup {c}
  BY <1>2, StartCallDoes, Constants DEF IInv
<1>8. starting[p] = {}
  BY <1>1 DEF IInv, PanelRecords
<1>9. WaitersWait'
  BY <1>1, <1>2, <1>3, <1>5 DEF IInv, WaitersWait, Types, StartTypes, None
<1>10. PanelRecords'
  <2>1. \A q \in Panels \ {p} : starting'[q] = starting[q]
    BY <1>6, Constants DEF OnlyIn
  <2>2. starting'[p] # {} => at'[p] = "record" /\ starting'[p] = {c}
    BY <1>5, <1>7, <1>8 DEF recVars
  <2> QED
    BY <1>4, <2>1, <2>2 DEF IInv, PanelRecords
<1>11. PanelAsks'
  BY <1>2, <1>4 DEF IInv, PanelAsks
<1>12. /\ recorder'[Offscreen] = recorder[Offscreen] /\ live'[Offscreen] = live[Offscreen]
       /\ starting'[Offscreen] = starting[Offscreen]
       /\ stopping'[Offscreen] = stopping[Offscreen]
  BY <1>6, Constants DEF OnlyIn
<1>13. Waits'
  BY <1>1, <1>9, <1>10, <1>11, <1>12
     DEF IInv, Waits, ResolverWaits, HasDocumentOpen, Busy
<1>14. ASSUME ~crossed' PROVE Parts'
  <2>1. Parts
    BY <1>1, <1>14 DEF IInv, Uncrossed, Parts
  <2>2. /\ \A d \in Docs : ~Busy(d)
        /\ InStart(p) /\ \A q \in Panels : InStart(q) => q = p
        /\ ~StartRuns /\ session.surface # Offscreen
    BY <1>1, <2>1 DEF Parts, OneStart, OneRecorder, StopsAlone, InStart, StartPhases
  <2>3. ~StopRuns
    BY <2>1, <2>2 DEF Parts, StopsAlone, Starting, InStart
  <2>4. \A d \in Docs : /\ recorder[d].on = FALSE /\ recorder[d].parts = {}
                        /\ recorder[d].media = 0 /\ recorder[d].ws = 0 /\ live[d] = {}
                        /\ starting[d] = {} /\ stopping[d] = <<>>
    BY <2>1, <2>2 DEF Parts, LastHeld, Holds, Busy, IInv, Types, DocTypes, RecorderType, Record
  <2>5. /\ recorder'[p].on = FALSE /\ recorder'[p].parts = {}
        /\ recorder'[p].media = 0 /\ recorder'[p].ws = 0
        /\ live'[p] = {} /\ stopping'[p] = <<>> /\ starting'[p] \subseteq {c}
        /\ starting'[p] # {} => recorder'[p].conv = c /\ at'[p] = "record"
    BY <1>2, <1>5, <2>4, StartCallDoes, Constants DEF recVars, IInv
  <2>6. LastHeld'
    <3>1. Holds(recorder'[p], live'[p], starting'[p], stopping'[p], c)
      BY <2>5 DEF Holds
    <3>2. \A d \in Docs \ {p} : Holds(recorder'[d], live'[d], starting'[d], stopping'[d], c)
      BY <1>6, <2>4 DEF Holds, OnlyIn
    <3> QED
      BY <1>2, <3>1, <3>2 DEF LastHeld
  <2>7. \A q \in Panels : at'[q] \in StartPhases => q = p
    BY <1>4, <2>2 DEF InStart
  <2>8. at'[p] \in {"start", "record"} /\ (at'[p] = "record" => starts' = starts)
    BY <1>5, <2>4, Constants
  <2>9. /\ \A k \in Convs : Runs(k)' => k = c /\ starts'[k] = "ensure" /\ at'[p] = "start"
        /\ StartRuns' => at'[p] = "start"
    BY <1>5, <2>2 DEF Runs, StartRuns
  <2>10. OneStart'
    BY <1>2, <1>4, <2>7, <2>8, <2>9 DEF OneStart, InStart, StartPhases
  <2>11. \A d \in Docs : Busy(d)' => d = p /\ at'[p] = "record"
    BY <1>6, <2>4, <2>5 DEF Busy, OnlyIn
  <2>12. OneRecorder'
    BY <2>7, <2>8, <2>9, <2>11, Constants DEF OneRecorder, StartPhases
  <2>13. ~StopRuns'
    BY <1>1, <2>3 DEF StopRuns
  <2>14. \A k \in Convs : starts'[k] # "write"
    BY <2>9 DEF Runs, None
  <2>15. StopsAlone'
    BY <1>1, <1>12, <2>1, <2>2, <2>4, <2>13, <2>14, Constants DEF StopsAlone, StopRuns, Parts
  <2>16. /\ told \subseteq DOMAIN owner /\ heard \subseteq DOMAIN owner
    BY <2>1 DEF Parts, ToldLast
  <2>17. ToldLast'
    BY <1>1, <1>2, <2>16 DEF ToldLast
  <2>18. LiveShown' /\ Kept'
    BY <1>1, <1>12, <2>1, <2>4, Constants DEF LiveShown, Kept, Parts
  <2> QED
    BY <2>6, <2>10, <2>12, <2>15, <2>17, <2>18 DEF Parts
<1> QED
  BY <1>13, <1>14 DEF Uncrossed, Parts

\* The panel is told of its start.
LEMMA StartAnsweredRest ==
  ASSUME IInv, NEW p \in Panels, StartAnswered(p)
  PROVE  Waits' /\ Uncrossed'
<1> DEFINE c == conv[p]
<1>1. /\ UNCHANGED <<session, offDoc, recorder, live, starting, stopping, waiters, resolver,
                     stops, owner, heard, delivered, failed, crossed, lost>>
      /\ at[p] = "start" /\ at' = [at EXCEPT ![p] = None]
      /\ starts[c] \in {"ok", "error"} /\ starts' = [starts EXCEPT ![c] = None]
      /\ told' = (IF starts[c] = "ok" THEN told \cup {c} ELSE told)
      /\ conv' = conv \/ conv' = [conv EXCEPT ![p] = 0]
  BY DEF StartAnswered, At, StartAt, recVars
<1>2. c \in Convs
  BY <1>1, Constants DEF IInv, PanelAsks, Types, PanelTypes
<1>3. \A q \in Panels : /\ at'[q] = IF q = p THEN None ELSE at[q]
                        /\ q # p => conv'[q] = conv[q]
  BY <1>1 DEF IInv, Types, PanelTypes
<1>4. \A k \in Convs : starts'[k] = IF k = c THEN None ELSE starts[k]
  BY <1>1 DEF IInv, Types, StartTypes
<1> HIDE DEF c
<1>5. WaitersWait'
  BY <1>1, <1>4 DEF IInv, WaitersWait, Types, StartTypes
<1>6. PanelRecords' /\ PanelAsks'
  BY <1>1, <1>3 DEF IInv, PanelRecords, PanelAsks, None
<1>7. Waits'
  BY <1>1, <1>5, <1>6 DEF IInv, Waits, ResolverWaits, HasDocumentOpen, Busy
<1>8. ASSUME ~crossed' PROVE Parts'
  <2>1. Parts
    BY <1>1, <1>8 DEF IInv, Uncrossed, Parts
  <2>2. c = Len(owner) /\ InStart(p) /\ \A q \in Panels : InStart(q) => q = p
    BY <1>1, <2>1 DEF Parts, OneStart, InStart, StartPhases, c
  <2>3. ~Runs(c) /\ ~StartRuns
    BY <1>1, <2>1, <2>2 DEF Parts, OneStart, StartRuns, Runs
  <2>4. \A k \in Convs : starts'[k] # None => starts'[k] = starts[k]
    BY <1>4
  <2>5. ~StartRuns' /\ \A k \in Convs : ~Runs(k)'
    BY <2>3, <2>4 DEF StartRuns, Runs
  <2>6. \A q \in Panels : at'[q] \notin StartPhases
    BY <1>3, <2>2 DEF InStart, StartPhases, None
  <2>7. \A d \in Docs : Busy(d)' <=> Busy(d)
    BY <1>1 DEF Busy
  <2>8. \A q \in Panels : ~Busy(q)
    BY <1>1, <2>1 DEF Parts, OneRecorder
  <2>9. StopRuns' <=> StopRuns
    BY <1>1 DEF StopRuns
  <2>10. LastHeld'
    BY <1>1, <2>1 DEF LastHeld, Parts
  <2>11. OneStart'
    BY <2>5, <2>6 DEF OneStart, InStart, StartPhases
  <2>12. OneRecorder'
    BY <2>1, <2>4, <2>6, <2>7, <2>5, Constants DEF OneRecorder, Parts, StartPhases, Runs, None
  <2>13. ~Starting' /\ Starting
    BY <1>1, <2>5, <2>6 DEF Starting, StartPhases
  <2>14. \A k \in Convs : starts'[k] # "write"
    BY <2>5 DEF Runs, None
  <2>15. StopsAlone'
    BY <1>1, <2>1, <2>5, <2>6, <2>9, <2>13, <2>14 DEF StopsAlone, Parts, StartPhases
  <2>16. \A q \in Panels : at'[q] \notin {"start", "record", "register"}
    BY <2>6 DEF StartPhases
  <2>17. told' \subseteq DOMAIN owner
    <3>1. c \in DOMAIN owner
      BY <1>2, <2>2, Constants DEF Convs, IInv, Types, OwnerType
    <3> QED
      BY <1>1, <2>1, <3>1 DEF Parts, ToldLast
  <2>18. ToldLast'
    BY <1>1, <2>1, <2>5, <2>7, <2>8, <2>16, <2>17, Constants DEF ToldLast, Parts
  <2>19. LiveShown'
    BY <1>1, <2>1, <2>3, <2>5 DEF LiveShown, Parts
  <2>20. starts[c] = "ok" /\ c \in heard => c \in recorder[Offscreen].parts
    BY <1>1, <2>1, <2>2 DEF Parts, ToldLast, c
  <2>21. Kept'
    BY <1>1, <2>1, <2>20 DEF Kept, Parts
  <2> QED
    BY <2>10, <2>11, <2>12, <2>15, <2>18, <2>19, <2>21 DEF Parts
<1> QED
  BY <1>7, <1>8 DEF Uncrossed, Parts

\* A panel is closed, alone or with its window, whose session is then stopped.
LEMMA LosePanelRest ==
  ASSUME IInv, NEW p \in Panels, ClosePanel(p) \/ CloseWindow(p)
  PROVE  Waits' /\ Uncrossed'
<1>1. /\ UNCHANGED <<offDoc, waiters, resolver, starts, owner, told, heard, delivered, failed,
                     lost>>
      /\ Gone(p) /\ conv' = [conv EXCEPT ![p] = 0]
      /\ \E l \in {None, "closed"} : at' = [at EXCEPT ![p] = l]
      /\ session' = session \/ (session.surface # Offscreen /\ session' = NoSession)
      /\ \/ stops' = stops /\ crossed' = crossed
         \/ stops' = stops /\ crossed' = (crossed \/ FALSE)
         \/ /\ crossed' = (crossed \/ Starting)
            /\ Free("window") /\ StopBegins("window")
  <2>1. CASE ClosePanel(p)
    BY <2>1 DEF ClosePanel, LosePanel, At, workerVars
  <2>2. CASE CloseWindow(p) /\ session.window = p
    BY <2>2 DEF CloseWindow, LosePanel, At, Offscreen
  <2>3. CASE CloseWindow(p) /\ session.window # p
    BY <2>3 DEF CloseWindow, LosePanel, At
  <2> QED
    BY <2>1, <2>2, <2>3
<1>2. /\ crossed => crossed'
      /\ stops' = stops \/ crossed' \/ ~Starting
  <2>1. crossed \in BOOLEAN
    BY DEF IInv, Types, HistoryTypes
  <2>2. CASE crossed' = (crossed \/ Starting)
    BY <2>2, Zenon
  <2>3. CASE stops' = stops /\ (crossed' = crossed \/ crossed' = (crossed \/ FALSE))
    BY <2>1, <2>3
  <2> QED
    BY <1>1, <2>2, <2>3
<1>3. session.surface # Offscreen => session'.surface # Offscreen
  BY <1>1 DEF NoSession, None, Offscreen
<1>4. \A k \in Callers : \/ stops'[k] = stops[k]
                         \/ stops[k] = None /\ stops'[k] \in {None, "check"}
  BY <1>1 DEF Free, StopBegins, StopAt, IInv, Types, StopTypes
<1>5. StopRuns' => StopRuns \/ session.surface = Offscreen
  <2>1. CASE stops' = stops
    BY <2>1 DEF StopRuns
  <2>2. CASE StopBegins("window") /\ session.surface # Offscreen
    <3>1. \A j \in Callers : stops'[j] = IF j = "window" THEN None ELSE stops[j]
      BY <2>2, Constants DEF StopBegins, StopAt, IInv, Types, StopTypes
    <3> QED
      BY <3>1 DEF StopRuns
  <2> QED
    BY <1>1, <2>1, <2>2
<1>6. \A q \in Panels : /\ q # p => at'[q] = at[q] /\ conv'[q] = conv[q]
                        /\ at'[p] \in {None, "closed"}
  BY <1>1 DEF IInv, Types, PanelTypes
<1>7. \A q \in Panels : at'[q] \in StartPhases => at'[q] = at[q] /\ conv'[q] = conv[q]
  BY <1>6 DEF StartPhases, None
<1>8. /\ OnlyIn(p) /\ recorder'[p] = Idle /\ live'[p] = {} /\ starting'[p] = {}
      /\ stopping'[p] = <<>>
  BY <1>1, GoneDoes, Constants DEF IInv
<1>9. /\ recorder'[Offscreen] = recorder[Offscreen] /\ live'[Offscreen] = live[Offscreen]
      /\ starting'[Offscreen] = starting[Offscreen]
      /\ stopping'[Offscreen] = stopping[Offscreen]
  BY <1>8, Constants DEF OnlyIn
<1>10. /\ StartRuns' <=> StartRuns
       /\ Busy(Offscreen)' <=> Busy(Offscreen)
       /\ \A d \in Docs : Busy(d)' => Busy(d)
  BY <1>1, <1>8, <1>9, Constants DEF StartRuns, Busy, OnlyIn, Idle
<1>11. Starting' => Starting
  BY <1>7, <1>10 DEF Starting
<1>12. ResolverWaits'
  BY <1>1, <1>4 DEF IInv, ResolverWaits, Types, StopTypes, None
<1>13. PanelRecords'
  BY <1>6, <1>8, Constants DEF IInv, PanelRecords, OnlyIn
<1>14. PanelAsks'
  BY <1>7 DEF IInv, PanelAsks, StartPhases
<1>15. Waits'
  BY <1>1, <1>10, <1>12, <1>13, <1>14 DEF IInv, Waits, WaitersWait, HasDocumentOpen
<1>16. ASSUME ~crossed' PROVE Parts'
  <2>1. Parts /\ (stops' = stops \/ ~Starting)
    BY <1>2, <1>16 DEF IInv, Uncrossed, Parts
  <2>2. LastHeld'
    BY <1>1, <1>8, <2>1 DEF LastHeld, Parts, OnlyIn, Holds, Idle
  <2>3. OneStart'
    BY <1>1, <1>7, <1>10, <2>1 DEF OneStart, Parts, Runs, InStart, StartPhases
  <2>4. OneRecorder'
    BY <1>1, <1>7, <1>10, <2>1, Constants DEF OneRecorder, Parts, StartPhases
  <2>5. StopRuns' => ~Starting /\ starting[Offscreen] = {}
    <3>1. CASE stops' = stops
      BY <2>1, <3>1 DEF Parts, StopsAlone, StopRuns
    <3>2. CASE ~Starting
      BY <1>5, <2>1, <3>2 DEF Parts, StopsAlone
    <3> QED
      BY <2>1, <3>1, <3>2
  <2>6. StopsAlone'
    <3>1. \A k \in Callers : /\ stops'[k] \in {"wait", "clear", "close"} => stops[k] = stops'[k]
                             /\ stops'[k] \in {"clear", "close"} => stops[k] = stops'[k]
      BY <1>4 DEF None
    <3> QED
      BY <1>1, <1>3, <1>7, <1>9, <1>10, <1>11, <2>1, <2>5, <3>1
         DEF StopsAlone, Parts, StartPhases
  <2>7. ToldLast'
    BY <1>1, <1>7, <1>9, <1>10, <2>1, Constants DEF ToldLast, Parts, StartPhases
  <2>8. LiveShown' /\ Kept'
    BY <1>1, <1>9, <1>10, <2>1 DEF LiveShown, Kept, Parts
  <2> QED
    BY <2>2, <2>3, <2>4, <2>6, <2>7, <2>8 DEF Parts
<1> QED
  BY <1>15, <1>16 DEF Uncrossed, Parts

\* The service worker is ended: its calls are gone, the recorders go on.
LEMMA EndWorkerRest ==
  ASSUME IInv, EndWorker
  PROVE  Waits' /\ Uncrossed'
<1>1. /\ UNCHANGED <<session, offDoc, recorder, live, starting, stopping, at, conv, owner,
                     told, heard, delivered, failed, crossed>>
      /\ waiters' = {} /\ resolver' = None /\ lost'
      /\ \A c \in Convs : starts'[c] = IF starts[c] \in {None, "ok"} THEN starts[c] ELSE "error"
      /\ \A k \in Callers : stops'[k] = None
  BY DEF EndWorker, recVars, panelVars
<1>2. ~StopRuns' /\ ~StartRuns' /\ \A c \in Convs : ~Runs(c)'
  BY <1>1 DEF StopRuns, StartRuns, Runs, None
<1>3. \A d \in Docs : Busy(d)' <=> Busy(d)
  BY <1>1 DEF Busy
<1>4. Waits'
  BY <1>1, <1>3, Constants
     DEF IInv, Waits, ResolverWaits, WaitersWait, HasDocumentOpen, PanelRecords, PanelAsks
<1>5. ASSUME ~crossed' PROVE Parts'
  <2>1. Parts
    BY <1>1, <1>5 DEF IInv, Uncrossed, Parts
  <2>2. LastHeld'
    BY <1>1, <2>1 DEF LastHeld, Parts
  <2>3. OneStart'
    BY <1>1, <1>2, <2>1 DEF OneStart, Parts, InStart
  <2>4. \A c \in Convs : starts'[c] \notin {"ensure", "create", "send", "write"}
    BY <1>2 DEF Runs, None
  <2>5. OneRecorder'
    BY <1>1, <1>2, <1>3, <2>1, <2>4, Constants DEF OneRecorder, Parts
  <2>6. Starting' => Starting
    BY <1>1, <1>2 DEF Starting
  <2>7. StopsAlone'
    BY <1>1, <1>2, <2>1, <2>4, <2>6 DEF StopsAlone, Parts, None
  <2>8. \A p \in Panels : at[p] = "start" => conv[p] \in Convs
    BY Constants DEF IInv, PanelAsks, Types, PanelTypes
  <2>9. \A p \in Panels : at[p] = "start" /\ starts'[conv[p]] = "ok" => starts[conv[p]] = "ok"
    BY <1>1, <2>8
  <2>10. ToldLast'
    BY <1>1, <1>2, <1>3, <2>1, <2>9, Constants DEF ToldLast, Parts
  <2>11. LiveShown' /\ Kept'
    BY <1>1, <2>1 DEF LiveShown, Kept, Parts
  <2> QED
    BY <2>2, <2>3, <2>5, <2>7, <2>10, <2>11 DEF Parts
<1> QED
  BY <1>4, <1>5 DEF Uncrossed, Parts

-----------------------------------------------------------------------------
\* The invariant is inductive

\* It holds at first.
LEMMA Initially == ASSUME Init PROVE IInv
<1> USE DEF Init
<1>1. /\ Idle \in Record /\ NoSession \in Session
      /\ Idle.on = FALSE /\ Idle.conv = 0 /\ Idle.media = 0 /\ Idle.ws = 0 /\ Idle.parts = {}
  BY Constants, SessionsAre DEF Idle, Record
<1>2. SessionTypes /\ RecorderType /\ StreamTypes
  BY <1>1 DEF SessionTypes, RecorderType, StreamTypes
<1>3. CallTypes
  BY DEF CallTypes
<1>4. StartTypes /\ StopTypes /\ PanelTypes
  BY Constants DEF StartTypes, StopTypes, PanelTypes, StartStates, StopStates, Places
<1>5. OwnerType
  <2>1. owner \in Seq(Panels) /\ Len(owner) = 0
    OBVIOUS
  <2> QED
    BY <2>1, Constants DEF OwnerType
<1>5a. HistoryTypes
  <2>1. budget \in 0 .. MaxEvents
    BY Constants
  <2>2. crossed \in BOOLEAN /\ lost \in BOOLEAN
    OBVIOUS
  <2>3. /\ told = {} /\ heard = {} /\ delivered = {} /\ failed = {}
    OBVIOUS
  <2> QED
    BY <2>1, <2>2, <2>3 DEF HistoryTypes
<1>6. Types
  BY <1>2, <1>3, <1>4, <1>5, <1>5a DEF Types, DocTypes
<1>7. \A d \in Docs : ~Busy(d)
  BY <1>1 DEF Busy
<1>8. /\ ~StartRuns /\ ~StopRuns /\ (\A c \in Convs : starts[c] = None)
      /\ \A k \in Callers : stops[k] = None
  BY DEF StartRuns, StopRuns
<1>9. \A p \in Panels : at[p] = None /\ ~InStart(p)
  BY DEF InStart, StartPhases, None
<1>10. ResolverWaits /\ WaitersWait /\ HasDocumentOpen /\ PanelRecords /\ PanelAsks
  BY <1>7, <1>9, Constants
     DEF ResolverWaits, WaitersWait, HasDocumentOpen, PanelRecords, PanelAsks, None
<1>11. LastHeld
  BY <1>1 DEF LastHeld, Holds
<1>12. OneStart
  BY <1>8, <1>9 DEF OneStart, Runs, None
<1>13. OneRecorder
  BY <1>7, <1>8, <1>9, Constants DEF OneRecorder, None
<1>14. ~Starting
  BY <1>8, <1>9 DEF Starting, InStart
<1>15. StopsAlone
  BY <1>8, <1>9, <1>14, Constants DEF StopsAlone, None
<1>16. ToldLast /\ LiveShown /\ Kept
  BY <1>8, Constants DEF ToldLast, LiveShown, Kept
<1> QED
  BY <1>6, <1>10, <1>11, <1>12, <1>13, <1>15, <1>16 DEF IInv, Uncrossed

\* A recorder's steps.
LEMMA RecorderRest ==
  ASSUME IInv, NEW d \in Docs, Recorder(d) \/ Chunk(d) \/ Faults(d)
  PROVE  Waits' /\ Uncrossed'
<1>1. d = Offscreen \/ d \in Panels
  BY DEF Docs
<1>2. ASSUME NEW c \in Convs, Started(d, c) \/ StartRaises(d, c) PROVE Waits' /\ Uncrossed'
  BY <1>1, <1>2, OffscreenStartRest, PanelStartRest
<1>3. CASE Chunk(d)
  BY <1>3, ChunkRest
<1>4. ASSUME NEW i \in DOMAIN stopping[d], Finalized(d, i) \/ Uploaded(d, i) \/ UploadRaises(d, i)
      PROVE  Waits' /\ Uncrossed'
  BY <1>1, <1>4, OffscreenStopRest, PanelStopRest
<1>5. ASSUME NEW i \in DOMAIN stopping[d], NotFinalized(d, i)
      PROVE  Waits' /\ Uncrossed'
  BY <1>5, NotFinalizedRest
<1> QED
  BY <1>2, <1>3, <1>4, <1>5 DEF Recorder, Faults

\* Every step keeps it.
LEMMA NextKeeps == ASSUME IInv, Next PROVE IInv'
<1>1. Types'
  BY TypesKept DEF IInv
<1>2. ASSUME NEW d \in Docs, Recorder(d) \/ Chunk(d) \/ Faults(d) PROVE Waits' /\ Uncrossed'
  BY <1>2, RecorderRest
<1>3. ASSUME NEW c \in Convs, Starter(c) PROVE Waits' /\ Uncrossed'
  BY <1>3, StarterRest, SendStartRest, WriteSessionRest, StartClosesRest DEF Starter
<1>4. ASSUME NEW k \in Callers, Stopper(k) PROVE Waits' /\ Uncrossed'
  BY <1>4, StopGoesOn, SendStopRest, StopClosesRest DEF Stopper
<1>5. ASSUME NEW p \in Panels, Panel(p) \/ Sync(p) \/ Start(p) \/ CreateFails(p) \/ StopOwn(p)
                               \/ StopOffscreen(p) \/ StopNothing(p)
                               \/ OpenPanel(p) \/ ClosePanel(p) \/ CloseWindow(p) \/ CloseTab(p)
      PROVE  Waits' /\ Uncrossed'
  <2>1. CASE Sync(p) \/ StopOffscreen(p) \/ StopNothing(p) \/ StopAnswered(p) \/ OpenPanel(p)
             \/ CreateFails(p)
    BY <2>1, WatcherRest
  <2>2. CASE Start(p) \/ ClearSession(p) \/ Create(p) \/ StartAnswered(p) \/ Register(p)
    BY <2>2, StartRest, SessionIsOf, CreateRest, StartAnsweredRest
  <2>3. CASE StopOwn(p) \/ CloseTab(p) \/ ClosePanel(p) \/ CloseWindow(p)
    BY <2>3, OwnStopRest, LosePanelRest
  <2> QED
    BY <1>5, <2>1, <2>2, <2>3 DEF Panel
<1>6. ASSUME MenuStop \/ EndWorker PROVE Waits' /\ Uncrossed'
  BY <1>6, MenuStopRest, EndWorkerRest
<1>7. Waits' /\ Uncrossed'
  BY <1>2, <1>3, <1>4, <1>5, <1>6 DEF Next
<1> QED
  BY <1>1, <1>7 DEF IInv, Waits

\* Nothing happens to it when nothing happens.
LEMMA StutterKeeps == ASSUME IInv, UNCHANGED vars PROVE IInv'
<1>1. UNCHANGED <<session, offDoc, recorder, live, starting, stopping, waiters, resolver, starts,
                  stops, open, ui, at, conv, owner, told, heard, delivered, failed, crossed,
                  lost, budget>>
  BY DEF vars, recVars, workerVars, panelVars, historyVars
<1>2. Types'
  BY <1>1, TypesFrame DEF Types, IInv, recVars, historyVars
<1>3. /\ StartRuns' <=> StartRuns
      /\ StopRuns' <=> StopRuns
      /\ Starting' <=> Starting
      /\ \A d \in Docs : Busy(d)' <=> Busy(d)
  BY <1>1 DEF StartRuns, StopRuns, Starting, Busy
<1>4. Waits'
  BY <1>1, <1>3, Constants
     DEF IInv, Waits, ResolverWaits, WaitersWait, HasDocumentOpen, PanelRecords, PanelAsks
<1>5. ASSUME ~crossed' PROVE Parts'
  <2>1. Parts
    BY <1>1, <1>5 DEF IInv, Uncrossed, Parts
  <2>2. LastHeld' /\ OneStart' /\ OneRecorder'
    BY <1>1, <1>3, <2>1, Constants DEF Parts, LastHeld, OneStart, OneRecorder, Runs, InStart
  <2>3. StopsAlone' /\ ToldLast' /\ LiveShown' /\ Kept'
    BY <1>1, <1>3, <2>1, Constants DEF Parts, StopsAlone, ToldLast, LiveShown, Kept
  <2> QED
    BY <2>2, <2>3 DEF Parts
<1> QED
  BY <1>2, <1>4, <1>5 DEF IInv, Waits, Uncrossed, Parts

\* The parts say what the runs check.
LEMMA InvariantSays == ASSUME IInv PROVE TypeOK /\ MicVisible /\ AudioDelivered
<1>1. TypeOK
  BY TypesAreTypeOK DEF IInv
<1>2. MicVisible
  <2> SUFFICES ASSUME ~crossed, ~lost, ~StartRuns, ~StopRuns, live[Offscreen] # {}
               PROVE  session.surface = Offscreen /\ session.conv \in live[Offscreen]
    BY DEF MicVisible
  <2>1. session.surface = Offscreen /\ session.conv = Len(owner)
    BY DEF IInv, Uncrossed, LiveShown
  <2>2. live[Offscreen] \subseteq {Len(owner)}
    BY Constants DEF IInv, Uncrossed, LastHeld, Holds
  <2> QED
    BY <2>1, <2>2
<1>3. AudioDelivered
  BY DEF AudioDelivered, IInv, Uncrossed, Kept
<1> QED
  BY <1>1, <1>2, <1>3

\* The invariant holds throughout.
LEMMA Inductive == Spec => []IInv
<1>1. Init => IInv
  BY Initially
<1>2. IInv /\ [Next]_vars => IInv'
  BY NextKeeps, StutterKeeps
<1> QED
  BY <1>1, <1>2, PTL DEF Spec

-----------------------------------------------------------------------------
\* What is proved

\* Every variable keeps its type, whatever is started, stopped, closed, ended or answered late.
THEOREM TypeCorrect == Spec => []TypeOK
<1>1. IInv => TypeOK
  BY InvariantSays
<1> QED
  BY <1>1, Inductive, PTL

\* A microphone that is on, with nothing being started or stopped, is in the session record
\* that the badge, the menu and every panel are drawn from.
THEOREM MicrophoneIsVisible == Spec => []MicVisible
<1>1. IInv => MicVisible
  BY InvariantSays
<1> QED
  BY <1>1, Inductive, PTL

\* Nobody closes the offscreen document while it holds audio of a recording that a panel was
\* told of, unless that audio is on the server or its upload has failed.
THEOREM AudioIsDelivered == Spec => []AudioDelivered
<1>1. IInv => AudioDelivered
  BY InvariantSays
<1> QED
  BY <1>1, Inductive, PTL
=============================================================================
