------------------------- MODULE ExtensionRecording -------------------------
(***************************************************************************)
(* Who records in the browser extension, and who knows of it: the side     *)
(* panels (one per browser window) that start and stop, the service worker *)
(* that serves their messages, the offscreen document that records the     *)
(* microphone, and the session record in chrome.storage.local that badge,  *)
(* menu and panels are drawn from. A tab is recorded by the panel itself.  *)
(*                                                                         *)
(* What a recorder sends to the server is module AudioSession; here a      *)
(* recording is a set of conversations whose audio it holds.               *)
(***************************************************************************)
EXTENDS Naturals, Sequences, SequencesExt

CONSTANTS
  Panels,     \* the windows, each with its panel
  Sources,    \* settings.audioSource: "microphone" or "tab"
  MaxStarts,  \* bound on the conversations created
  MaxStops,   \* bound on the stops of one recorder that are followed at a time
  Events,     \* the kinds of event below that occur
  MaxEvents   \* bound on their number

Convs == 1 .. MaxStarts
Offscreen == "offscreen"
Docs == Panels \cup {Offscreen}
Callers == Panels \cup {"menu", "window"}   \* who runs stopOffscreenRecording
None == "none"

\* worker: the service worker is ended while it serves a call
\* panel:  a panel is closed
\* window: a window is closed
\* tab:    a captured tab is closed
\* cross:  a start is begun while something is under way, or a stop while a start is
\* again:  a stop is begun while one is under way
\* io:     no microphone, no connection, no answer or an error from the server
EventKinds == {"worker", "panel", "window", "tab", "cross", "again", "io"}

ASSUME RecorderBounds == {MaxStarts, MaxStops, MaxEvents} \subseteq Nat
\* Each recorder has room for its first stop; the bound drops only later ones.
ASSUME OneStopFollowed == MaxStops > 0
ASSUME RecorderInputs == Sources \subseteq {"microphone", "tab"} /\ Events \subseteq EventKinds
ASSUME PanelsAreNew == Panels \cap {Offscreen, None, "menu", "window"} = {}

VARIABLES
  session,    \* vtRecordingSession
  offDoc,     \* the offscreen document exists
  \* AudioRecorderController of each document
  recorder,   \* state is "recording", config, mediaRecorder, wsClient, recordedParts
  live,       \* conversations whose MediaRecorder runs: the microphone is on
  starting,   \* calls of start() that wait for the stream or the connection
  stopping,   \* calls of stop() that wait for the server
  \* the service worker
  waiters,    \* startWaiters, by conversation
  resolver,   \* whose promise stopResolver resolves
  starts,     \* startOffscreenRecording, by conversation
  stops,      \* stopOffscreenRecording, by caller: None when it is over
  \* the panels
  open,       \* panels that are open
  ui,         \* status and recordingSurfaceRef: None, or the surface it shows
  at,         \* where handleStart or handleStop is
  conv,       \* conversationId
  owner,      \* owner[c]: the panel that created conversation c
  \* history
  told,       \* started for the microphone, as far as a panel was told
  heard,      \* with audio
  delivered,  \* with audio on the server
  failed,     \* whose upload failed
  crossed,    \* a start crossed something else
  lost,       \* a call was under way when the service worker was ended
  budget      \* events that may still come

recVars     == <<recorder, live, starting, stopping>>
workerVars  == <<waiters, resolver, starts, stops>>
panelVars   == <<open, ui, at, conv, owner>>
historyVars == <<told, heard, delivered, failed, crossed, lost, budget>>
vars == <<session, offDoc, recVars, workerVars, panelVars, historyVars>>

NoSession == [surface |-> None, conv |-> 0, window |-> None]
Idle == [on |-> FALSE, conv |-> 0, media |-> 0, ws |-> 0, parts |-> {}]

Init ==
  /\ session = NoSession /\ offDoc = FALSE
  /\ recorder = [d \in Docs |-> Idle] /\ live = [d \in Docs |-> {}]
  /\ starting = [d \in Docs |-> {}] /\ stopping = [d \in Docs |-> <<>>]
  /\ waiters = {} /\ resolver = None
  /\ starts = [c \in Convs |-> None] /\ stops = [k \in Callers |-> None]
  /\ open = Panels /\ ui = [p \in Panels |-> None]
  /\ at = [p \in Panels |-> None] /\ conv = [p \in Panels |-> 0]
  /\ owner = <<>> /\ told = {} /\ heard = {} /\ delivered = {} /\ failed = {}
  /\ crossed = FALSE /\ lost = FALSE /\ budget = MaxEvents

Spend(e) == e \in Events /\ budget > 0 /\ budget' = budget - 1

StartRuns == \E c \in Convs : starts[c] \notin {None, "ok", "error"}
StopRuns  == \E k \in Callers : stops[k] # None
Recording == \E d \in Docs : recorder[d].on \/ starting[d] # {} \/ stopping[d] # <<>>

StartPhases == {"clear", "create", "start", "record", "register"}
Starting == StartRuns \/ \E p \in Panels : at[p] \in StartPhases

-----------------------------------------------------------------------------
\* AudioRecorderController in document d

\* What is left of the recorder of a document that is gone.
Gone(d) ==
  /\ recorder' = [recorder EXCEPT ![d] = Idle] /\ live' = [live EXCEPT ![d] = {}]
  /\ starting' = [starting EXCEPT ![d] = {}] /\ stopping' = [stopping EXCEPT ![d] = <<>>]

\* start(): a recorder that records already returns at once.
StartCall(d, c) ==
  /\ recorder' = [recorder EXCEPT ![d].conv = c, ![d].parts = {}]
  /\ starting' = [starting EXCEPT ![d] = @ \cup {c}]
  /\ UNCHANGED <<live, stopping>>

\* The reply to OFFSCREEN_START, or the end of `await recorder.start` in a panel.
StartReturns(d, c, ok) ==
  IF d = Offscreen
  THEN /\ waiters' = waiters \ {c}
       /\ starts' = IF c \in waiters THEN [starts EXCEPT ![c] = IF ok THEN "write" ELSE "clear"]
                                     ELSE starts
       /\ UNCHANGED <<ui, at, conv>>
  ELSE /\ at' = [at EXCEPT ![d] = IF ok THEN "register" ELSE None]
       /\ ui' = [ui EXCEPT ![d] = IF ok THEN "popup" ELSE None]
       /\ conv' = IF ok THEN conv ELSE [conv EXCEPT ![d] = 0]
       /\ UNCHANGED <<waiters, starts>>

\* The stream is there, the connection is open, MediaRecorder starts.
Started(d, c) ==
  /\ c \in starting[d]
  /\ recorder' = [recorder EXCEPT ![d].on = TRUE, ![d].media = c, ![d].ws = c]
  /\ live' = [live EXCEPT ![d] = @ \cup {c}]
  /\ starting' = [starting EXCEPT ![d] = @ \ {c}]
  /\ StartReturns(d, c, TRUE)
  /\ UNCHANGED <<session, offDoc, stopping, resolver, stops, open, owner, historyVars>>

StartRaises(d, c) ==
  /\ Spend("io") /\ c \in starting[d]
  /\ recorder' = [recorder EXCEPT ![d].ws = 0]
  /\ starting' = [starting EXCEPT ![d] = @ \ {c}]
  /\ StartReturns(d, c, FALSE)
  /\ UNCHANGED <<session, offDoc, live, stopping, resolver, stops, open, owner, told, heard,
                 delivered, failed, crossed, lost>>

\* dataavailable. It is dropped when wsClient is null.
Chunk(d) ==
  /\ recorder[d].ws # 0
  /\ \E c \in live[d] : /\ c \notin recorder[d].parts
                        /\ recorder' = [recorder EXCEPT ![d].parts = @ \cup {c}]
                        /\ heard' = heard \cup {c}
  /\ UNCHANGED <<session, offDoc, live, starting, stopping, workerVars, panelVars,
                 told, delivered, failed, crossed, lost, budget>>

\* stop() up to its first wait for the server. A second stop() finds mediaRecorder, and
\* later wsClient, null. Without a client the parts are uploaded at once.
StopCall(d) ==
  LET r == recorder[d]
      call == [conv |-> r.conv, ws |-> r.ws, phase |-> IF r.ws # 0 THEN "ack" ELSE "upload"] IN
  /\ recorder' = [recorder EXCEPT ![d].media = 0]
  /\ live' = [live EXCEPT ![d] = @ \ {r.media}]
  /\ stopping' = [stopping EXCEPT ![d] = Append(@, call)]
  /\ UNCHANGED starting

\* The end of a stop(): offscreen_stopped is sent whatever stop() did; in a panel it is
\* onAfterStop, when stop() did not raise, and the end of `await recorder.stop`.
StopReturns(d, ok) ==
  IF d = Offscreen
  THEN /\ resolver' = None
       /\ stops' = IF resolver # None THEN [stops EXCEPT ![resolver] = "clear"] ELSE stops
       /\ UNCHANGED <<session, ui, at>>
  ELSE /\ session' = IF ok THEN NoSession ELSE session
       /\ at' = [at EXCEPT ![d] = IF @ = "stop" THEN None ELSE @]
       /\ ui' = IF ok \/ at[d] = "stop" THEN [ui EXCEPT ![d] = None] ELSE ui
       /\ UNCHANGED <<resolver, stops>>

StopDone(d, i) ==
  /\ recorder' = [recorder EXCEPT ![d].on = FALSE, ![d].conv = 0, ![d].ws = 0, ![d].parts = {}]
  /\ stopping' = [stopping EXCEPT ![d] = RemoveAt(@, i)]
  /\ StopReturns(d, TRUE)

\* finalize_ack: accepted or duplicate
Finalized(d, i) ==
  /\ stopping[d][i].phase = "ack"
  /\ delivered' = delivered \cup {stopping[d][i].ws}
  /\ StopDone(d, i)
  /\ UNCHANGED <<offDoc, live, starting, waiters, starts, open, conv, owner, told, heard,
                 failed, crossed, lost, budget>>

\* An error, or no answer within 30 s.
NotFinalized(d, i) ==
  /\ stopping[d][i].phase = "ack"
  /\ recorder' = [recorder EXCEPT ![d].ws = 0]
  /\ stopping' = [stopping EXCEPT ![d][i].phase = "upload"]
  /\ UNCHANGED <<session, offDoc, live, starting, workerVars, panelVars, told, heard,
                 delivered, failed, crossed, lost, budget>>

\* POST /api/upload of the parts, if there are any and the config is there.
Uploaded(d, i) ==
  /\ stopping[d][i].phase = "upload"
  /\ delivered' = delivered \cup (recorder[d].parts \cap {stopping[d][i].conv})
  /\ StopDone(d, i)
  /\ UNCHANGED <<offDoc, live, starting, waiters, starts, open, conv, owner, told, heard,
                 failed, crossed, lost, budget>>

\* stop() raises: state stays "recording" and the parts stay.
UploadRaises(d, i) ==
  /\ Spend("io") /\ stopping[d][i].phase = "upload" /\ recorder[d].parts # {} /\ stopping[d][i].conv # 0
  /\ failed' = failed \cup {stopping[d][i].conv}
  /\ stopping' = [stopping EXCEPT ![d] = RemoveAt(@, i)]
  /\ StopReturns(d, FALSE)
  /\ UNCHANGED <<offDoc, recorder, live, starting, waiters, starts, open, conv, owner, told,
                 heard, delivered, crossed, lost>>

-----------------------------------------------------------------------------
\* The service worker: startOffscreenRecording for conversation c

StartAt(c, l) == starts' = [starts EXCEPT ![c] = l]

\* ensureOffscreenDocument: there can only be one.
HasDocument(c) ==
  /\ starts[c] = "ensure" /\ StartAt(c, IF offDoc THEN "send" ELSE "create")
  /\ UNCHANGED <<session, offDoc, recVars, waiters, resolver, stops, panelVars, historyVars>>

CreateDocument(c) ==
  /\ starts[c] = "create" /\ StartAt(c, IF offDoc THEN "clear" ELSE "send")
  /\ offDoc' = TRUE
  /\ UNCHANGED <<session, recVars, waiters, resolver, stops, panelVars, historyVars>>

\* OFFSCREEN_START, to a document that may be closed by now
SendStart(c) ==
  /\ starts[c] = "send"
  /\ IF recorder[Offscreen].on
     THEN StartAt(c, "write") /\ UNCHANGED <<waiters, recVars>>
     ELSE /\ StartAt(c, "wait") /\ waiters' = waiters \cup {c}
          /\ IF offDoc THEN StartCall(Offscreen, c) ELSE UNCHANGED recVars
  /\ UNCHANGED <<session, offDoc, resolver, stops, panelVars, historyVars>>

\* StartTimeout, mutated: there is no timer.
NoStartTimeout(c) == FALSE /\ UNCHANGED vars
StartTimeout(c) ==
  /\ starts[c] = "wait" /\ StartAt(c, "clear")
  /\ waiters' = waiters \ {c}
  /\ UNCHANGED <<session, offDoc, recVars, resolver, stops, panelVars, historyVars>>

WriteSession(c) ==
  /\ starts[c] = "write" /\ StartAt(c, "ok")
  /\ session' = [surface |-> Offscreen, conv |-> c, window |-> owner[c]]
  /\ UNCHANGED <<offDoc, recVars, waiters, resolver, stops, panelVars, historyVars>>

StartClears(c) ==
  /\ starts[c] = "clear" /\ StartAt(c, "close")
  /\ session' = NoSession
  /\ UNCHANGED <<offDoc, recVars, waiters, resolver, stops, panelVars, historyVars>>

\* closeOffscreenIfIdle, which does not look whether the document is idle
\* StartCloses, mutated: the document stays.
StartLeavesOpen(c) ==
  /\ starts[c] = "close" /\ StartAt(c, "error")
  /\ UNCHANGED <<session, offDoc, recVars, waiters, resolver, stops, panelVars, historyVars>>
StartCloses(c) ==
  /\ starts[c] = "close" /\ StartAt(c, "error")
  /\ offDoc' = FALSE /\ Gone(Offscreen)
  /\ UNCHANGED <<session, waiters, resolver, stops, panelVars, historyVars>>

Starter(c) == HasDocument(c) \/ CreateDocument(c) \/ SendStart(c) \/ StartTimeout(c)
              \/ WriteSession(c) \/ StartClears(c) \/ StartCloses(c)

-----------------------------------------------------------------------------
\* The service worker: stopOffscreenRecording for caller k

StopAt(k, l) == stops' = [stops EXCEPT ![k] = l]
Free(k) == stops[k] = None

\* The session is read once, when the stop begins.
\* StopBegins, mutated: the surface itself is kept.
StopKeepsSurface(k) == StopAt(k, session.surface)
StopBegins(k) == StopAt(k, IF session.surface = Offscreen THEN "check" ELSE None)

ClearStale(k) ==
  /\ stops[k] = "check" /\ ~offDoc /\ StopAt(k, None)
  /\ session' = NoSession
  /\ UNCHANGED <<offDoc, recVars, waiters, resolver, starts, panelVars, historyVars>>

\* SendStop, mutated: the document answers before stop() is through.
SendStopUnawaited(k) ==
  /\ stops[k] = "check" /\ offDoc
  /\ IF recorder[Offscreen].on THEN StopCall(Offscreen) ELSE UNCHANGED recVars
  /\ resolver' = None /\ StopAt(k, "clear")
  /\ UNCHANGED <<session, offDoc, waiters, starts, panelVars, historyVars>>
\* OFFSCREEN_STOP. A recorder that does not record is reported as stopped at once.
SendStop(k) ==
  /\ stops[k] = "check" /\ offDoc
  /\ IF recorder[Offscreen].on
     THEN /\ resolver' = k /\ StopAt(k, "wait")
          /\ IF Len(stopping[Offscreen]) < MaxStops THEN StopCall(Offscreen) ELSE UNCHANGED recVars
     ELSE /\ resolver' = None /\ StopAt(k, "clear")
          /\ UNCHANGED recVars
  /\ UNCHANGED <<session, offDoc, waiters, starts, panelVars, historyVars>>

\* A resolver that another stop has taken over is lost to this one, and is set to null
\* for the other by this timer. A panel shows the error; onRemoved clears the session.
\* StopTimeout, mutated: only who has the resolver gives up.
TimeoutIfResolver(k) ==
  /\ stops[k] = "wait" /\ resolver = k /\ StopAt(k, None)
  /\ resolver' = None
  /\ session' = IF k = "window" THEN NoSession ELSE session
  /\ UNCHANGED <<offDoc, recVars, waiters, starts, panelVars, historyVars>>
StopTimeout(k) ==
  /\ stops[k] = "wait" /\ StopAt(k, None)
  /\ resolver' = None
  /\ session' = IF k = "window" THEN NoSession ELSE session
  /\ UNCHANGED <<offDoc, recVars, waiters, starts, panelVars, historyVars>>

StopClears(k) ==
  /\ stops[k] = "clear" /\ StopAt(k, "close")
  /\ session' = NoSession
  /\ UNCHANGED <<offDoc, recVars, waiters, resolver, starts, panelVars, historyVars>>

StopCloses(k) ==
  /\ stops[k] = "close" /\ StopAt(k, None)
  /\ offDoc' = FALSE /\ Gone(Offscreen)
  /\ UNCHANGED <<session, waiters, resolver, starts, panelVars, historyVars>>

Stopper(k) == ClearStale(k) \/ SendStop(k) \/ StopTimeout(k)
              \/ StopClears(k) \/ StopCloses(k)

MayStop == /\ crossed' = (crossed \/ Starting)
           /\ IF Starting THEN Spend("cross")
              ELSE IF StopRuns \/ stopping[Offscreen] # <<>> THEN Spend("again")
              ELSE UNCHANGED budget

\* The menu item is enabled while the session is one of the microphone.
MenuStop ==
  /\ session.surface = Offscreen /\ Free("menu") /\ StopBegins("menu")
  /\ MayStop
  /\ UNCHANGED <<session, offDoc, recVars, waiters, resolver, starts, panelVars, told, heard,
                 delivered, failed, lost>>

-----------------------------------------------------------------------------
\* The panels

At(p, l) == at' = [at EXCEPT ![p] = l]

\* applyRecordingSessionSync: what panel p shows of the session. A recorder of its own
\* counts for more; while it starts a recording it does not look.
Shown(p) ==
  IF ~recorder[p].on THEN session.surface
  ELSE IF session.surface = "popup" /\ session.conv = conv[p] THEN "popup"
  ELSE IF session = NoSession /\ ui[p] = Offscreen THEN None
  ELSE ui[p]

Sync(p) ==
  /\ p \in open /\ at[p] \notin StartPhases /\ ui[p] # Shown(p)
  /\ ui' = [ui EXCEPT ![p] = Shown(p)]
  /\ conv' = IF session # NoSession /\ ~recorder[p].on THEN [conv EXCEPT ![p] = session.conv]
                                                      ELSE conv
  /\ UNCHANGED <<session, offDoc, recVars, workerVars, open, at, owner, historyVars>>

\* handleStart, from the button or from the menu by vt_remote_start_recording
Start(p) ==
  /\ p \in open /\ at[p] = None /\ ui[p] = None /\ Len(owner) < MaxStarts
  /\ At(p, "clear")
  /\ LET crosses == Starting \/ StopRuns \/ Recording IN
     /\ crossed' = (crossed \/ crosses)
     /\ IF crosses THEN Spend("cross") ELSE UNCHANGED budget
  /\ UNCHANGED <<session, offDoc, recVars, workerVars, open, ui, conv, owner, told, heard,
                 delivered, failed, lost>>

\* bg_clear_recording_session, whatever is recorded
ClearSession(p) ==
  /\ at[p] = "clear" /\ At(p, "create")
  /\ session' = NoSession
  /\ UNCHANGED <<offDoc, recVars, workerVars, open, ui, conv, owner, historyVars>>

CreateFails(p) ==
  /\ at[p] = "create" /\ At(p, None)
  /\ Spend("io") \/ (Len(owner) = MaxStarts /\ UNCHANGED budget)
  /\ UNCHANGED <<session, offDoc, recVars, workerVars, open, ui, conv, owner, told, heard,
                 delivered, failed, crossed, lost>>

\* POST /api/conversations, then bg_start_offscreen_recording or a start of its own.
Create(p) ==
  /\ at[p] = "create" /\ Len(owner) < MaxStarts
  /\ LET c == Len(owner) + 1 IN
     /\ owner' = Append(owner, p)
     /\ conv' = [conv EXCEPT ![p] = c]
     /\ \/ /\ "microphone" \in Sources
           /\ At(p, "start") /\ StartAt(c, "ensure") /\ UNCHANGED recVars
        \/ /\ "tab" \in Sources
           /\ IF recorder[p].on THEN At(p, "register") /\ UNCHANGED recVars
                                ELSE At(p, "record") /\ StartCall(p, c)
           /\ UNCHANGED starts
  /\ UNCHANGED <<session, offDoc, waiters, resolver, stops, open, ui, historyVars>>

StartAnswered(p) ==
  /\ at[p] = "start" /\ starts[conv[p]] \in {"ok", "error"}
  /\ At(p, None)
  /\ StartAt(conv[p], None)
  /\ LET ok == starts[conv[p]] = "ok" IN
     /\ told' = IF ok THEN told \cup {conv[p]} ELSE told
     /\ ui' = [ui EXCEPT ![p] = IF ok THEN Offscreen ELSE None]
     /\ conv' = IF ok THEN conv ELSE [conv EXCEPT ![p] = 0]
  /\ UNCHANGED <<session, offDoc, recVars, waiters, resolver, stops, open, owner, heard, delivered, failed,
                 crossed, lost, budget>>

\* bg_register_popup_recording
Register(p) ==
  /\ at[p] = "register" /\ At(p, None)
  /\ session' = [surface |-> "popup", conv |-> conv[p], window |-> p]
  /\ ui' = [ui EXCEPT ![p] = "popup"]
  /\ UNCHANGED <<offDoc, recVars, workerVars, open, conv, owner, historyVars>>

\* handleStop: its own recorder first, then the one of the offscreen document
StopOwn(p) ==
  /\ p \in open /\ at[p] = None /\ ui[p] # None /\ recorder[p].on
  /\ Len(stopping[p]) < MaxStops
  /\ At(p, "stop") /\ StopCall(p)
  /\ UNCHANGED <<session, offDoc, workerVars, open, ui, conv, owner, historyVars>>

StopOffscreen(p) ==
  /\ p \in open /\ at[p] = None /\ ui[p] = Offscreen /\ ~recorder[p].on /\ Free(p)
  /\ At(p, "stopping") /\ StopBegins(p)
  /\ MayStop
  /\ UNCHANGED <<session, offDoc, recVars, waiters, resolver, starts, open, ui, conv, owner,
                 told, heard, delivered, failed, lost>>

\* There is nothing here to stop; the session stays as it is.
StopNothing(p) ==
  /\ p \in open /\ at[p] = None /\ ui[p] = "popup" /\ ~recorder[p].on
  /\ ui' = [ui EXCEPT ![p] = None]
  /\ UNCHANGED <<session, offDoc, recVars, workerVars, open, at, conv, owner, historyVars>>

StopAnswered(p) ==
  /\ at[p] = "stopping" /\ Free(p) /\ At(p, None)
  /\ ui' = [ui EXCEPT ![p] = None]
  /\ UNCHANGED <<session, offDoc, recVars, workerVars, open, conv, owner, historyVars>>

Panel(p) == ClearSession(p) \/ Create(p) \/ StartAnswered(p) \/ Register(p)
            \/ StopAnswered(p) \/ (Len(owner) = MaxStarts /\ CreateFails(p))

-----------------------------------------------------------------------------
\* The browser

OpenPanel(p) ==
  /\ p \notin open /\ at[p] # "closed"
  /\ open' = open \cup {p}
  /\ UNCHANGED <<session, offDoc, recVars, workerVars, ui, at, conv, owner, historyVars>>

\* The document of the panel goes, with a recorder of its own; its calls go on.
LosePanel(p, l) ==
  /\ open' = open \ {p} /\ Gone(p) /\ At(p, l)
  /\ ui' = [ui EXCEPT ![p] = None] /\ conv' = [conv EXCEPT ![p] = 0]
  /\ UNCHANGED <<owner, told, heard, delivered, failed, lost>>

ClosePanel(p) ==
  /\ Spend("panel") /\ p \in open /\ LosePanel(p, None)
  /\ UNCHANGED <<session, offDoc, workerVars, crossed>>

\* windows.onRemoved
CloseWindow(p) ==
  /\ Spend("window") /\ at[p] # "closed" /\ Free("window") /\ LosePanel(p, "closed")
  /\ LET mine == session.window = p IN
     /\ IF mine THEN StopBegins("window") ELSE UNCHANGED stops
     /\ session' = IF mine /\ session.surface = "popup" THEN NoSession ELSE session
     /\ crossed' = (crossed \/ (mine /\ Starting))
  /\ UNCHANGED <<offDoc, waiters, resolver, starts>>

\* tabs.onRemoved; the track of the stream ends, and the recorder stops by itself.
CloseTab(p) ==
  /\ Spend("tab") /\ live[p] # {}
  /\ session' = IF session.surface = "popup" /\ session.window = p THEN NoSession ELSE session
  /\ IF recorder[p].on /\ Len(stopping[p]) < MaxStops THEN StopCall(p) ELSE UNCHANGED recVars
  /\ UNCHANGED <<offDoc, workerVars, panelVars, told, heard, delivered, failed, crossed, lost>>

\* Who waits for an answer gets an error; promises and timers are gone.
EndWorker ==
  /\ Spend("worker") /\ (StartRuns \/ StopRuns)
  /\ waiters' = {} /\ resolver' = None
  /\ starts' = [c \in Convs |-> IF starts[c] \in {None, "ok"} THEN starts[c] ELSE "error"]
  /\ stops' = [k \in Callers |-> None]
  /\ lost' = TRUE
  /\ UNCHANGED <<session, offDoc, recVars, panelVars, told, heard, delivered, failed, crossed>>

Recorder(d) ==
  \/ \E c \in Convs : Started(d, c)
  \/ \E i \in DOMAIN stopping[d] : Finalized(d, i) \/ Uploaded(d, i)

Faults(d) == \/ \E c \in Convs : StartRaises(d, c)
             \/ \E i \in DOMAIN stopping[d] : NotFinalized(d, i) \/ UploadRaises(d, i)

Next ==
  \/ \E d \in Docs : Recorder(d) \/ Chunk(d) \/ Faults(d)
  \/ \E c \in Convs : Starter(c)
  \/ \E k \in Callers : Stopper(k)
  \/ \E p \in Panels : \/ Panel(p) \/ Sync(p) \/ Start(p) \/ CreateFails(p) \/ StopOwn(p)
                       \/ StopOffscreen(p) \/ StopNothing(p)
                       \/ OpenPanel(p) \/ ClosePanel(p) \/ CloseWindow(p) \/ CloseTab(p)
  \/ MenuStop \/ EndWorker

Spec == Init /\ [][Next]_vars

\* The handlers of the worker and of the panels run, timers fire. A recorder may wait for
\* the user, the document or the server for as long as it likes.
FairSpec == /\ Spec
            /\ \A c \in Convs : WF_vars(Starter(c))
            /\ \A k \in Callers : WF_vars(Stopper(k))
            /\ \A p \in Panels : WF_vars(Panel(p))

-----------------------------------------------------------------------------
\* Properties

TypeOK ==
  /\ session \in [surface : {None, Offscreen, "popup"}, conv : 0 .. MaxStarts,
                  window : Panels \cup {None}]
  /\ offDoc \in BOOLEAN
  /\ recorder \in [Docs -> [on : BOOLEAN, conv : 0 .. MaxStarts, media : 0 .. MaxStarts,
                            ws : 0 .. MaxStarts, parts : SUBSET Convs]]
  /\ live \in [Docs -> SUBSET Convs] /\ starting \in [Docs -> SUBSET Convs]
  /\ \A d \in Docs : stopping[d] \in Seq([conv : 0 .. MaxStarts, ws : 0 .. MaxStarts, phase : {"ack", "upload"}])
  /\ waiters \subseteq Convs /\ resolver \in Callers \cup {None}
  /\ starts \in [Convs -> {None, "ensure", "create", "send", "wait", "write", "clear",
                           "close", "ok", "error"}]
  /\ stops \in [Callers -> {None, "check", "wait", "clear", "close"}]
  /\ open \subseteq Panels /\ ui \in [Panels -> {None, Offscreen, "popup"}]
  /\ at \in [Panels -> {None, "clear", "create", "start", "record", "register", "stop",
                        "stopping", "closed"}]
  /\ conv \in [Panels -> 0 .. MaxStarts] /\ owner \in Seq(Panels)
  /\ told \subseteq Convs /\ heard \subseteq Convs /\ delivered \subseteq Convs
  /\ failed \subseteq Convs /\ {crossed, lost} \subseteq BOOLEAN /\ budget \in 0 .. MaxEvents

\* While nothing is being started or stopped, a microphone that is on is in the session:
\* the badge shows it, and every panel and the menu can stop it. Whatever timed out,
\* was refused or was stopped twice; not after two starts that crossed, nor after a
\* service worker that was ended during a call.
MicVisible ==
  (~crossed /\ ~lost /\ ~StartRuns /\ ~StopRuns /\ live[Offscreen] # {})
    => session.surface = Offscreen /\ session.conv \in live[Offscreen]

\* The microphone's audio of a recording that a panel was told of is held by the offscreen
\* document until it is on the server, or until the upload of it has failed: nobody closes
\* the document before, though several may stop it at once and the first to be answered
\* closes it.
AudioDelivered ==
  ~crossed => told \cap heard \subseteq delivered \cup failed \cup recorder[Offscreen].parts

\* Who starts the microphone is answered, whether or not the document ever answers.
StartEnds == \A p \in Panels : at[p] = "start" ~> at[p] # "start"

\* Who stops the microphone is answered, though one resolver serves all that wait.
StopEnds == \A p \in Panels : at[p] = "stopping" ~> at[p] # "stopping"
=============================================================================
