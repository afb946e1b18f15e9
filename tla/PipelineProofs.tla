--------------------------- MODULE PipelineProofs ---------------------------
(***************************************************************************)
(* Proofs about Pipeline, for any number of workers and API processes, any *)
(* budget of requests and faults and every setting of the switches; the    *)
(* theorems of the last two sections are about one worker for each kind of *)
(* row.                                                                    *)
(***************************************************************************)
EXTENDS Pipeline, TLAPS

\* Worker w has a row of the history in its hands.
Busy(w) == pc[w] \in {"download", "store", "commit", "index", "post"}

\* The kind of the rows worker w writes.
KindOf(w) == IF w \in AsrWorkers THEN "asr" ELSE "asr_diarized"

\* A step may mark row r failed, and leaves it alone otherwise.
NoSuccess(r) ==
  \/ rows'[r] = rows[r]
  \/ /\ rows'[r].status # "success"
     /\ rows'[r].tier = rows[r].tier
     /\ rows'[r].kind = rows[r].kind

\* Worker w keeps its message and its row in a step.
SameHands(w) == held'[w] = held[w] /\ own'[w] = own[w]
USE DEF NoSuccess, SameHands

\* Whoever refers to a revision refers to one that exists.
KnownRevisions ==
  /\ \A w \in Workers : Busy(w) => own[w] \in Revisions
  /\ \A m \in MergeMsgs : m.rev \in Revisions

\* A merge writes the row of its message, and only if no slice failed.
HeldMerge ==
  \A w \in Workers : held[w].task = "merge" =>
    /\ held[w].ok
    /\ Busy(w) => own[w] = held[w].rev

\* OneAttemptPerRow, with the messages that are held by workers.
ExclusiveRows ==
  /\ \A v, w \in Workers :
       Writes(v) /\ Writes(w) /\ v # w /\ own[v] = own[w]
         => held[v].task = "merge" /\ held[v] = held[w]
  /\ \A w \in Workers : Writes(w) => own[w] \notin chord
  /\ \A w \in Workers : Writes(w) /\ held[w].task # "merge"
                          => \A m \in MergeMsgs : m.rev # own[w]
  /\ \A m, n \in MergeMsgs : m.rev = n.rev => m = n
  /\ \A m \in MergeMsgs : m.rev \notin chord

\* A row that may still be marked failed by its own task is no success.
OpenRows ==
  /\ \A w \in Workers : Writes(w) /\ held[w].task # "merge"
                          => rows[own[w]].status # "success"
  /\ \A r \in chord : rows[r].status # "success"
  /\ \A m \in MergeMsgs : ~m.ok => rows[m.rev].status # "success"

\* No task writes a fast row, and a final row is no diarized one.
NoFastWork ==
  /\ \A w \in Workers : Busy(w) => rows[own[w]].tier # "fast"
  /\ \A r \in chord : rows[r].tier # "fast"
  /\ \A m \in MergeMsgs : rows[m.rev].tier # "fast"

\* Every task writes rows of its own kind.
RightKind ==
  /\ \A w \in Workers : Busy(w) => rows[own[w]].kind = KindOf(w)
  /\ \A r \in chord : rows[r].kind = "asr"
  /\ \A m \in MergeMsgs : rows[m.rev].kind = "asr"

\* A handler is about to mark a row of its kind, or none.
FoundKnown ==
  \A w \in Workers :
    IF pc[w] = "failing"
      THEN found[w] \in Revisions /\ rows[found[w]].kind = KindOf(w)
      ELSE found[w] = 0

ActiveKnown == active # 0 => active \in Revisions

FinalIsAsr == \A r \in Revisions : rows[r].tier = "final" => rows[r].kind = "asr"

IInv ==
  /\ TypeOK
  /\ KnownRevisions
  /\ HeldMerge
  /\ ExclusiveRows
  /\ OpenRows
  /\ NoFastWork
  /\ RightKind
  /\ FoundKnown
  /\ ActiveKnown
  /\ FinalIsAsr

-----------------------------------------------------------------------------
\* What a row added to the history changes.
LEMMA RowAdded ==
  ASSUME rows \in Seq(Row),
         NEW k \in Kind, NEW t \in Tier, NEW st \in Status, NEW src \in Nat,
         AddRow(k, t, st, src)
  PROVE  /\ rows' \in Seq(Row)
         /\ NextRevision \in Nat
         /\ NextRevision \notin Revisions
         /\ Revisions' = Revisions \cup {NextRevision}
         /\ \A r \in Revisions : /\ r \in Nat /\ r < NextRevision
                                 /\ rows'[r] = rows[r]
         /\ rows'[NextRevision] = [kind |-> k, tier |-> t, status |-> st,
                                   src |-> src]
  BY DEF AddRow, NextRevision, Revisions, Row

\* What a new status of a row changes.
LEMMA StatusSet ==
  ASSUME rows \in Seq(Row), NEW r \in Revisions, NEW st \in Status,
         SetStatus(r, st)
  PROVE  /\ rows' \in Seq(Row)
         /\ Revisions' = Revisions
         /\ \A q \in Revisions : q # r => rows'[q] = rows[q]
         /\ rows'[r] = [rows[r] EXCEPT !.status = st]
         /\ rows'[r].kind = rows[r].kind
         /\ rows'[r].tier = rows[r].tier
         /\ rows'[r].src = rows[r].src
         /\ rows'[r].status = st
<1>1. rows[r] \in Row
  BY DEF Revisions
<1>2. [rows[r] EXCEPT !.status = st] \in Row
  BY <1>1 DEF Row
<1>3. /\ DOMAIN rows' = DOMAIN rows
      /\ rows'[r] = [rows[r] EXCEPT !.status = st]
      /\ \A q \in Revisions : q # r => rows'[q] = rows[q]
  BY DEF SetStatus, Revisions
<1>4. rows' \in Seq(Row) /\ Len(rows') = Len(rows)
  BY <1>2 DEF SetStatus, Revisions
<1>5. /\ rows'[r].kind = rows[r].kind
      /\ rows'[r].tier = rows[r].tier
      /\ rows'[r].src = rows[r].src
      /\ rows'[r].status = st
  BY <1>1, <1>3 DEF Row
<1> QED
  BY <1>3, <1>4, <1>5 DEF Revisions

\* The strengthened invariant holds before anything happened.
LEMMA Initially == Init => IInv
<1> SUFFICES ASSUME Init PROVE IInv
  OBVIOUS
<1>1. Revisions = {} /\ Success = {} /\ Diarized = {}
  BY DEF Init, Revisions, Success, Diarized
<1>2. \A w \in Workers : /\ ~Writes(w)
                         /\ ~Busy(w)
                         /\ held[w].task # "merge"
  BY DEF Init, Writes, Busy, NoMsg
<1>3. MergeMsgs = {}
  BY <1>2 DEF Init, MergeMsgs, Merging
<1>4. TypeOK
  <2>1. rows \in Seq(Row) /\ active \in Nat /\ diarQ \in Nat
    BY DEF Init
  <2>2. asrQ \in [Sources -> Nat]
    BY DEF Init
  <2>3. pc \in [Workers -> Pc] /\ call \in [Clients -> CallPc]
    BY DEF Init, Pc, CallPc
  <2>4. held \in [Workers -> Msg]
    BY DEF Init, Msg
  <2>5. /\ unacked \in [Workers -> BOOLEAN]
        /\ own \in [Workers -> Nat] /\ found \in [Workers -> Nat]
    BY DEF Init
  <2>6. budget \in [Requests \cup Faults -> Nat]
    BY BudgetsAreNat DEF Init
  <2> QED
    BY <2>1, <2>2, <2>3, <2>4, <2>5, <2>6
       DEF Init, TypeOK, TableTypes, QueueTypes, WorkerTypes, CallTypes
<1> QED
  BY <1>1, <1>2, <1>3, <1>4
     DEF Init, IInv, KnownRevisions, HeldMerge, ExclusiveRows, OpenRows,
         NoFastWork, RightKind, FoundKnown, ActiveKnown, FinalIsAsr

-----------------------------------------------------------------------------
\* What the operators the actions are built from do to the types.
LEMMA SpendType ==
  ASSUME CallTypes, NEW k \in Requests \cup Faults, Spend(k)
  PROVE  budget' \in [Requests \cup Faults -> Nat]
<1>1. budget[k] - 1 \in Nat
  BY DEF CallTypes, Spend
<1> QED
  BY <1>1 DEF CallTypes, Spend

\* A request goes on.
LEMMA CallStepType ==
  ASSUME CallTypes, NEW c, NEW from, NEW to \in CallPc, CallStep(c, from, to)
  PROVE  call' \in [Clients -> CallPc]
  BY DEF CallTypes, CallStep

\* A worker goes on.
LEMMA GotoType ==
  ASSUME WorkerTypes, NEW w, NEW l \in Pc, Goto(w, l)
  PROVE  pc' \in [Workers -> Pc]
  BY DEF WorkerTypes, Goto

\* A worker lets go of its message.
LEMMA ReleaseType ==
  ASSUME WorkerTypes, NEW w, Release(w)
  PROVE  WorkerTypes'
<1>1. "idle" \in Pc /\ NoMsg \in Msg
  BY DEF Pc, Msg
<1> QED
  BY <1>1, GotoType DEF WorkerTypes, Release

\* A worker takes a message.
LEMMA DeliverType ==
  ASSUME WorkerTypes, NEW w, NEW m \in Msg, Deliver(w, m)
  PROVE  held' \in [Workers -> Msg] /\ unacked' \in [Workers -> BOOLEAN]
  BY DEF WorkerTypes, Deliver

\* A message is sent.
LEMMA EnqueueType ==
  ASSUME QueueTypes, NEW s \in Sources, Enqueue(s)
  PROVE  asrQ' \in [Sources -> Nat]
  BY DEF QueueTypes, Enqueue

\* A message is told by its task.
LEMMA MsgTypes ==
  ASSUME NEW m \in Msg
  PROVE /\ m.task = "asr" => m \in AsrMsg
        /\ m.task = "merge" => m \in MergeMsg
        /\ m.task = "diarize" => m \in DiarMsg
  BY DEF Msg, AsrMsg, MergeMsg, DiarMsg, NoMsg

\* A message is delivered again.
LEMMA PutBackType ==
  ASSUME QueueTypes, NEW m \in Msg, PutBack(m)
  PROVE  /\ asrQ' \in [Sources -> Nat] /\ mergeQ' \subseteq MergeMsg
         /\ diarQ' \in Nat
<1>1. m.task = "asr" => m.source \in Sources
  BY MsgTypes DEF AsrMsg
<1>2. asrQ' \in [Sources -> Nat]
  BY <1>1 DEF QueueTypes, PutBack
<1>3. mergeQ' \subseteq MergeMsg
  BY MsgTypes DEF QueueTypes, PutBack
<1>4. diarQ' \in Nat
  BY DEF QueueTypes, PutBack
<1> QED
  BY <1>2, <1>3, <1>4

\* The commit of a result keeps the types.
LEMMA CommitTypes ==
  ASSUME IInv, NEW w \in Workers, CommitOwn(w)
  PROVE  TypeOK'
<1>1. own[w] \in Revisions
  BY DEF IInv, KnownRevisions, CommitOwn, Busy
<1>2. rows' \in Seq(Row) /\ Revisions' = Revisions
  BY <1>1, StatusSet DEF IInv, TypeOK, TableTypes, CommitOwn, Status
<1>3. pc' \in [Workers -> Pc]
  BY GotoType DEF IInv, TypeOK, CommitOwn, Pc
<1> QED
  BY <1>1, <1>2, <1>3 DEF IInv, TypeOK, TableTypes, QueueTypes, WorkerTypes,
     CallTypes, CommitOwn, queueVars, outVars

\* The exception handlers keep the types.
LEMMA MarkTypes ==
  ASSUME IInv, NEW w \in Workers,
         FindNewest(w, KindOf(w)) \/ MarkFound(w)
  PROVE  TypeOK'
<1>1. CASE FindNewest(w, KindOf(w))
  <2>1. WorkerTypes'
    <3>1. ASSUME NEW r \in Running(KindOf(w)), Goto(w, "failing"),
                 found' = [found EXCEPT ![w] = r], UNCHANGED <<held, unacked, own>>
          PROVE  WorkerTypes'
      <4>1. pc' \in [Workers -> Pc] /\ r \in Nat
        BY <3>1, GotoType DEF IInv, TypeOK, Pc, Running, Revisions
      <4> QED
        BY <3>1, <4>1 DEF IInv, TypeOK, WorkerTypes
    <3> QED
      BY <1>1, <3>1, ReleaseType DEF IInv, TypeOK, FindNewest
  <2> QED
    BY <1>1, <2>1 DEF IInv, TypeOK, TableTypes, QueueTypes, CallTypes, FindNewest,
       convVars, queueVars, outVars, Revisions
<1>2. CASE MarkFound(w)
  <2>1. found[w] \in Revisions /\ SetStatus(found[w], "failed")
    BY <1>2 DEF IInv, FoundKnown, MarkFound
  <2>2. rows' \in Seq(Row) /\ Revisions' = Revisions
    BY <2>1, StatusSet DEF IInv, TypeOK, TableTypes, Status
  <2>3. WorkerTypes'
    BY <1>2, ReleaseType DEF IInv, TypeOK, MarkFound
  <2> QED
    BY <1>2, <2>2, <2>3 DEF IInv, TypeOK, TableTypes, QueueTypes, CallTypes, MarkFound,
       queueVars, outVars
<1> QED
  BY <1>1, <1>2

\* The handler of a task looks for rows of its kind.
LEMMA Handlers ==
  ASSUME NEW w, AsrMarkFailed(w) \/ DiarMarkFailed(w)
  PROVE  FindNewest(w, KindOf(w)) \/ MarkFound(w)
  BY DisjointWorkers DEF AsrMarkFailed, DiarMarkFailed, KindOf

\* Every step keeps the types.
LEMMA TypesKept == IInv /\ [Next]_vars => TypeOK'
<1> SUFFICES ASSUME IInv, [Next]_vars PROVE TypeOK'
  OBVIOUS
<1> USE DEF IInv, TypeOK, TableTypes, QueueTypes, WorkerTypes, CallTypes,
            Revisions, convVars, queueVars, outVars, workerVars, Workers
<1>1. ASSUME NEW w \in Workers, NEW s \in Sources, AsrBegin(w, s)
      PROVE  TypeOK'
  <2>1. /\ TakeAsr(w, s) /\ Goto(w, "download") /\ NextRevision \in Nat
        /\ AddRow("asr", "final", "running", 0)
    BY <1>1 DEF AsrBegin, NextRevision
  <2>2. rows' \in Seq(Row) /\ Revisions \subseteq Revisions'
    BY <2>1, RowAdded DEF Kind, Tier, Status
  <2>3. [task |-> "asr", source |-> s] \in Msg
    BY DEF Msg, AsrMsg
  <2>4. asrQ' \in [Sources -> Nat]
    BY <2>1 DEF TakeAsr
  <2> QED
    BY <1>1, <2>1, <2>2, <2>3, <2>4, GotoType, DeliverType
       DEF AsrBegin, TakeAsr, Pc
<1>2. ASSUME NEW w \in Workers, NEW s \in Sources, AsrBeginRaises(w, s)
      PROVE  TypeOK'
  <2>1. [task |-> "asr", source |-> s] \in Msg
    BY DEF Msg, AsrMsg
  <2>2. asrQ' \in [Sources -> Nat]
    BY <1>2 DEF AsrBeginRaises, TakeAsr
  <2> QED
    BY <1>2, <2>1, <2>2, SpendType, GotoType, DeliverType
       DEF AsrBeginRaises, TakeAsr, Pc, Faults
<1>3. ASSUME NEW w \in Workers, NEW m \in mergeQ, MergeBegin(w, m)
      PROVE  TypeOK'
  BY <1>3, GotoType, DeliverType DEF MergeBegin, MergeMsg, Msg, Pc
<1>4. ASSUME NEW w \in Workers, NEW m \in mergeQ, MergeFails(w, m)
      PROVE  TypeOK'
  <2>1. m.rev \in Revisions /\ SetStatus(m.rev, "failed")
    BY <1>4 DEF MergeFails, KnownRevisions, MergeMsgs, Merging
  <2>2. rows' \in Seq(Row) /\ Revisions' = Revisions
    BY <2>1, StatusSet DEF Status
  <2> QED
    BY <1>4, <2>2 DEF MergeFails
<1>5. ASSUME NEW w \in Workers, AsrDownload(w)
      PROVE  TypeOK'
  BY <1>5, GotoType DEF AsrDownload, Pc
<1>6. ASSUME NEW w \in Workers, AsrHandOff(w)
      PROVE  TypeOK'
  BY <1>6, ReleaseType DEF AsrHandOff, KnownRevisions, Busy
<1>7. ASSUME NEW w \in Workers, AsrStore(w)
      PROVE  TypeOK'
  BY <1>7, GotoType DEF AsrStore, Pc
<1>8. ASSUME NEW w \in Workers, AsrCommit(w)
      PROVE  TypeOK'
  BY <1>8, CommitTypes DEF AsrCommit
<1>9. ASSUME NEW w \in Workers, AsrPost(w)
      PROVE  TypeOK'
  <2>1. own[w] \in Revisions /\ diarQ + 1 \in Nat
    BY <1>9 DEF AsrPost, KnownRevisions, Busy
  <2> QED
    BY <1>9, <2>1, ReleaseType DEF AsrPost
<1>10. ASSUME NEW w \in Workers, AsrRaise(w)
       PROVE  TypeOK'
  BY <1>10, SpendType, GotoType, ReleaseType DEF AsrRaise, Pc, Faults
<1>11. ASSUME NEW w \in Workers, AsrMarkFailed(w)
       PROVE  TypeOK'
  BY <1>11, MarkTypes, Handlers
<1>12. ASSUME NEW w \in Workers, DiarBegin(w)
       PROVE  TypeOK'
  <2>1. TakeDiar(w) /\ Goto(w, "download") /\ NextRevision \in Nat
    BY <1>12 DEF DiarBegin, NextRevision
  <2>2. PICK b \in Success : AddRow("asr_diarized", "none", "running", b)
    BY <1>12 DEF DiarBegin
  <2>3. rows' \in Seq(Row) /\ Revisions \subseteq Revisions'
    <3>1. /\ b \in Nat /\ "asr_diarized" \in Kind
          /\ "none" \in Tier /\ "running" \in Status
      BY DEF Success, Kind, Tier, Status
    <3> QED
      BY <2>2, <3>1, RowAdded
  <2>4. [task |-> "diarize"] \in Msg /\ diarQ - 1 \in Nat
    BY <2>1 DEF Msg, DiarMsg, TakeDiar
  <2> QED
    BY <1>12, <2>1, <2>3, <2>4, GotoType, DeliverType
       DEF DiarBegin, TakeDiar, Pc
<1>13. ASSUME NEW w \in Workers, DiarBeginRaises(w)
       PROVE  TypeOK'
  <2>1. [task |-> "diarize"] \in Msg /\ diarQ - 1 \in Nat
    BY <1>13 DEF Msg, DiarMsg, TakeDiar, DiarBeginRaises
  <2> QED
    BY <1>13, <2>1, SpendType, GotoType, DeliverType
       DEF DiarBeginRaises, TakeDiar, Pc, Faults
<1>14. ASSUME NEW w \in Workers, DiarDownload(w)
       PROVE  TypeOK'
  BY <1>14, GotoType DEF DiarDownload, Pc
<1>15. ASSUME NEW w \in Workers, DiarCommit(w)
       PROVE  TypeOK'
  BY <1>15, CommitTypes DEF DiarCommit
<1>16. ASSUME NEW w \in Workers, DiarPost(w)
       PROVE  TypeOK'
  BY <1>16, ReleaseType DEF DiarPost, KnownRevisions, Busy
<1>17. ASSUME NEW w \in Workers, DiarRaise(w)
       PROVE  TypeOK'
  BY <1>17, SpendType, GotoType DEF DiarRaise, Pc, Faults
<1>18. ASSUME NEW w \in Workers, DiarMarkFailed(w)
       PROVE  TypeOK'
  BY <1>18, MarkTypes, Handlers
<1>19. ASSUME NEW w \in Workers, Index(w)
       PROVE  TypeOK'
  BY <1>19, GotoType DEF Index, KnownRevisions, Busy, Pc
<1>20. ASSUME NEW w \in Workers, MarkRaises(w)
       PROVE  TypeOK'
  BY <1>20, SpendType, ReleaseType DEF MarkRaises, Faults
<1>21. ASSUME NEW w \in Workers, Redeliver(w)
       PROVE  TypeOK'
  <2>1. held[w] \in Msg
    OBVIOUS
  <2>2. /\ asrQ' \in [Sources -> Nat] /\ mergeQ' \subseteq MergeMsg
        /\ diarQ' \in Nat
    BY <1>21, <2>1, PutBackType DEF Redeliver
  <2> QED
    BY <1>21, <2>2, SpendType DEF Redeliver, PutBack, Faults
<1>22. ASSUME NEW w \in Workers, Crash(w)
       PROVE  TypeOK'
  <2>1. held[w] \in Msg
    OBVIOUS
  <2>2. /\ asrQ' \in [Sources -> Nat] /\ mergeQ' \subseteq MergeMsg
        /\ diarQ' \in Nat
    BY <1>22, <2>1, PutBackType DEF Crash
  <2>3. chord' = chord
    BY <1>22 DEF Crash, PutBack
  <2> QED
    BY <1>22, <2>2, <2>3, SpendType, ReleaseType DEF Crash, Faults
<1>23. ASSUME NEW w \in Workers, ChildLost(w)
       PROVE  TypeOK'
  BY <1>23, SpendType, ReleaseType DEF ChildLost, Faults
<1>24. ASSUME NEW r \in chord, NEW ok \in BOOLEAN, ChordReturns(r, ok)
       PROVE  TypeOK'
  <2>1. [task |-> "merge", rev |-> r, ok |-> ok] \in MergeMsg
    BY DEF MergeMsg
  <2> QED
    BY <1>24, <2>1, SpendType DEF ChordReturns, Faults
<1>25. ASSUME NEW r \in chord, ChordBreaks(r)
       PROVE  TypeOK'
  BY <1>25, SpendType DEF ChordBreaks, Faults
<1>26. ASSUME NEW c \in Clients, Upload(c)
       PROVE  TypeOK'
  BY <1>26, CallStepType, SpendType DEF Upload, Accept, CallPc, Requests
<1>27. ASSUME NEW c \in Clients, UploadStore(c)
       PROVE  TypeOK'
  BY <1>27, CallStepType DEF UploadStore, CallPc
<1>28. ASSUME NEW c \in Clients, UploadSend(c)
       PROVE  TypeOK'
  BY <1>28, CallStepType, EnqueueType DEF UploadSend, CallPc, Sources
<1>29. ASSUME NEW c \in Clients, Delete(c)
       PROVE  TypeOK'
  BY <1>29, CallStepType, SpendType DEF Delete, Accept, CallPc, Requests
<1>30. ASSUME NEW c \in Clients, DeleteCommit(c)
       PROVE  TypeOK'
  BY <1>30, CallStepType DEF DeleteCommit, CallPc
<1>31. ASSUME NEW c \in Clients, Snapshot(c)
       PROVE  TypeOK'
  <2>1. rows' \in Seq(Row) /\ Revisions \subseteq Revisions' /\ active' \in Nat
    <3>1. PICK r \in Revisions \cup {NextRevision} :
            /\ UNCHANGED rows \/ AddRow("asr", "fast", "success", 0)
            /\ active' = IF FinalRows = {} THEN r ELSE active
      BY <1>31 DEF Snapshot
    <3>2. r \in Nat
      BY DEF NextRevision
    <3>3. CASE AddRow("asr", "fast", "success", 0)
      BY <3>1, <3>2, <3>3, RowAdded DEF Kind, Tier, Status
    <3> QED
      BY <3>1, <3>2, <3>3
  <2> QED
    BY <1>31, <2>1, CallStepType, SpendType
       DEF Snapshot, Accept, CallPc, Requests
<1>32. ASSUME NEW c \in Clients, SnapshotStore(c)
       PROVE  TypeOK'
  BY <1>32, CallStepType DEF SnapshotStore, CallPc
<1>33. ASSUME NEW c \in Clients, Finalize(c)
       PROVE  TypeOK'
  BY <1>33, CallStepType, SpendType DEF Finalize, Accept, CallPc, Requests
<1>34. ASSUME NEW c \in Clients, FinalizeRow(c)
       PROVE  TypeOK'
  <2>1. AddRow("asr", "fast", "success", 0) /\ NextRevision \in Nat
    BY <1>34 DEF FinalizeRow, NextRevision
  <2>2. rows' \in Seq(Row) /\ Revisions \subseteq Revisions'
    BY <2>1, RowAdded DEF Kind, Tier, Status
  <2> QED
    BY <1>34, <2>1, <2>2, CallStepType DEF FinalizeRow, CallPc
<1>35. ASSUME NEW c \in Clients, FinalizeStore(c)
       PROVE  TypeOK'
  BY <1>35, CallStepType DEF FinalizeStore, CallPc
<1>36. ASSUME NEW c \in Clients, FinalizeSend(c)
       PROVE  TypeOK'
  BY <1>36, CallStepType, EnqueueType DEF FinalizeSend, CallPc, Sources
<1>37. ASSUME NEW c \in Clients, CallAborts(c)
       PROVE  TypeOK'
  BY <1>37, SpendType DEF CallAborts, CallPc, Faults
<1>38. ASSUME NEW s \in Sources, Retranscribe(s)
       PROVE  TypeOK'
  BY <1>38, SpendType, EnqueueType DEF Retranscribe, Requests
<1>39. ASSUME Diarize
       PROVE  TypeOK'
  <2>1. diarQ + 1 \in Nat
    OBVIOUS
  <2> QED
    BY <1>39, <2>1, SpendType DEF Diarize, Requests
<1>40. ASSUME RenameSpeakers
       PROVE  TypeOK'
  BY <1>40, SpendType DEF RenameSpeakers, Success, Requests
<1>41. CASE UNCHANGED vars
  BY <1>41 DEF vars
<1> QED
  BY <1>1, <1>2, <1>3, <1>4, <1>5, <1>6, <1>7, <1>8, <1>9, <1>10, <1>11,
     <1>12, <1>13, <1>14, <1>15, <1>16, <1>17, <1>18, <1>19, <1>20, <1>21,
     <1>22, <1>23, <1>24, <1>25, <1>26, <1>27, <1>28, <1>29, <1>30, <1>31,
     <1>32, <1>33, <1>34, <1>35, <1>36, <1>37, <1>38, <1>39, <1>40, <1>41
     DEF Next, WorkerStep, AsrStep, DiarStep, BrokerStep, ChordStep,
         RequestStep, ServeStep

-----------------------------------------------------------------------------
\* What the workers, the chord and the queued merges rely on.
Work == KnownRevisions /\ HeldMerge /\ ExclusiveRows /\ OpenRows /\ NoFastWork
        /\ RightKind

\* Steps that let go of work and start none: whoever still has a row after the
\* step had it before, and no row became a success.
LEMMA LessWork ==
  ASSUME IInv,
         Revisions \subseteq Revisions',
         \A r \in Revisions : NoSuccess(r),
         chord' \subseteq chord,
         MergeMsgs' \subseteq MergeMsgs,
         \A v \in Workers : Busy(v)' => Busy(v) /\ SameHands(v),
         \A v \in Workers : Writes(v)' => Writes(v),
         \A v \in Workers : held'[v].task = "merge" => held'[v] = held[v]
  PROVE  Work'
<1>1. \A v \in Workers : Writes(v)' => Busy(v)'
  BY DEF Writes, Busy
<1>2. chord \subseteq Revisions
  BY DEF IInv, TypeOK, QueueTypes
<1>3. KnownRevisions'
  BY DEF IInv, KnownRevisions
<1>4. HeldMerge'
  BY DEF IInv, HeldMerge
<1>5. ExclusiveRows'
  BY <1>1 DEF IInv, ExclusiveRows
<1>6. OpenRows'
  BY <1>1, <1>2 DEF IInv, OpenRows, KnownRevisions
<1>7. NoFastWork'
  BY <1>2 DEF IInv, NoFastWork, KnownRevisions
<1>8. RightKind'
  BY <1>2 DEF IInv, RightKind, KnownRevisions, KindOf
<1> QED
  BY <1>3, <1>4, <1>5, <1>6, <1>7, <1>8 DEF Work

\* A worker that lets go of its message has no row any more.
LEMMA Released ==
  ASSUME WorkerTypes, NEW w \in Workers, Release(w)
  PROVE  /\ ~Busy(w)' /\ held'[w] = NoMsg /\ held'[w].task # "merge"
         /\ \A v \in Workers \ {w} : pc'[v] = pc[v] /\ SameHands(v)
  BY DEF WorkerTypes, Release, Goto, Busy, NoMsg

\* A worker lets go of its message; the message may go back to the queue.
LEMMA LetGo ==
  ASSUME IInv, NEW w \in Workers, Release(w),
         Revisions \subseteq Revisions',
         \A r \in Revisions : NoSuccess(r),
         chord' \subseteq chord,
         mergeQ' \subseteq MergeMsgs
  PROVE  Work'
<1>1. /\ ~Busy(w)' /\ held'[w].task # "merge"
      /\ \A v \in Workers \ {w} : pc'[v] = pc[v] /\ SameHands(v)
  BY Released DEF IInv, TypeOK
<1>2. MergeMsgs' \subseteq MergeMsgs
  BY <1>1 DEF MergeMsgs, Merging
<1>3. \A v \in Workers : Busy(v)' => Busy(v) /\ SameHands(v)
  BY <1>1 DEF Busy
<1>4. \A v \in Workers : Writes(v)' => Writes(v)
  BY <1>1 DEF Writes, Busy
<1> QED
  BY <1>1, <1>2, <1>3, <1>4, LessWork

\* A worker goes on with the row it has, or to its handler.
LEMMA StillHeld ==
  ASSUME IInv, NEW w \in Workers, NEW l \in Pc, Goto(w, l),
         UNCHANGED <<held, own>>,
         l \in {"store", "commit"} => Writes(w),
         l \in {"index", "post"} => Busy(w),
         l \notin {"idle", "download"},
         Revisions \subseteq Revisions',
         \A r \in Revisions : NoSuccess(r),
         UNCHANGED <<chord, mergeQ>>
  PROVE  Work'
<1>1. \A v \in Workers : pc'[v] = IF v = w THEN l ELSE pc[v]
  BY DEF IInv, TypeOK, WorkerTypes, Goto
<1>2. MergeMsgs' = MergeMsgs
  BY DEF MergeMsgs, Merging
<1>3. \A v \in Workers : Busy(v)' => Busy(v) /\ SameHands(v)
  BY <1>1 DEF Busy, Writes, Pc
<1>4. \A v \in Workers : Writes(v)' => Writes(v)
  BY <1>1 DEF Writes, Pc
<1> QED
  BY <1>2, <1>3, <1>4, LessWork

\* The API adds rows and leaves the workers alone.
LEMMA NoWork ==
  ASSUME IInv, UNCHANGED <<chord, mergeQ, pc, held, own>>,
         Revisions \subseteq Revisions',
         \A r \in Revisions : rows'[r] = rows[r]
  PROVE  Work'
<1>1. MergeMsgs' = MergeMsgs
  BY DEF MergeMsgs, Merging
<1> QED
  BY <1>1, LessWork DEF Busy, Writes

\* A task starts with a row of its own.
LEMMA NewAttempt ==
  ASSUME IInv, NEW w \in Workers, pc[w] = "idle",
         NEW m \in Msg, m.task # "merge", Deliver(w, m),
         Goto(w, "download"), own' = [own EXCEPT ![w] = NextRevision],
         NEW k \in Kind, k = KindOf(w),
         NEW t \in Tier, t # "fast", NEW src \in Nat,
         AddRow(k, t, "running", src),
         UNCHANGED <<chord, mergeQ>>
  PROVE  Work'
<1>1. /\ NextRevision \notin Revisions
      /\ Revisions' = Revisions \cup {NextRevision}
      /\ \A r \in Revisions : rows'[r] = rows[r]
      /\ rows'[NextRevision].status = "running"
      /\ rows'[NextRevision].tier # "fast"
      /\ rows'[NextRevision].kind = KindOf(w)
  <2>1. rows \in Seq(Row) /\ "running" \in Status
    BY DEF IInv, TypeOK, TableTypes, Status
  <2>2. /\ Revisions' = Revisions \cup {NextRevision}
        /\ NextRevision \notin Revisions
        /\ \A r \in Revisions : rows'[r] = rows[r]
        /\ rows'[NextRevision] = [kind |-> k, tier |-> t,
                                  status |-> "running", src |-> src]
    BY ONLY <2>1, RowAdded, k \in Kind, t \in Tier, src \in Nat,
            AddRow(k, t, "running", src)
  <2> QED
    BY <2>2
<1>2. /\ pc'[w] = "download" /\ held'[w] = m /\ own'[w] = NextRevision
      /\ \A v \in Workers \ {w} : pc'[v] = pc[v] /\ SameHands(v)
  BY DEF IInv, TypeOK, WorkerTypes, Goto, Deliver
<1>3. MergeMsgs' \subseteq MergeMsgs
  BY <1>2 DEF MergeMsgs, Merging
<1>4. \A v \in Workers \ {w} : Writes(v)' = Writes(v) /\ Busy(v)' = Busy(v)
  BY <1>2 DEF Writes, Busy
<1>5. \A v \in Workers : Writes(v) => own[v] \in Revisions
  BY DEF IInv, KnownRevisions, Writes, Busy
<1>6. chord \subseteq Revisions
  BY DEF IInv, TypeOK, QueueTypes
<1>7. \A q \in MergeMsgs : q.rev \in Revisions
  BY DEF IInv, KnownRevisions
<1>8. KnownRevisions'
  BY <1>1, <1>2, <1>3, <1>4, <1>7 DEF IInv, KnownRevisions
<1>9. HeldMerge'
  BY <1>2, <1>4 DEF IInv, HeldMerge
<1>10. ExclusiveRows'
  BY <1>1, <1>2, <1>3, <1>4, <1>5, <1>6, <1>7 DEF IInv, ExclusiveRows
<1>11. OpenRows'
  BY <1>1, <1>2, <1>3, <1>4, <1>5, <1>6, <1>7 DEF IInv, OpenRows
<1>12. NoFastWork'
  BY <1>1, <1>2, <1>3, <1>4, <1>6, <1>7 DEF IInv, NoFastWork, KnownRevisions
<1>13. RightKind'
  BY <1>1, <1>2, <1>3, <1>4, <1>6, <1>7 DEF IInv, RightKind, KnownRevisions, KindOf
<1> QED
  BY <1>8, <1>9, <1>10, <1>11, <1>12, <1>13 DEF Work

\* A merge takes over the row that was handed to the chord.
LEMMA MergeBeginWork ==
  ASSUME IInv, NEW w \in Workers, NEW m \in mergeQ, MergeBegin(w, m)
  PROVE  Work'
<1>1. /\ pc'[w] = "store" /\ held'[w] = m /\ own'[w] = m.rev
      /\ \A v \in Workers \ {w} : pc'[v] = pc[v] /\ SameHands(v)
  BY DEF IInv, TypeOK, WorkerTypes, MergeBegin, Goto, Deliver
<1>2. m \in MergeMsgs /\ m.ok /\ m.task = "merge"
  BY DEF IInv, TypeOK, QueueTypes, MergeMsgs, Merging, MergeMsg, MergeBegin
<1>3. MergeMsgs' \subseteq MergeMsgs
  BY <1>1, <1>2 DEF MergeMsgs, Merging, MergeBegin
<1>4. \A v \in Workers \ {w} : Writes(v)' = Writes(v) /\ Busy(v)' = Busy(v)
  BY <1>1 DEF Writes, Busy
<1>5. rows' = rows /\ chord' = chord /\ Revisions' = Revisions
  BY DEF MergeBegin, convVars, Revisions
<1>6. \A v \in Workers : held[v].task = "merge" => held[v] \in MergeMsgs
  BY DEF MergeMsgs, Merging
<1>7. \A v \in Workers : Writes(v) => Busy(v)
  BY DEF Writes, Busy
<1>8. KnownRevisions'
  BY <1>1, <1>2, <1>3, <1>4, <1>5 DEF IInv, KnownRevisions
<1>9. HeldMerge'
  BY <1>1, <1>2, <1>4 DEF IInv, HeldMerge
<1>10. ExclusiveRows'
  <2>1. \A v \in Workers : Writes(v) /\ own[v] = m.rev => held[v] = m
    BY <1>2, <1>6, <1>7 DEF IInv, HeldMerge, ExclusiveRows
  <2> QED
    BY <1>1, <1>2, <1>3, <1>4, <1>5, <2>1 DEF IInv, ExclusiveRows
<1>11. OpenRows'
  BY <1>1, <1>2, <1>3, <1>4, <1>5 DEF IInv, OpenRows
<1>12. NoFastWork'
  BY <1>1, <1>2, <1>3, <1>4, <1>5 DEF IInv, NoFastWork
<1>13. RightKind'
  <2>1. KindOf(w) = "asr"
    BY DEF MergeBegin, KindOf
  <2> QED
    BY <1>1, <1>2, <1>3, <1>4, <1>5, <2>1 DEF IInv, RightKind, KindOf
<1> QED
  BY <1>8, <1>9, <1>10, <1>11, <1>12, <1>13 DEF Work

\* A row is handed to a chord.
LEMMA AsrHandOffWork ==
  ASSUME IInv, NEW w \in Workers, AsrHandOff(w)
  PROVE  Work'
<1>1. Writes(w) /\ Busy(w) /\ held[w].task # "merge"
  BY DEF AsrHandOff, Writes, Busy
<1>2. /\ ~Busy(w)' /\ held'[w].task # "merge"
      /\ \A v \in Workers \ {w} : pc'[v] = pc[v] /\ SameHands(v)
  BY Released DEF IInv, TypeOK, AsrHandOff
<1>3. rows' = rows /\ mergeQ' = mergeQ /\ Revisions' = Revisions
      /\ chord' = chord \cup {own[w]}
  BY DEF AsrHandOff, convVars, Revisions
<1>4. MergeMsgs' \subseteq MergeMsgs
  BY <1>2, <1>3 DEF MergeMsgs, Merging
<1>5. \A v \in Workers : /\ Writes(v)' => Writes(v) /\ v # w
                         /\ Busy(v)' => Busy(v) /\ v # w
  BY <1>2 DEF Writes, Busy
<1>6. KnownRevisions'
  BY <1>2, <1>3, <1>4, <1>5 DEF IInv, KnownRevisions
<1>7. HeldMerge'
  BY <1>2, <1>5 DEF IInv, HeldMerge
<1>8. ExclusiveRows'
  BY <1>1, <1>2, <1>3, <1>4, <1>5 DEF IInv, ExclusiveRows
<1>9. OpenRows'
  BY <1>1, <1>2, <1>3, <1>4, <1>5 DEF IInv, OpenRows
<1>10. NoFastWork'
  BY <1>1, <1>2, <1>3, <1>4, <1>5 DEF IInv, NoFastWork
<1>11. RightKind'
  <2>1. KindOf(w) = "asr"
    BY DEF AsrHandOff, KindOf
  <2> QED
    BY <1>1, <1>2, <1>3, <1>4, <1>5, <2>1 DEF IInv, RightKind, KindOf
<1> QED
  BY <1>6, <1>7, <1>8, <1>9, <1>10, <1>11 DEF Work

\* A result is committed: the row succeeds, and nobody else who could mark it
\* failed holds it.
LEMMA CommitWork ==
  ASSUME IInv, NEW w \in Workers, CommitOwn(w)
  PROVE  Work'
<1>1. Writes(w) /\ Busy(w) /\ own[w] \in Revisions
  BY DEF IInv, KnownRevisions, CommitOwn, Writes, Busy
<1>2. /\ Revisions' = Revisions
      /\ \A r \in Revisions : r # own[w] => rows'[r] = rows[r]
      /\ rows'[own[w]].tier = rows[own[w]].tier
      /\ rows'[own[w]].kind = rows[own[w]].kind
  BY <1>1, StatusSet DEF IInv, TypeOK, TableTypes, CommitOwn, Status
<1>3. pc'[w] = "index" /\ \A v \in Workers \ {w} : pc'[v] = pc[v]
  BY DEF IInv, TypeOK, WorkerTypes, CommitOwn, Goto
<1>4. held' = held /\ own' = own /\ chord' = chord /\ mergeQ' = mergeQ
  BY DEF CommitOwn, queueVars
<1>5. MergeMsgs' = MergeMsgs
  BY <1>4 DEF MergeMsgs, Merging
<1>6. \A v \in Workers : /\ Writes(v)' => Writes(v) /\ v # w
                         /\ Busy(v)' => Busy(v)
  BY <1>1, <1>3 DEF Writes, Busy
<1>7. KnownRevisions'
  BY <1>2, <1>4, <1>5, <1>6 DEF IInv, KnownRevisions
<1>8. HeldMerge'
  BY <1>4, <1>6 DEF IInv, HeldMerge
<1>9. ExclusiveRows'
  BY <1>4, <1>5, <1>6 DEF IInv, ExclusiveRows
<1>10. OpenRows'
  <2>1. own[w] \notin chord
    BY <1>1 DEF IInv, ExclusiveRows
  <2>2. ASSUME NEW v \in Workers, Writes(v), v # w, held[v].task # "merge"
        PROVE  own[v] # own[w] /\ own[v] \in Revisions
    BY <1>1, <2>2 DEF IInv, ExclusiveRows, KnownRevisions, Writes, Busy
  <2>3. ASSUME NEW m \in MergeMsgs, ~m.ok
        PROVE  m.rev # own[w] /\ m.rev \in Revisions
    <3>1. held[w].task = "merge" => /\ held[w] \in MergeMsgs
                                    /\ held[w].ok
                                    /\ own[w] = held[w].rev
      BY <1>1 DEF IInv, HeldMerge, MergeMsgs, Merging
    <3> QED
      BY <1>1, <2>3, <3>1 DEF IInv, ExclusiveRows, KnownRevisions
  <2>4. chord \subseteq Revisions
    BY DEF IInv, TypeOK, QueueTypes
  <2> QED
    BY <1>2, <1>4, <1>5, <1>6, <2>1, <2>2, <2>3, <2>4 DEF IInv, OpenRows
<1>11. NoFastWork'
  <2>1. \A r \in Revisions : rows'[r].tier = rows[r].tier
    BY <1>2
  <2>2. chord \subseteq Revisions /\ \A m \in MergeMsgs : m.rev \in Revisions
    BY DEF IInv, TypeOK, QueueTypes, KnownRevisions
  <2> QED
    BY <1>4, <1>5, <1>6, <2>1, <2>2 DEF IInv, NoFastWork, KnownRevisions
<1>12. RightKind'
  <2>1. \A r \in Revisions : rows'[r].kind = rows[r].kind
    BY <1>2
  <2>2. chord \subseteq Revisions /\ \A m \in MergeMsgs : m.rev \in Revisions
    BY DEF IInv, TypeOK, QueueTypes, KnownRevisions
  <2> QED
    BY <1>4, <1>5, <1>6, <2>1, <2>2 DEF IInv, RightKind, KnownRevisions, KindOf
<1> QED
  BY <1>7, <1>8, <1>9, <1>10, <1>11, <1>12 DEF Work

\* A chord hands its row to the merge.
LEMMA ChordReturnsWork ==
  ASSUME IInv, NEW r \in chord, NEW ok \in BOOLEAN, ChordReturns(r, ok)
  PROVE  Work'
<1> DEFINE new == [task |-> "merge", rev |-> r, ok |-> ok]
<1>1. new.rev = r /\ r \in Revisions
  BY DEF IInv, TypeOK, QueueTypes
<1>2. /\ rows' = rows /\ Revisions' = Revisions /\ chord' = chord \ {r}
      /\ mergeQ' = mergeQ \cup {new}
      /\ pc' = pc /\ held' = held /\ own' = own
  BY DEF ChordReturns, convVars, workerVars, Revisions
<1>3. MergeMsgs' = MergeMsgs \cup {new}
  BY <1>2 DEF MergeMsgs, Merging
<1>4. \A v \in Workers : Writes(v)' = Writes(v) /\ Busy(v)' = Busy(v)
  BY <1>2 DEF Writes, Busy
<1> HIDE DEF new
<1>5. KnownRevisions'
  BY <1>1, <1>2, <1>3, <1>4 DEF IInv, KnownRevisions
<1>6. HeldMerge'
  BY <1>2, <1>4 DEF IInv, HeldMerge
<1>7. ExclusiveRows'
  BY <1>1, <1>2, <1>3, <1>4 DEF IInv, ExclusiveRows
<1>8. OpenRows'
  BY <1>1, <1>2, <1>3, <1>4 DEF IInv, OpenRows
<1>9. NoFastWork'
  BY <1>1, <1>2, <1>3, <1>4 DEF IInv, NoFastWork
<1>10. RightKind'
  BY <1>1, <1>2, <1>3, <1>4 DEF IInv, RightKind, KindOf
<1> QED
  BY <1>5, <1>6, <1>7, <1>8, <1>9, <1>10 DEF Work

\* A task fails before it has a row.
LEMMA DropAttempt ==
  ASSUME IInv, NEW w \in Workers, NEW m, m.task # "merge",
         Deliver(w, m), Goto(w, "mark"),
         UNCHANGED <<rows, own, chord, mergeQ>>
  PROVE  Work'
<1>1. /\ pc'[w] = "mark" /\ held'[w] = m
      /\ \A v \in Workers \ {w} : pc'[v] = pc[v] /\ held'[v] = held[v]
  BY DEF IInv, TypeOK, WorkerTypes, Goto, Deliver
<1>2. MergeMsgs' \subseteq MergeMsgs
  BY <1>1 DEF MergeMsgs, Merging
<1>3. Revisions' = Revisions
  BY DEF Revisions
<1> QED
  BY <1>1, <1>2, <1>3, LessWork DEF Busy, Writes

\* The exception handlers mark no row a success.
LEMMA MarkWork ==
  ASSUME IInv, NEW w \in Workers,
         FindNewest(w, KindOf(w)) \/ MarkFound(w)
  PROVE  Work'
<1>1. CASE FindNewest(w, KindOf(w))
  <2>1. /\ rows' = rows /\ Revisions' = Revisions
        /\ UNCHANGED <<chord, mergeQ>>
    BY <1>1 DEF FindNewest, convVars, queueVars, Revisions
  <2>2. CASE Release(w)
    BY <2>1, <2>2, LetGo DEF MergeMsgs, Merging
  <2>3. CASE Goto(w, "failing") /\ UNCHANGED <<held, own>>
    BY <2>1, <2>3, StillHeld DEF Pc
  <2> QED
    BY <1>1, <2>2, <2>3 DEF FindNewest
<1>2. CASE MarkFound(w)
  <2>1. found[w] \in Revisions /\ SetStatus(found[w], "failed")
    BY <1>2 DEF IInv, FoundKnown, MarkFound
  <2>2. /\ Revisions' = Revisions
        /\ \A q \in Revisions : NoSuccess(q)
    BY <2>1, StatusSet DEF IInv, TypeOK, TableTypes, Status
  <2> QED
    BY <1>2, <2>2, LetGo DEF MarkFound, queueVars, MergeMsgs, Merging
<1> QED
  BY <1>1, <1>2

\* Every step keeps the rows exclusive and those in work open.
LEMMA WorkKept == IInv /\ [Next]_vars => Work'
<1> SUFFICES ASSUME IInv, [Next]_vars PROVE Work'
  OBVIOUS
<1> USE DEF convVars, queueVars, workerVars
<1>1. ASSUME NEW w \in Workers, NEW s \in Sources, AsrBegin(w, s)
      PROVE  Work'
  <2>1. [task |-> "asr", source |-> s] \in Msg
    BY DEF Msg, AsrMsg
  <2>2. "asr" \in Kind /\ "final" \in Tier /\ 0 \in Nat
    BY DEF Kind, Tier
  <2>3. "asr" = KindOf(w)
    BY <1>1 DEF AsrBegin, TakeAsr, KindOf
  <2> QED
    BY <1>1, <2>1, <2>2, <2>3, NewAttempt DEF AsrBegin, TakeAsr
<1>2. ASSUME NEW w \in Workers, NEW s \in Sources, AsrBeginRaises(w, s)
      PROVE  Work'
  BY <1>2, DropAttempt DEF AsrBeginRaises, TakeAsr
<1>3. ASSUME NEW w \in Workers, NEW m \in mergeQ, MergeBegin(w, m)
      PROVE  Work'
  BY <1>3, MergeBeginWork
<1>4. ASSUME NEW w \in Workers, NEW m \in mergeQ, MergeFails(w, m)
      PROVE  Work'
  <2>1. m.rev \in Revisions /\ SetStatus(m.rev, "failed")
    BY <1>4 DEF IInv, KnownRevisions, MergeMsgs, Merging, MergeFails
  <2>2. /\ Revisions' = Revisions
        /\ \A r \in Revisions : NoSuccess(r)
    BY <2>1, StatusSet DEF IInv, TypeOK, TableTypes, Status
  <2>3. MergeMsgs' \subseteq MergeMsgs
    BY <1>4 DEF MergeFails, MergeMsgs, Merging
  <2> QED
    BY <1>4, <2>2, <2>3, LessWork DEF MergeFails, Busy, Writes
<1>5. ASSUME NEW w \in Workers, AsrDownload(w)
      PROVE  Work'
  <2>1. Revisions' = Revisions /\ rows' = rows
    BY <1>5 DEF AsrDownload, Revisions
  <2> QED
    BY <1>5, <2>1, StillHeld DEF AsrDownload, Pc, Writes, Busy
<1>6. ASSUME NEW w \in Workers, AsrHandOff(w)
      PROVE  Work'
  BY <1>6, AsrHandOffWork
<1>7. ASSUME NEW w \in Workers, AsrStore(w)
      PROVE  Work'
  <2>1. Revisions' = Revisions /\ rows' = rows
    BY <1>7 DEF AsrStore, Revisions
  <2> QED
    BY <1>7, <2>1, StillHeld DEF AsrStore, Pc, Writes, Busy
<1>8. ASSUME NEW w \in Workers, AsrCommit(w)
      PROVE  Work'
  BY <1>8, CommitWork DEF AsrCommit
<1>9. ASSUME NEW w \in Workers, AsrPost(w)
      PROVE  Work'
  <2>1. Revisions' = Revisions /\ rows' = rows
    BY <1>9 DEF AsrPost, Revisions
  <2> QED
    BY <1>9, <2>1, LetGo DEF AsrPost, MergeMsgs, Merging
<1>10. ASSUME NEW w \in Workers, AsrRaise(w)
       PROVE  Work'
  <2>1. Revisions' = Revisions /\ rows' = rows
    BY <1>10 DEF AsrRaise, Revisions
  <2>2. CASE held[w].task = "asr"
    BY <1>10, <2>1, <2>2, StillHeld DEF AsrRaise, Pc
  <2>3. CASE held[w].task # "asr"
    BY <1>10, <2>1, <2>3, LetGo DEF AsrRaise, MergeMsgs, Merging
  <2> QED
    BY <2>2, <2>3
<1>11. ASSUME NEW w \in Workers, AsrMarkFailed(w)
       PROVE  Work'
  BY <1>11, MarkWork, Handlers
<1>12. ASSUME NEW w \in Workers, DiarBegin(w)
       PROVE  Work'
  <2>1. [task |-> "diarize"] \in Msg
    BY DEF Msg, DiarMsg
  <2>2. PICK b \in Success : AddRow("asr_diarized", "none", "running", b)
    BY <1>12 DEF DiarBegin
  <2>3. "asr_diarized" \in Kind /\ "none" \in Tier /\ b \in Nat
    BY DEF Kind, Tier, Success, Revisions
  <2>4. "asr_diarized" = KindOf(w)
    BY <1>12, DisjointWorkers DEF DiarBegin, TakeDiar, KindOf
  <2> QED
    BY <1>12, <2>1, <2>2, <2>3, <2>4, NewAttempt DEF DiarBegin, TakeDiar
<1>13. ASSUME NEW w \in Workers, DiarBeginRaises(w)
       PROVE  Work'
  BY <1>13, DropAttempt DEF DiarBeginRaises, TakeDiar
<1>14. ASSUME NEW w \in Workers, DiarDownload(w)
       PROVE  Work'
  <2>1. Revisions' = Revisions /\ rows' = rows
    BY <1>14 DEF DiarDownload, Revisions
  <2> QED
    BY <1>14, <2>1, StillHeld DEF DiarDownload, Pc, Writes, Busy
<1>15. ASSUME NEW w \in Workers, DiarCommit(w)
       PROVE  Work'
  BY <1>15, CommitWork DEF DiarCommit
<1>16. ASSUME NEW w \in Workers, DiarPost(w)
       PROVE  Work'
  <2>1. Revisions' = Revisions /\ rows' = rows
    BY <1>16 DEF DiarPost, Revisions
  <2> QED
    BY <1>16, <2>1, LetGo DEF DiarPost, MergeMsgs, Merging
<1>17. ASSUME NEW w \in Workers, DiarRaise(w)
       PROVE  Work'
  <2>1. Revisions' = Revisions /\ rows' = rows
    BY <1>17 DEF DiarRaise, Revisions
  <2> QED
    BY <1>17, <2>1, StillHeld DEF DiarRaise, Pc, Writes, Busy
<1>18. ASSUME NEW w \in Workers, DiarMarkFailed(w)
       PROVE  Work'
  BY <1>18, MarkWork, Handlers
<1>19. ASSUME NEW w \in Workers, Index(w)
       PROVE  Work'
  <2>1. Revisions' = Revisions /\ rows' = rows
    BY <1>19 DEF Index, Revisions
  <2> QED
    BY <1>19, <2>1, StillHeld DEF Index, Pc, Writes, Busy
<1>20. ASSUME NEW w \in Workers, MarkRaises(w)
       PROVE  Work'
  <2>1. Revisions' = Revisions /\ rows' = rows
    BY <1>20 DEF MarkRaises, Revisions
  <2> QED
    BY <1>20, <2>1, LetGo DEF MarkRaises, MergeMsgs, Merging
<1>21. ASSUME NEW w \in Workers, Redeliver(w)
       PROVE  Work'
  <2>1. MergeMsgs' = MergeMsgs
    BY <1>21 DEF Redeliver, PutBack, MergeMsgs, Merging
  <2>2. Revisions' = Revisions /\ rows' = rows
    BY <1>21 DEF Redeliver, Revisions
  <2> QED
    BY <1>21, <2>1, <2>2, LessWork DEF Redeliver, PutBack, Busy, Writes
<1>22. ASSUME NEW w \in Workers, Crash(w)
       PROVE  Work'
  <2>1. mergeQ' \subseteq MergeMsgs /\ chord' = chord
    BY <1>22 DEF Crash, PutBack, MergeMsgs, Merging
  <2>2. Revisions' = Revisions /\ rows' = rows
    BY <1>22 DEF Crash, Revisions
  <2> QED
    BY <1>22, <2>1, <2>2, LetGo DEF Crash
<1>23. ASSUME NEW w \in Workers, ChildLost(w)
       PROVE  Work'
  <2>1. Revisions' = Revisions /\ rows' = rows
    BY <1>23 DEF ChildLost, Revisions
  <2> QED
    BY <1>23, <2>1, LetGo DEF ChildLost, MergeMsgs, Merging
<1>24. ASSUME NEW r \in chord, NEW ok \in BOOLEAN, ChordReturns(r, ok)
       PROVE  Work'
  BY <1>24, ChordReturnsWork
<1>25. ASSUME NEW r \in chord, ChordBreaks(r)
       PROVE  Work'
  <2>1. Revisions' = Revisions /\ rows' = rows
    BY <1>25 DEF ChordBreaks, Revisions
  <2>2. MergeMsgs' = MergeMsgs
    BY <1>25 DEF ChordBreaks, MergeMsgs, Merging
  <2> QED
    BY <1>25, <2>1, <2>2, LessWork DEF ChordBreaks, Busy, Writes
<1>26. ASSUME NEW c \in Clients, Upload(c)
       PROVE  Work'
  <2>1. Revisions' = Revisions /\ rows' = rows
    BY <1>26 DEF Upload, Revisions
  <2> QED
    BY <1>26, <2>1, NoWork DEF Upload
<1>27. ASSUME NEW c \in Clients, UploadStore(c)
       PROVE  Work'
  <2>1. Revisions' = Revisions /\ rows' = rows
    BY <1>27 DEF UploadStore, Revisions
  <2> QED
    BY <1>27, <2>1, NoWork DEF UploadStore
<1>28. ASSUME NEW c \in Clients, UploadSend(c)
       PROVE  Work'
  <2>1. Revisions' = Revisions /\ rows' = rows
    BY <1>28 DEF UploadSend, Revisions
  <2> QED
    BY <1>28, <2>1, NoWork DEF UploadSend
<1>29. ASSUME NEW c \in Clients, Delete(c)
       PROVE  Work'
  <2>1. Revisions' = Revisions /\ rows' = rows
    BY <1>29 DEF Delete, Revisions
  <2> QED
    BY <1>29, <2>1, NoWork DEF Delete
<1>30. ASSUME NEW c \in Clients, DeleteCommit(c)
       PROVE  Work'
  <2>1. Revisions' = Revisions /\ rows' = rows
    BY <1>30 DEF DeleteCommit, Revisions
  <2> QED
    BY <1>30, <2>1, NoWork DEF DeleteCommit
<1>31. ASSUME NEW c \in Clients, Snapshot(c)
       PROVE  Work'
  <2>1. UNCHANGED rows \/ AddRow("asr", "fast", "success", 0)
    BY <1>31 DEF Snapshot
  <2>2. /\ Revisions \subseteq Revisions'
        /\ \A r \in Revisions : rows'[r] = rows[r]
    BY <2>1, RowAdded
       DEF IInv, TypeOK, TableTypes, Kind, Tier, Status, Revisions
  <2> QED
    BY <1>31, <2>2, NoWork DEF Snapshot
<1>32. ASSUME NEW c \in Clients, SnapshotStore(c)
       PROVE  Work'
  <2>1. Revisions' = Revisions /\ rows' = rows
    BY <1>32 DEF SnapshotStore, Revisions
  <2> QED
    BY <1>32, <2>1, NoWork DEF SnapshotStore
<1>33. ASSUME NEW c \in Clients, Finalize(c)
       PROVE  Work'
  <2>1. Revisions' = Revisions /\ rows' = rows
    BY <1>33 DEF Finalize, Revisions
  <2> QED
    BY <1>33, <2>1, NoWork DEF Finalize
<1>34. ASSUME NEW c \in Clients, FinalizeRow(c)
       PROVE  Work'
  <2>1. AddRow("asr", "fast", "success", 0)
    BY <1>34 DEF FinalizeRow
  <2>2. /\ Revisions \subseteq Revisions'
        /\ \A r \in Revisions : rows'[r] = rows[r]
    BY <2>1, RowAdded DEF IInv, TypeOK, TableTypes, Kind, Tier, Status
  <2> QED
    BY <1>34, <2>2, NoWork DEF FinalizeRow
<1>35. ASSUME NEW c \in Clients, FinalizeStore(c)
       PROVE  Work'
  <2>1. Revisions' = Revisions /\ rows' = rows
    BY <1>35 DEF FinalizeStore, Revisions
  <2> QED
    BY <1>35, <2>1, NoWork DEF FinalizeStore
<1>36. ASSUME NEW c \in Clients, FinalizeSend(c)
       PROVE  Work'
  <2>1. Revisions' = Revisions /\ rows' = rows
    BY <1>36 DEF FinalizeSend, Revisions
  <2> QED
    BY <1>36, <2>1, NoWork DEF FinalizeSend
<1>37. ASSUME NEW c \in Clients, CallAborts(c)
       PROVE  Work'
  <2>1. Revisions' = Revisions /\ rows' = rows
    BY <1>37 DEF CallAborts, Revisions
  <2> QED
    BY <1>37, <2>1, NoWork DEF CallAborts
<1>38. ASSUME NEW s \in Sources, Retranscribe(s)
       PROVE  Work'
  <2>1. Revisions' = Revisions /\ rows' = rows
    BY <1>38 DEF Retranscribe, Revisions
  <2> QED
    BY <1>38, <2>1, NoWork DEF Retranscribe
<1>39. ASSUME Diarize
       PROVE  Work'
  <2>1. Revisions' = Revisions /\ rows' = rows
    BY <1>39 DEF Diarize, Revisions
  <2> QED
    BY <1>39, <2>1, NoWork DEF Diarize
<1>40. ASSUME RenameSpeakers
       PROVE  Work'
  <2>1. Revisions' = Revisions /\ rows' = rows
    BY <1>40 DEF RenameSpeakers, Revisions
  <2> QED
    BY <1>40, <2>1, NoWork DEF RenameSpeakers
<1>41. CASE UNCHANGED vars
  BY <1>41, NoWork DEF vars, Revisions
<1> QED
  BY <1>1, <1>2, <1>3, <1>4, <1>5, <1>6, <1>7, <1>8, <1>9, <1>10, <1>11,
     <1>12, <1>13, <1>14, <1>15, <1>16, <1>17, <1>18, <1>19, <1>20, <1>21,
     <1>22, <1>23, <1>24, <1>25, <1>26, <1>27, <1>28, <1>29, <1>30, <1>31,
     <1>32, <1>33, <1>34, <1>35, <1>36, <1>37, <1>38, <1>39, <1>40, <1>41
     DEF Next, WorkerStep, AsrStep, DiarStep, BrokerStep, ChordStep,
         RequestStep, ServeStep

-----------------------------------------------------------------------------
\* Setting the status a row has changes nothing.
LEMMA SameStatus ==
  ASSUME rows \in Seq(Row), NEW r \in Revisions, SetStatus(r, rows[r].status)
  PROVE  rows' = rows
<1>1. rows[r] \in Row
  BY DEF Revisions
<1>2. [rows[r] EXCEPT !.status = rows[r].status] = rows[r]
  BY <1>1 DEF Row
<1> QED
  BY <1>2 DEF SetStatus, Revisions

\* The rows that handlers have found running.
Doomed == {found[w] : w \in Workers} \ {0}

\* A row added to the table is a version added to the history.
LEMMA AddedRow ==
  ASSUME rows \in Seq(Row),
         NEW k \in Kind, NEW t \in Tier, NEW st \in Status, NEW src \in Nat,
         AddRow(k, t, st, src)
  PROVE  Versions!Added(st)
<1>1. Len(rows') = NextRevision
  BY DEF AddRow, NextRevision
<1>2. rows'[NextRevision] = [kind |-> k, tier |-> t, status |-> st, src |-> src]
  BY DEF AddRow, NextRevision
<1> QED
  BY <1>1, <1>2 DEF AddRow, NextRevision, Versions!Added, Versions!NewVersion

\* What a step of the abstract specification keeps: the history grows, a success
\* that no handler has found stays one, and what is promoted is a success.
LEMMA HistoryKept ==
  ASSUME TypeOK, [Versions!Next]_<<rows, active, Doomed>>
  PROVE  /\ Revisions \subseteq Revisions'
         /\ \A r \in Revisions : /\ rows'[r].kind = rows[r].kind
                                 /\ rows'[r].tier = rows[r].tier
                                 /\ rows'[r].src = rows[r].src
                                 /\ r \in Success => r \in Success' \/ r \in Doomed
         /\ active' = active \/ active' \in Success'
<1>1. CASE UNCHANGED <<rows, active>>
  BY <1>1 DEF Revisions, Success
<1>2. ASSUME NEW st, Versions!Added(st)
      PROVE  /\ Revisions' = Revisions \cup {Versions!NewVersion}
             /\ \A r \in Revisions : rows'[r] = rows[r]
             /\ rows'[Versions!NewVersion].status = st
  BY <1>2 DEF TypeOK, TableTypes, Versions!Added, Versions!NewVersion, Revisions
<1>3. CASE Versions!Start
  BY <1>2, <1>3 DEF Versions!Start, Success
<1>4. CASE Versions!Publish
  BY <1>2, <1>4 DEF Versions!Publish, Success
<1>5. ASSUME NEW r \in Revisions, NEW st \in Status, Versions!Becomes(r, st)
      PROVE  /\ Revisions' = Revisions
             /\ \A q \in Revisions : q # r => rows'[q] = rows[q]
             /\ rows'[r].kind = rows[r].kind
             /\ rows'[r].tier = rows[r].tier
             /\ rows'[r].src = rows[r].src
             /\ rows'[r].status = st
  BY <1>5, StatusSet DEF TypeOK, TableTypes, Versions!Becomes, SetStatus
<1>6. DOMAIN rows = Revisions
  BY DEF TypeOK, TableTypes, Revisions
<1>7. CASE Versions!Complete
  BY <1>5, <1>6, <1>7 DEF Versions!Complete, Success, Status
<1>8. CASE Versions!Promote
  BY <1>6, <1>8 DEF Versions!Promote, Success, Revisions
<1>9. CASE Versions!Fail
  BY <1>5, <1>6, <1>9 DEF Versions!Fail, Success, Status, Doomed
<1>10. CASE Versions!Condemn \/ Versions!Forget
  BY <1>1, <1>10 DEF Versions!Condemn, Versions!Forget
<1> QED
  BY <1>1, <1>3, <1>4, <1>7, <1>8, <1>9, <1>10 DEF Versions!Next

\* The commit of a result completes or, for a merge delivered twice, promotes.
LEMMA CommitRefines ==
  ASSUME IInv, NEW w \in Workers, CommitOwn(w)
  PROVE  Versions!Next
<1>1. own[w] \in Revisions /\ DOMAIN rows = Revisions /\ rows[own[w]] \in Row
  BY DEF IInv, KnownRevisions, TypeOK, TableTypes, Revisions, CommitOwn, Busy
<1>2. CASE rows[own[w]].status = "success"
  <2>1. rows' = rows
    BY <1>1, <1>2, SameStatus DEF IInv, TypeOK, TableTypes, CommitOwn
  <2> QED
    BY <1>1, <1>2, <2>1 DEF CommitOwn, Versions!Promote, Versions!Next, Doomed
<1>3. CASE rows[own[w]].status \in {"running", "failed"}
  BY <1>1, <1>3
     DEF CommitOwn, SetStatus, Versions!Complete, Versions!Becomes, Versions!Next, Doomed
<1> QED
  BY <1>1, <1>2, <1>3 DEF Row, Status

\* A handler finds a running version, or none.
LEMMA FindRefines ==
  ASSUME IInv, NEW w \in Workers, FindNewest(w, KindOf(w))
  PROVE  Versions!Next
<1>1. DOMAIN rows = Revisions /\ found \in [Workers -> Nat] /\ found[w] = 0
  BY DEF IInv, TypeOK, TableTypes, WorkerTypes, Revisions, FoundKnown, FindNewest
<1>2. rows' = rows /\ active' = active
  BY DEF FindNewest, convVars
<1>3. ASSUME NEW r \in Running(KindOf(w)), found' = [found EXCEPT ![w] = r]
      PROVE  Versions!Condemn
  <2>1. r \in Revisions /\ rows[r].status = "running" /\ r # 0
    BY DEF Running, Revisions
  <2>2. Doomed' = Doomed \cup {r}
    <3>1. found'[w] = r /\ \A v \in Workers : v # w => found'[v] = found[v]
      BY <1>1, <1>3
    <3> QED
      BY <1>1, <2>1, <3>1 DEF Doomed
  <2> QED
    BY <1>1, <1>2, <2>1, <2>2 DEF Versions!Condemn, Doomed
<1>4. CASE Release(w)
  BY <1>1, <1>2, <1>4 DEF Release, Versions!Forget, Versions!Next, Doomed
<1> QED
  BY <1>3, <1>4 DEF FindNewest, Versions!Next

\* The handler fails the version it found, whatever became of it.
LEMMA MarkRefines ==
  ASSUME IInv, NEW w \in Workers, MarkFound(w)
  PROVE  Versions!Next
<1>1. DOMAIN rows = Revisions /\ found \in [Workers -> Nat]
  BY DEF IInv, TypeOK, TableTypes, WorkerTypes, Revisions
<1>2. found[w] \in Revisions /\ found[w] \in Doomed
  BY DEF IInv, FoundKnown, MarkFound, Doomed, Revisions
<1>3. Doomed' \subseteq Doomed
  BY <1>1 DEF MarkFound, Release, Doomed
<1> QED
  BY <1>1, <1>2, <1>3
  DEF MarkFound, SetStatus, Versions!Becomes, Versions!Fail, Versions!Next, Doomed

\* A merge with slice errors fails its version, which is no success.
LEMMA MergeFailsRefines ==
  ASSUME IInv, NEW w \in Workers, NEW m \in mergeQ, MergeFails(w, m)
  PROVE  [Versions!Next]_<<rows, active, Doomed>>
<1>1. m \in MergeMsgs /\ m.rev \in Revisions /\ rows[m.rev].status # "success"
  BY DEF IInv, KnownRevisions, OpenRows, MergeMsgs, Merging, MergeFails
<1>2. DOMAIN rows = Revisions /\ rows[m.rev] \in Row
  BY <1>1 DEF IInv, TypeOK, TableTypes, Revisions
<1>3. CASE rows[m.rev].status = "running"
  BY <1>1, <1>2, <1>3
     DEF MergeFails, SetStatus, Versions!Becomes, Versions!Fail, Versions!Next,
         workerVars, Doomed
<1>4. CASE rows[m.rev].status = "failed"
  <2>1. rows' = rows
    BY <1>1, <1>4, SameStatus DEF IInv, TypeOK, TableTypes, MergeFails
  <2> QED
    BY <2>1 DEF MergeFails, workerVars, Doomed
<1> QED
  BY <1>1, <1>2, <1>3, <1>4 DEF Row, Status

\* A realtime snapshot publishes the fast version or promotes it again.
LEMMA SnapshotRefines ==
  ASSUME IInv, NEW c \in Clients, Snapshot(c)
  PROVE  [Versions!Next]_<<rows, active, Doomed>>
<1>1. DOMAIN rows = Revisions /\ NextRevision = Versions!NewVersion
  BY DEF IInv, TypeOK, TableTypes, Revisions, NextRevision, Versions!NewVersion
<1>2. PICK r \in Revisions \cup {NextRevision} :
        /\ \/ IsLatest(r, FastSuccess) /\ UNCHANGED rows
           \/ /\ FastSuccess = {}
              /\ r = NextRevision
              /\ AddRow("asr", "fast", "success", 0)
        /\ active' = IF FinalRows = {} THEN r ELSE active
  BY DEF Snapshot
<1>d. Doomed' = Doomed
  BY DEF Snapshot, workerVars, Doomed
<1>3. CASE IsLatest(r, FastSuccess) /\ UNCHANGED rows
  <2>1. r \in Revisions /\ rows[r].status = "success"
    BY <1>3 DEF IsLatest, FastSuccess, Success
  <2> QED
    BY <1>1, <1>2, <1>3, <1>d, <2>1 DEF Versions!Promote, Versions!Next, Doomed
<1>4. CASE r = NextRevision /\ AddRow("asr", "fast", "success", 0)
  <2>1. Versions!Added("success")
    BY <1>4, AddedRow DEF IInv, TypeOK, TableTypes, Kind, Tier, Status
  <2> QED
    BY <1>1, <1>2, <1>4, <1>d, <2>1 DEF Versions!Publish, Versions!Next, Doomed
<1> QED
  BY <1>2, <1>3, <1>4

\* A task starts a version.
LEMMA BeginRefines ==
  ASSUME IInv, NEW k \in Kind, NEW t \in Tier, NEW src \in Nat,
         AddRow(k, t, "running", src), UNCHANGED <<active, found>>
  PROVE  Versions!Next
<1>1. Versions!Added("running")
  BY AddedRow DEF IInv, TypeOK, TableTypes, Status
<1> QED
  BY <1>1 DEF Versions!Start, Versions!Next, Doomed

\* Finalize publishes a fast version and promotes it.
LEMMA FinalizeRefines ==
  ASSUME IInv, NEW c \in Clients, FinalizeRow(c)
  PROVE  Versions!Next
<1>1. Versions!Added("success")
  BY AddedRow DEF IInv, TypeOK, TableTypes, Kind, Tier, Status, FinalizeRow
<1> QED
  BY <1>1
     DEF FinalizeRow, NextRevision, Versions!NewVersion, Versions!Publish,
         Versions!Next, workerVars, Doomed

\* The steps that write to the history, or find a row to write to.
Writing ==
  \/ \E w \in Workers :
       \/ \E s \in Sources : AsrBegin(w, s)
       \/ DiarBegin(w)
       \/ CommitOwn(w)
       \/ FindNewest(w, KindOf(w))
       \/ MarkFound(w)
       \/ \E m \in mergeQ : MergeFails(w, m)
  \/ \E c \in Clients : Snapshot(c) \/ FinalizeRow(c)

\* No other step writes to the history; at most a handler ends.
LEMMA HistoryWriters ==
  TypeOK /\ [Next]_vars
    => Writing \/ (UNCHANGED <<rows, active>> /\ Doomed' \subseteq Doomed)
<1> DEFINE Rest == UNCHANGED <<rows, active>> /\ Doomed' \subseteq Doomed
<1> SUFFICES ASSUME TypeOK, [Next]_vars PROVE Writing \/ Rest
  OBVIOUS
<1>s. ASSUME UNCHANGED <<rows, active, found>> PROVE Rest
  BY <1>s DEF Doomed
<1>r. ASSUME UNCHANGED <<rows, active>>, NEW w \in Workers, Release(w) PROVE Rest
  BY <1>r DEF Doomed, Release, TypeOK, WorkerTypes
<1> HIDE DEF Rest
<1> USE DEF convVars
<1>1. ASSUME NEW w \in Workers, AsrStep(w)
      PROVE  Writing \/ Rest
  <2>1. CASE AsrMarkFailed(w)
    BY <2>1, Handlers DEF Writing
  <2>2. CASE AsrHandOff(w) \/ AsrPost(w)
    BY <2>2, <1>r DEF AsrHandOff, AsrPost
  <2>3. CASE AsrRaise(w)
    BY <2>3, <1>r, <1>s DEF AsrRaise
  <2>4. CASE \E m \in mergeQ : MergeBegin(w, m)
    BY <2>4, <1>s DEF MergeBegin
  <2>5. CASE \E s \in Sources : AsrBeginRaises(w, s)
    BY <2>5, <1>s DEF AsrBeginRaises, TakeAsr
  <2>6. CASE AsrDownload(w) \/ AsrStore(w)
    BY <2>6, <1>s DEF AsrDownload, AsrStore
  <2> QED
    BY <1>1, <2>1, <2>2, <2>3, <2>4, <2>5, <2>6 DEF AsrStep, Writing, AsrCommit
<1>2. ASSUME NEW w \in Workers, DiarStep(w)
      PROVE  Writing \/ Rest
  <2>1. CASE DiarMarkFailed(w)
    BY <2>1, Handlers DEF Writing
  <2>2. CASE DiarPost(w)
    BY <2>2, <1>r DEF DiarPost
  <2>3. CASE DiarRaise(w) \/ DiarDownload(w)
    BY <2>3, <1>s DEF DiarRaise, DiarDownload
  <2>4. CASE DiarBeginRaises(w)
    BY <2>4, <1>s DEF DiarBeginRaises, TakeDiar
  <2> QED
    BY <1>2, <2>1, <2>2, <2>3, <2>4 DEF DiarStep, Writing, DiarCommit
<1>3. ASSUME NEW w \in Workers, Index(w) \/ MarkRaises(w) \/ BrokerStep(w)
      PROVE  Rest
  BY <1>3, <1>s, <1>r DEF Index, MarkRaises, BrokerStep, Redeliver, Crash, ChildLost
<1>4. ASSUME ChordStep
      PROVE  Rest
  BY <1>4, <1>s DEF ChordStep, ChordReturns, ChordBreaks, workerVars
<1>5. ASSUME NEW c \in Clients, RequestStep(c)
      PROVE  Writing \/ Rest
  BY <1>5, <1>s DEF RequestStep, Writing, Upload, Delete, Finalize, workerVars
<1>6. ASSUME NEW c \in Clients, ServeStep(c)
      PROVE  Writing \/ Rest
  BY <1>6, <1>s DEF ServeStep, Writing, UploadStore, UploadSend, DeleteCommit,
     SnapshotStore, FinalizeStore, FinalizeSend, CallAborts, workerVars
<1>7. ASSUME NEW s \in Sources, Retranscribe(s)
      PROVE  Rest
  BY <1>7, <1>s DEF Retranscribe, workerVars
<1>8. CASE Diarize \/ RenameSpeakers
  BY <1>8, <1>s DEF Diarize, RenameSpeakers, workerVars
<1>9. CASE UNCHANGED vars
  BY <1>9, <1>s DEF vars
<1> QED
  BY <1>1, <1>2, <1>3, <1>4, <1>5, <1>6, <1>7, <1>8, <1>9 DEF Next, WorkerStep

\* Every step is a step of the abstract specification or invisible to it.
LEMMA StepRefines == IInv /\ [Next]_vars => [Versions!Next]_<<rows, active, Doomed>>
<1> SUFFICES ASSUME IInv, Writing
             PROVE  [Versions!Next]_<<rows, active, Doomed>>
  <2>1. ASSUME UNCHANGED <<rows, active>>, Doomed' \subseteq Doomed
        PROVE  Versions!Next
    BY <2>1 DEF Versions!Next, Versions!Forget, Doomed
  <2> QED
    BY <2>1, HistoryWriters DEF IInv
<1>1. ASSUME NEW w \in Workers, NEW s \in Sources, AsrBegin(w, s)
      PROVE  Versions!Next
  BY <1>1, BeginRefines DEF AsrBegin, TakeAsr, Kind, Tier
<1>2. ASSUME NEW w \in Workers, DiarBegin(w)
      PROVE  Versions!Next
  <2>1. PICK b \in Success : AddRow("asr_diarized", "none", "running", b)
    BY <1>2 DEF DiarBegin
  <2>2. "asr_diarized" \in Kind /\ "none" \in Tier /\ b \in Nat
    BY DEF Kind, Tier, Success, Revisions
  <2> QED
    BY <1>2, <2>1, <2>2, BeginRefines DEF DiarBegin, TakeDiar
<1> QED
  BY <1>1, <1>2, CommitRefines, FindRefines, MarkRefines, MergeFailsRefines, SnapshotRefines,
     FinalizeRefines DEF Writing

\* A new row is an ASR row or names the successful row it is made from.
LEMMA NewRow ==
  ASSUME IInv, [Next]_vars, NEW r \in Revisions', r \notin Revisions
  PROVE  \/ rows'[r].kind = "asr"
         \/ /\ rows'[r].tier = "none"
            /\ rows'[r].src \in Success
            /\ rows'[r].src < r
<1> DEFINE Goal == \/ rows'[r].kind = "asr"
                   \/ /\ rows'[r].tier = "none"
                      /\ rows'[r].src \in Success
                      /\ rows'[r].src < r
<1>1. rows \in Seq(Row) /\ rows' # rows
  BY DEF IInv, TypeOK, TableTypes, Revisions
<1>2. Writing
  BY <1>1, HistoryWriters DEF IInv
<1>3. ASSUME NEW w \in Workers, DiarBegin(w)
      PROVE  Goal
  <2>1. PICK b \in Success : AddRow("asr_diarized", "none", "running", b)
    BY <1>3 DEF DiarBegin
  <2>2. /\ b \in Revisions /\ b \in Nat /\ "asr_diarized" \in Kind
        /\ "none" \in Tier /\ "running" \in Status
    BY DEF Success, Revisions, Kind, Tier, Status
  <2>3. /\ Revisions' = Revisions \cup {NextRevision}
        /\ b < NextRevision
        /\ rows'[NextRevision] = [kind |-> "asr_diarized", tier |-> "none",
                                  status |-> "running", src |-> b]
    BY ONLY <1>1, <2>1, <2>2, RowAdded
  <2> QED
    BY <2>3
<1>4. ASSUME NEW t \in Tier, NEW st \in Status, AddRow("asr", t, st, 0)
      PROVE  Goal
  <2>1. "asr" \in Kind /\ 0 \in Nat
    BY DEF Kind
  <2>2. /\ Revisions' = Revisions \cup {NextRevision}
        /\ rows'[NextRevision] = [kind |-> "asr", tier |-> t, status |-> st,
                                  src |-> 0]
    BY ONLY <1>1, <1>4, <2>1, t \in Tier, st \in Status, RowAdded
  <2> QED
    BY <2>2
<1>5. ASSUME NEW q, NEW st, SetStatus(q, st)
      PROVE  FALSE
  BY <1>1, <1>5 DEF SetStatus, Revisions
<1>6. ASSUME NEW w \in Workers,
             (\E s \in Sources : AsrBegin(w, s)) \/ CommitOwn(w)
               \/ FindNewest(w, KindOf(w)) \/ MarkFound(w)
               \/ (\E m \in mergeQ : MergeFails(w, m))
      PROVE  Goal
  BY <1>1, <1>4, <1>5, <1>6
     DEF AsrBegin, CommitOwn, FindNewest, MarkFound, MergeFails, Tier, Status, convVars
<1>7. ASSUME NEW c \in Clients, Snapshot(c) \/ FinalizeRow(c)
      PROVE  Goal
  BY <1>1, <1>4, <1>7 DEF Snapshot, FinalizeRow, Tier, Status
<1> QED
  BY <1>2, <1>3, <1>6, <1>7 DEF Writing

\* A step brings a worker to the row it is about to mark, leaves it there, or
\* leads it away.
LEMMA Failers ==
  ASSUME IInv, [Next]_vars, NEW w \in Workers
  PROVE  \/ pc'[w] # "failing" /\ found'[w] = 0
         \/ pc'[w] = "failing" /\ pc[w] = "failing" /\ found'[w] = found[w]
         \/ pc'[w] = "failing" /\ found'[w] \in Running(KindOf(w)) /\ UNCHANGED rows
<1> DEFINE Goal == \/ pc'[w] # "failing" /\ found'[w] = 0
                   \/ pc'[w] = "failing" /\ pc[w] = "failing" /\ found'[w] = found[w]
                   \/ /\ pc'[w] = "failing" /\ found'[w] \in Running(KindOf(w))
                      /\ UNCHANGED rows
<1> SUFFICES Goal
  OBVIOUS
<1>t. WorkerTypes /\ (pc[w] # "failing" => found[w] = 0)
  BY DEF IInv, TypeOK, FoundKnown
<1>s. ASSUME UNCHANGED <<pc, found>> PROVE Goal
  BY <1>s, <1>t
<1>g. ASSUME NEW v \in Workers, NEW l, l # "failing", Goto(v, l), pc[v] # "failing",
             UNCHANGED found
      PROVE  Goal
  BY <1>g, <1>t DEF Goto, WorkerTypes
<1>r. ASSUME NEW v \in Workers, Release(v) PROVE Goal
  BY <1>r, <1>t DEF Release, Goto, WorkerTypes
<1>f. ASSUME NEW v \in Workers, FindNewest(v, KindOf(v)) PROVE Goal
  <2>1. CASE Release(v)
    BY <2>1, <1>r
  <2>2. ASSUME NEW r \in Running(KindOf(v)), Goto(v, "failing"), UNCHANGED rows,
               found' = [found EXCEPT ![v] = r]
        PROVE  Goal
    BY <2>2, <1>t DEF Goto, WorkerTypes
  <2> QED
    BY <1>f, <2>1, <2>2 DEF FindNewest, convVars
<1> HIDE DEF Goal
<1>1. ASSUME NEW v \in Workers, AsrStep(v)
      PROVE  Goal
  <2>1. CASE AsrMarkFailed(v)
    BY <2>1, <1>f, <1>r, Handlers DEF MarkFound
  <2>2. CASE AsrHandOff(v) \/ AsrPost(v)
    BY <2>2, <1>r DEF AsrHandOff, AsrPost
  <2>3. CASE AsrRaise(v)
    BY <2>3, <1>r, <1>g DEF AsrRaise
  <2>4. CASE \E m \in mergeQ : MergeBegin(v, m)
    BY <2>4, <1>g DEF MergeBegin
  <2>5. CASE \E s \in Sources : AsrBegin(v, s) \/ AsrBeginRaises(v, s)
    BY <2>5, <1>g DEF AsrBegin, AsrBeginRaises, TakeAsr
  <2>6. CASE AsrDownload(v) \/ AsrStore(v) \/ AsrCommit(v)
    BY <2>6, <1>g DEF AsrDownload, AsrStore, AsrCommit, CommitOwn
  <2>7. CASE \E m \in mergeQ : MergeFails(v, m)
    BY <2>7, <1>s DEF MergeFails, workerVars
  <2> QED
    BY <1>1, <2>1, <2>2, <2>3, <2>4, <2>5, <2>6, <2>7 DEF AsrStep
<1>2. ASSUME NEW v \in Workers, DiarStep(v)
      PROVE  Goal
  <2>1. CASE DiarMarkFailed(v)
    BY <2>1, <1>f, <1>r, Handlers DEF MarkFound
  <2>2. CASE DiarPost(v)
    BY <2>2, <1>r DEF DiarPost
  <2>3. CASE DiarRaise(v) \/ DiarDownload(v) \/ DiarCommit(v)
    BY <2>3, <1>g DEF DiarRaise, DiarDownload, DiarCommit, CommitOwn
  <2>4. CASE DiarBegin(v) \/ DiarBeginRaises(v)
    BY <2>4, <1>g DEF DiarBegin, DiarBeginRaises, TakeDiar
  <2> QED
    BY <1>2, <2>1, <2>2, <2>3, <2>4 DEF DiarStep
<1>3. ASSUME NEW v \in Workers, Index(v) \/ MarkRaises(v) \/ BrokerStep(v)
      PROVE  Goal
  BY <1>3, <1>s, <1>r, <1>g DEF Index, MarkRaises, BrokerStep, Redeliver, Crash, ChildLost
<1>4. ASSUME ChordStep
      PROVE  Goal
  BY <1>4, <1>s DEF ChordStep, ChordReturns, ChordBreaks, workerVars
<1>5. ASSUME NEW c \in Clients, RequestStep(c)
      PROVE  Goal
  BY <1>5, <1>s DEF RequestStep, Upload, Delete, Snapshot, Finalize, workerVars
<1>6. ASSUME NEW c \in Clients, ServeStep(c)
      PROVE  Goal
  BY <1>6, <1>s DEF ServeStep, UploadStore, UploadSend, DeleteCommit, FinalizeRow,
     SnapshotStore, FinalizeStore, FinalizeSend, CallAborts, workerVars
<1>7. ASSUME NEW s \in Sources, Retranscribe(s)
      PROVE  Goal
  BY <1>7, <1>s DEF Retranscribe, workerVars
<1>8. CASE Diarize \/ RenameSpeakers
  BY <1>8, <1>s DEF Diarize, RenameSpeakers, workerVars
<1>9. CASE UNCHANGED vars
  BY <1>9, <1>s DEF vars
<1> QED
  BY <1>1, <1>2, <1>3, <1>4, <1>5, <1>6, <1>7, <1>8, <1>9 DEF Next, WorkerStep

\* What is shown and what handlers found stays in the history.
LEMMA ShownKept ==
  IInv /\ [Next]_vars => (FoundKnown /\ ActiveKnown /\ FinalIsAsr)'
<1> SUFFICES ASSUME IInv, [Next]_vars
             PROVE  (FoundKnown /\ ActiveKnown /\ FinalIsAsr)'
  OBVIOUS
<1>1. /\ Revisions \subseteq Revisions'
      /\ \A r \in Revisions : /\ rows'[r].kind = rows[r].kind
                              /\ rows'[r].tier = rows[r].tier
      /\ active' = active \/ active' \in Success'
  BY StepRefines, HistoryKept DEF IInv
<1>2. ActiveKnown'
  BY <1>1 DEF IInv, ActiveKnown, Success
<1>3. FoundKnown'
  <2>1. ASSUME NEW w \in Workers, pc'[w] = "failing"
        PROVE  found'[w] \in Revisions /\ rows[found'[w]].kind = KindOf(w)
    BY <2>1, Failers DEF IInv, FoundKnown, Running
  <2>2. ASSUME NEW w \in Workers, pc'[w] # "failing"
        PROVE  found'[w] = 0
    BY <2>2, Failers
  <2> QED
    BY <1>1, <2>1, <2>2 DEF FoundKnown, KindOf
<1>4. FinalIsAsr'
  BY <1>1, NewRow DEF IInv, FinalIsAsr
<1> QED
  BY <1>2, <1>3, <1>4

\* The strengthened invariant is an invariant: what the workers, the chord, the
\* merges and the handlers refer to exists and is of their kind, and no two
\* attempts share a row.
THEOREM Invariance == Spec => []IInv
<1>1. IInv /\ [Next]_vars => IInv'
  BY TypesKept, WorkKept, ShownKept DEF IInv, Work
<1> QED
  BY <1>1, Initially, PTL DEF Spec

\* Every variable has a value of its type.
THEOREM TypeCorrect == Spec => []TypeOK
<1>1. IInv => TypeOK
  BY DEF IInv
<1> QED
  BY <1>1, Invariance, PTL

\* Every delivery of a task works on a row of its own.
THEOREM AttemptsSafe == Spec => []OneAttemptPerRow
<1>1. IInv => OneAttemptPerRow
  BY DEF IInv, ExclusiveRows, OneAttemptPerRow, MergeMsgs, Merging
<1> QED
  BY <1>1, Invariance, PTL

\* The pipeline implements what is left of the design of versioning, however many
\* workers there are: the history only grows, only a success is promoted, in the
\* step in which it succeeds, and a success is lost only to a handler that had
\* found the row while it was running.
THEOREM Implementation == Spec => ImplementsVersions
<1>1. Init => Versions!Init
  BY DEF Init, Versions!Init
<1>2. IInv /\ [Next]_vars => [Versions!Next]_<<rows, active, Doomed>>
  BY StepRefines
<1> QED
  BY <1>1, <1>2, Invariance, PTL
     DEF Spec, ImplementsVersions, Versions!Spec, Versions!vvars, Doomed

\* A realtime snapshot promotes the fast row only before a final attempt exists,
\* and no task commits a fast row: only finalize shows a fast row again.
THEOREM SnapshotsSafe == Spec => SnapshotsHideNothing
<1> USE DEF HidesFinal, Finalizes
<1>1. ASSUME IInv, [Next]_vars, HidesFinal
      PROVE  Finalizes
  <2>1. active \in Revisions /\ rows'[active].tier = rows[active].tier
    BY <1>1, StepRefines, HistoryKept DEF IInv, ActiveKnown
  <2>2. Writing /\ active' # active
    BY <1>1, <2>1, HistoryWriters DEF IInv
  <2>3. ASSUME NEW w \in Workers, CommitOwn(w)
        PROVE  FALSE
    <3>1. own[w] \in Revisions /\ rows[own[w]].tier # "fast" /\ active' = own[w]
      BY <1>1, <2>3 DEF IInv, KnownRevisions, NoFastWork, CommitOwn, Busy
    <3>2. rows'[own[w]].tier = rows[own[w]].tier
      BY <1>1, <3>1, StepRefines, HistoryKept DEF IInv
    <3> QED
      BY <1>1, <3>1, <3>2
  <2>4. ASSUME NEW c \in Clients, Snapshot(c)
        PROVE  FALSE
    <3>1. FinalRows # {}
      BY <1>1 DEF FinalSuccess, Success, FinalRows, IInv, FinalIsAsr
    <3> QED
      BY <2>2, <2>4, <3>1 DEF Snapshot
  <2>5. ASSUME NEW c \in Clients, FinalizeRow(c)
        PROVE  Finalizes
    BY <1>1, <2>5 DEF FinalizeRow, CallStep, IInv, TypeOK, CallTypes
  <2> QED
    BY <2>2, <2>3, <2>4, <2>5
       DEF Writing, AsrBegin, TakeAsr, DiarBegin, TakeDiar, FindNewest, MarkFound,
           MergeFails, convVars
<1>2. IInv /\ [Next]_vars => [HidesFinal => Finalizes]_vars
  BY <1>1
<1> HIDE DEF HidesFinal, Finalizes
<1> QED
  BY <1>2, Invariance, PTL DEF Spec, SnapshotsHideNothing

-----------------------------------------------------------------------------
(***************************************************************************)
(* With one worker for each kind of row a row that a handler has found     *)
(* cannot succeed before the handler is done with it, whatever is lost,    *)
(* raises, restarts or is delivered twice, and with parallel slices too.   *)
(***************************************************************************)
One(W) == \A v, w \in W : v = w

\* A row that a handler is about to mark failed is no success.
FoundOpen ==
  \A w \in Workers : pc[w] = "failing" => rows[found[w]].status # "success"

SoloInv == FoundOpen /\ ActiveIsSuccess /\ DerivedFromSuccess

\* A row of the history becomes a success only by the commit of a worker that
\* writes it.
LEMMA Succeeds ==
  ASSUME IInv, [Next]_vars, NEW r \in Revisions,
         rows[r].status # "success", rows'[r].status = "success"
  PROVE  \E w \in Workers : CommitOwn(w) /\ own[w] = r
<1>1. Writing
  BY HistoryWriters DEF IInv
<1>t. rows \in Seq(Row) /\ "success" \in Status /\ "failed" \in Status
  BY DEF IInv, TypeOK, TableTypes, Status
<1>2. ASSUME NEW k \in Kind, NEW t \in Tier, NEW st \in Status, NEW src \in Nat,
             AddRow(k, t, st, src)
      PROVE  FALSE
  <2>1. rows'[r] = rows[r]
    BY <1>2, <1>t, RowAdded
  <2> QED
    BY <2>1
<1>3. ASSUME NEW q \in Revisions, SetStatus(q, "failed")
      PROVE  FALSE
  <2>1. rows'[r] = rows[r] \/ rows'[r].status = "failed"
    BY <1>3, <1>t, StatusSet
  <2> QED
    BY <2>1
<1>4. ASSUME NEW w \in Workers, (\E s \in Sources : AsrBegin(w, s)) \/ DiarBegin(w)
      PROVE  FALSE
  <2>1. CASE \E s \in Sources : AsrBegin(w, s)
    BY <1>2, <2>1 DEF AsrBegin, Kind, Tier, Status
  <2>2. CASE DiarBegin(w)
    <3>1. PICK b \in Success : AddRow("asr_diarized", "none", "running", b)
      BY <2>2 DEF DiarBegin
    <3>2. /\ b \in Nat /\ "asr_diarized" \in Kind
          /\ "none" \in Tier /\ "running" \in Status
      BY DEF Success, Revisions, Kind, Tier, Status
    <3> QED
      BY <3>1, <3>2, <1>2
  <2> QED
    BY <1>4, <2>1, <2>2
<1>5. ASSUME NEW w \in Workers, CommitOwn(w)
      PROVE  own[w] = r
  <2>1. own[w] \in Revisions /\ SetStatus(own[w], "success")
    BY <1>5 DEF IInv, KnownRevisions, CommitOwn, Busy
  <2> QED
    BY <2>1, <1>t, StatusSet
<1>6. ASSUME NEW w \in Workers, MarkFound(w)
      PROVE  FALSE
  BY <1>6, <1>3 DEF IInv, FoundKnown, MarkFound
<1>7. ASSUME NEW w \in Workers, NEW m \in mergeQ, MergeFails(w, m)
      PROVE  FALSE
  BY <1>7, <1>3 DEF IInv, KnownRevisions, MergeMsgs, MergeFails
<1>8. ASSUME NEW c \in Clients, Snapshot(c) \/ FinalizeRow(c)
      PROVE  FALSE
  BY <1>8, <1>2 DEF Snapshot, FinalizeRow, Kind, Tier, Status
<1>9. ASSUME NEW w \in Workers, FindNewest(w, KindOf(w))
      PROVE  FALSE
  BY <1>9 DEF FindNewest, convVars
<1> QED
  BY <1>1, <1>4, <1>5, <1>6, <1>7, <1>8, <1>9 DEF Writing

\* The only worker of a kind is not committing while its handler runs.
LEMMA FoundOpenKept ==
  ASSUME One(AsrWorkers), One(DiarWorkers), IInv, FoundOpen, [Next]_vars
  PROVE  FoundOpen'
<1> SUFFICES ASSUME NEW w \in Workers, pc'[w] = "failing"
             PROVE  rows'[found'[w]].status # "success"
  BY DEF FoundOpen
<1>1. CASE found'[w] \in Running(KindOf(w)) /\ UNCHANGED rows
  BY <1>1 DEF Running
<1>2. CASE pc[w] = "failing" /\ found'[w] = found[w]
  <2>1. /\ found[w] \in Revisions /\ rows[found[w]].kind = KindOf(w)
        /\ rows[found[w]].status # "success"
    BY <1>2 DEF IInv, FoundKnown, FoundOpen
  <2>2. ASSUME NEW v \in Workers, CommitOwn(v), own[v] = found[w]
        PROVE  FALSE
    <3>1. KindOf(v) = KindOf(w)
      BY <2>1, <2>2 DEF IInv, RightKind, CommitOwn, Busy
    <3>2. v = w
      BY <3>1 DEF KindOf, One, Workers
    <3> QED
      BY <1>2, <2>2, <3>2 DEF CommitOwn
  <2> QED
    BY <1>2, <2>1, <2>2, Succeeds
<1> QED
  BY <1>1, <1>2, Failers

\* What is shown, and what a diarized row was made from, stays a success.
LEMMA SoloKept ==
  ASSUME One(AsrWorkers), One(DiarWorkers), IInv, SoloInv, [Next]_vars
  PROVE  SoloInv'
<1>1. /\ Revisions \subseteq Revisions'
      /\ \A r \in Revisions : /\ rows'[r].kind = rows[r].kind
                              /\ rows'[r].src = rows[r].src
                              /\ r \in Success => r \in Success' \/ r \in Doomed
      /\ active' = active \/ active' \in Success'
  BY StepRefines, HistoryKept DEF IInv
<1>2. Success \subseteq Success'
  <2>1. \A r \in Doomed : r \notin Success
    BY DEF Doomed, SoloInv, FoundOpen, IInv, FoundKnown, Success
  <2> QED
    BY <1>1, <2>1 DEF Success
<1>3. ActiveIsSuccess'
  BY <1>1, <1>2 DEF SoloInv, ActiveIsSuccess
<1>4. DerivedFromSuccess'
  <2>1. ASSUME NEW r \in Diarized'
        PROVE  rows'[r].src \in Success' /\ rows'[r].src < r
    <3>1. r \in Revisions' /\ rows'[r].kind = "asr_diarized"
      BY <2>1 DEF Diarized
    <3>2. CASE r \in Revisions
      BY <1>1, <1>2, <3>1, <3>2 DEF SoloInv, DerivedFromSuccess, Diarized
    <3>3. CASE r \notin Revisions
      BY <1>2, <3>1, <3>3, NewRow
    <3> QED
      BY <3>2, <3>3
  <2> QED
    BY <2>1 DEF DerivedFromSuccess
<1> QED
  BY <1>3, <1>4, FoundOpenKept DEF SoloInv

\* Before anything happened nothing is shown.
LEMMA SoloInit == Init => SoloInv
  BY DEF Init, SoloInv, FoundOpen, ActiveIsSuccess, DerivedFromSuccess, Diarized, Revisions

\* With one worker for each kind of row active_transcript_id is NULL or a row that
\* succeeded, whatever tasks fail, crash or are delivered twice. Two workers break
\* this (run lostsuccess).
THEOREM ActiveSafe ==
  ASSUME One(AsrWorkers), One(DiarWorkers)
  PROVE  Spec => []ActiveIsSuccess
<1>1. IInv /\ SoloInv /\ [Next]_vars => SoloInv'
  BY SoloKept
<1>2. SoloInv => ActiveIsSuccess
  BY DEF SoloInv
<1> QED
  BY <1>1, <1>2, SoloInit, Invariance, PTL DEF Spec

\* With one worker for each kind of row the base of every diarized row is an earlier
\* row that is still a success.
THEOREM DerivedSafe ==
  ASSUME One(AsrWorkers), One(DiarWorkers)
  PROVE  Spec => []DerivedFromSuccess
<1>1. IInv /\ SoloInv /\ [Next]_vars => SoloInv'
  BY SoloKept
<1>2. SoloInv => DerivedFromSuccess
  BY DEF SoloInv
<1> QED
  BY <1>1, <1>2, SoloInit, Invariance, PTL DEF Spec

-----------------------------------------------------------------------------
(***************************************************************************)
(* With one worker of each kind, no parallel slices and no fault that ends *)
(* a task before its handler has marked its row, a row that is running is  *)
(* never left alone. Redeliveries and exceptions may happen at any time.   *)
(***************************************************************************)

\* The faults that bypass the handler.
Silent == {"crash", "lost", "handler"}

\* Nobody is handed a row by somebody else, and every task has its handler.
Plain ==
  /\ \A f \in Silent : budget[f] = 0
  /\ chord = {} /\ mergeQ = {}
  /\ \A w \in Workers : held[w].task # "merge"
  /\ \A w \in AsrWorkers : pc[w] # "idle" => held[w].task = "asr"

\* Every running row of the kind is in the hands of one of the workers.
Tended(k, W) == \A r \in Running(k) : \E w \in W : own[w] = r /\ Tends(w)

\* The workers that write rows of kind k.
Team(k, W) == \/ k = "asr" /\ W = AsrWorkers
              \/ k = "asr_diarized" /\ W = DiarWorkers

\* A row that a handler has found is the one its task made.
FoundOwn(W) == \A w \in W : pc[w] = "failing" => found[w] = own[w]

\* The handler of worker w ends: it marks the row it found, or finds none.
Marks(w) == \/ MarkFound(w)
            \/ FindNewest(w, KindOf(w)) /\ Running(KindOf(w)) = {}

\* Before anything happened nothing runs.
LEMMA PlainInit ==
  ASSUME Init, \A b \in Budgets, f \in Silent : b[f] = 0
  PROVE  /\ Plain /\ Tended("asr", AsrWorkers) /\ Tended("asr_diarized", DiarWorkers)
         /\ FoundOwn(AsrWorkers) /\ FoundOwn(DiarWorkers)
<1>1. Revisions = {}
  BY DEF Init, Revisions
<1>2. Plain
  BY DEF Init, Plain, NoMsg, Workers
<1>3. FoundOwn(AsrWorkers) /\ FoundOwn(DiarWorkers)
  BY DEF Init, FoundOwn, Workers
<1> QED
  BY <1>1, <1>2, <1>3 DEF Tended, Running

\* A fault that cannot happen any more does not happen later.
LEMMA SilentSpent ==
  ASSUME TypeOK, Plain, NEW k \in Requests \cup Faults, Spend(k)
  PROVE  k \notin Silent /\ \A f \in Silent : budget'[f] = 0
<1>1. Silent \subseteq Requests \cup Faults
  BY DEF Silent, Faults
<1>2. k \notin Silent
  BY DEF Plain, Spend
<1> QED
  BY <1>1, <1>2 DEF Plain, Spend, TypeOK, CallTypes

\* A worker that lets go leaves the others as they are.
LEMMA PlainRelease ==
  ASSUME TypeOK, Plain, NEW w \in Workers, Release(w)
  PROVE  /\ \A v \in Workers : held'[v].task # "merge"
         /\ \A v \in AsrWorkers : pc'[v] # "idle" => held'[v].task = "asr"
<1>1. /\ held'[w].task # "merge" /\ pc'[w] = "idle"
      /\ \A v \in Workers \ {w} : pc'[v] = pc[v] /\ held'[v] = held[v]
  BY DEF TypeOK, WorkerTypes, Release, Goto, NoMsg
<1> QED
  BY <1>1 DEF Plain, Workers

\* A worker with a message moves on.
LEMMA PlainGoto ==
  ASSUME TypeOK, Plain, NEW w \in Workers, NEW l, Goto(w, l), pc[w] # "idle", held' = held
  PROVE  /\ \A v \in Workers : held'[v].task # "merge"
         /\ \A v \in AsrWorkers : pc'[v] # "idle" => held'[v].task = "asr"
<1>1. \A v \in Workers \ {w} : pc'[v] = pc[v]
  BY DEF TypeOK, WorkerTypes, Goto
<1> QED
  BY <1>1 DEF Plain, Workers

\* A worker takes a message.
LEMMA PlainTake ==
  ASSUME TypeOK, Plain, NEW w \in Workers, NEW m, NEW l,
         Deliver(w, m), Goto(w, l), m.task # "merge", w \in AsrWorkers => m.task = "asr"
  PROVE  /\ \A v \in Workers : held'[v].task # "merge"
         /\ \A v \in AsrWorkers : pc'[v] # "idle" => held'[v].task = "asr"
<1>1. /\ held'[w] = m
      /\ \A v \in Workers \ {w} : pc'[v] = pc[v] /\ held'[v] = held[v]
  BY DEF TypeOK, WorkerTypes, Goto, Deliver
<1> QED
  BY <1>1 DEF Plain, Workers

\* The workers stay as they are.
LEMMA PlainIdle ==
  ASSUME Plain, UNCHANGED <<pc, held>>
  PROVE  /\ \A v \in Workers : held'[v].task # "merge"
         /\ \A v \in AsrWorkers : pc'[v] # "idle" => held'[v].task = "asr"
  BY DEF Plain

\* No step brings in a merge or a fault that bypasses the handler.
LEMMA PlainKept ==
  ASSUME ~ParallelChunks, IInv, Plain, [Next]_vars
  PROVE  Plain'
<1> DEFINE Quiet == \A f \in Silent : budget'[f] = 0
<1> DEFINE Empty == chord' = {} /\ mergeQ' = {}
<1> DEFINE Holds == /\ \A v \in Workers : held'[v].task # "merge"
                    /\ \A v \in AsrWorkers : pc'[v] # "idle" => held'[v].task = "asr"
<1> SUFFICES Quiet /\ Empty /\ Holds
  BY DEF Plain
<1>t. TypeOK
  BY DEF IInv
<1>s. ASSUME NEW k \in Requests \cup Faults, Spend(k) PROVE Quiet
  BY <1>s, <1>t, SilentSpent
<1>u. ASSUME UNCHANGED budget PROVE Quiet
  BY <1>u DEF Plain
<1>n. \A w \in Workers : held[w].task # "merge"
  BY DEF Plain
<1>e. ASSUME UNCHANGED <<chord, mergeQ>> PROVE Empty
  BY <1>e DEF Plain
<1>i. ASSUME UNCHANGED <<pc, held>> PROVE Holds
  BY <1>i, PlainIdle
<1>l. ASSUME NEW w \in Workers, Release(w) PROVE Holds
  BY <1>l, <1>t, PlainRelease
<1>g. ASSUME NEW w \in Workers, NEW l, Goto(w, l), pc[w] # "idle", held' = held PROVE Holds
  BY <1>g, <1>t, PlainGoto
<1>m. AsrWorkers \subseteq Workers /\ DiarWorkers \subseteq Workers
  BY DEF Workers
<1> HIDE DEF Quiet, Empty, Holds
<1>1. ASSUME NEW w \in AsrWorkers, NEW s \in Sources, AsrBegin(w, s) \/ AsrBeginRaises(w, s)
      PROVE  Quiet /\ Empty /\ Holds
  <2>1. Quiet
    BY <1>1, <1>s, <1>u DEF AsrBegin, AsrBeginRaises, Faults
  <2>2. Empty
    BY <1>1, <1>e DEF AsrBegin, AsrBeginRaises, TakeAsr
  <2>3. Holds
    <3>1. PICK l : Deliver(w, [task |-> "asr", source |-> s]) /\ Goto(w, l)
      BY <1>1 DEF AsrBegin, AsrBeginRaises, TakeAsr
    <3> QED
      BY <3>1, <1>t, <1>m, PlainTake DEF Holds
  <2> QED
    BY <2>1, <2>2, <2>3
<1>2. ASSUME NEW w \in DiarWorkers, DiarBegin(w) \/ DiarBeginRaises(w)
      PROVE  Quiet /\ Empty /\ Holds
  <2>1. Quiet
    BY <1>2, <1>s, <1>u DEF DiarBegin, DiarBeginRaises, Faults
  <2>2. Empty
    BY <1>2, <1>e DEF DiarBegin, DiarBeginRaises, TakeDiar
  <2>3. Holds
    <3>1. PICK l : Deliver(w, [task |-> "diarize"]) /\ Goto(w, l)
      BY <1>2 DEF DiarBegin, DiarBeginRaises, TakeDiar
    <3> QED
      BY <3>1, <1>t, <1>m, PlainTake, DisjointWorkers DEF Holds
  <2> QED
    BY <2>1, <2>2, <2>3
<1>3. ASSUME NEW w \in AsrWorkers,
             AsrDownload(w) \/ AsrStore(w) \/ AsrCommit(w) \/ AsrPost(w) \/ AsrMarkFailed(w)
      PROVE  Quiet /\ Empty /\ Holds
  BY <1>3, <1>m, <1>u, <1>e, <1>g, <1>l
     DEF AsrDownload, AsrStore, AsrCommit, AsrPost, AsrMarkFailed, CommitOwn, FindNewest, MarkFound,
         queueVars
<1>4. ASSUME NEW w \in AsrWorkers, AsrRaise(w)
      PROVE  Quiet /\ Empty /\ Holds
  <2>1. Quiet
    BY <1>4, <1>s, <1>u DEF AsrRaise, Faults
  <2>2. Empty
    BY <1>4, <1>e DEF AsrRaise, queueVars
  <2>3. Holds
    BY <1>4, <1>m, <1>g, <1>l DEF AsrRaise
  <2> QED
    BY <2>1, <2>2, <2>3
<1>5. ASSUME NEW w \in DiarWorkers,
             DiarDownload(w) \/ DiarCommit(w) \/ DiarPost(w) \/ DiarMarkFailed(w)
      PROVE  Quiet /\ Empty /\ Holds
  BY <1>5, <1>m, <1>u, <1>e, <1>g, <1>l
     DEF DiarDownload, DiarCommit, DiarPost, DiarMarkFailed, CommitOwn, FindNewest, MarkFound,
         queueVars
<1>6. ASSUME NEW w \in DiarWorkers, DiarRaise(w)
      PROVE  Quiet /\ Empty /\ Holds
  <2>1. Quiet
    BY <1>6, <1>s, <1>u DEF DiarRaise, Faults
  <2>2. Empty
    BY <1>6, <1>e DEF DiarRaise, queueVars
  <2>3. Holds
    BY <1>6, <1>m, <1>g DEF DiarRaise
  <2> QED
    BY <2>1, <2>2, <2>3
<1>7. ASSUME NEW w \in Workers, Index(w)
      PROVE  Quiet /\ Empty /\ Holds
  BY <1>7, <1>u, <1>e, <1>g DEF Index, queueVars
<1>8. ASSUME NEW w \in Workers, Redeliver(w)
      PROVE  Quiet /\ Empty /\ Holds
  <2>1. Quiet
    BY <1>8, <1>s DEF Redeliver, Faults
  <2>2. Empty
    BY <1>8, <1>n, <1>e DEF Redeliver, PutBack
  <2>3. Holds
    BY <1>8, <1>i DEF Redeliver
  <2> QED
    BY <2>1, <2>2, <2>3
<1>9. ASSUME NEW w \in Workers, MarkRaises(w) \/ Crash(w) \/ ChildLost(w)
      PROVE  FALSE
  BY <1>9 DEF MarkRaises, Crash, ChildLost, Spend, Plain, Silent
<1>10. ASSUME NEW c \in Clients, RequestStep(c)
       PROVE  Quiet /\ Empty /\ Holds
  <2>1. Quiet
    BY <1>10, <1>s DEF RequestStep, Upload, Delete, Snapshot, Finalize, Accept, Requests
  <2> QED
    BY <1>10, <2>1, <1>e, <1>i
    DEF RequestStep, Upload, Delete, Snapshot, Finalize, queueVars, workerVars
<1>11. ASSUME NEW c \in Clients, ServeStep(c)
       PROVE  Quiet /\ Empty /\ Holds
  <2>1. Quiet
    BY <1>11, <1>s, <1>u
    DEF ServeStep, UploadStore, UploadSend, DeleteCommit, SnapshotStore, FinalizeRow,
        FinalizeStore, FinalizeSend, CallAborts, Faults
  <2> QED
    BY <1>11, <2>1, <1>e, <1>i
    DEF ServeStep, UploadStore, UploadSend, DeleteCommit, SnapshotStore, FinalizeRow,
        FinalizeStore, FinalizeSend, CallAborts, queueVars, workerVars
<1>12. ASSUME NEW s \in Sources, Retranscribe(s)
       PROVE  Quiet /\ Empty /\ Holds
  BY <1>12, <1>s, <1>e, <1>i DEF Retranscribe, workerVars, Requests
<1>13. ASSUME Diarize \/ RenameSpeakers
       PROVE  Quiet /\ Empty /\ Holds
  BY <1>13, <1>s, <1>e, <1>i DEF Diarize, RenameSpeakers, queueVars, workerVars, Requests
<1>14. CASE UNCHANGED vars
  BY <1>14, <1>u, <1>e, <1>i DEF vars
<1>15. ~ChordStep
  BY DEF ChordStep, Plain
<1>16. ASSUME NEW w \in Workers, AsrStep(w)
       PROVE  Quiet /\ Empty /\ Holds
  <2>1. \A m : m \notin mergeQ
    BY DEF Plain
  <2>2. w \in AsrWorkers /\ ~AsrHandOff(w)
    BY <1>16, <2>1
    DEF AsrStep, AsrBegin, AsrBeginRaises, TakeAsr, AsrDownload, AsrHandOff, AsrStore, AsrCommit,
        AsrPost, AsrRaise, AsrMarkFailed
  <2> QED
    BY <1>16, <2>1, <2>2, <1>1, <1>3, <1>4 DEF AsrStep
<1>17. ASSUME NEW w \in Workers, DiarStep(w)
       PROVE  Quiet /\ Empty /\ Holds
  <2>1. w \in DiarWorkers
    BY <1>17
    DEF DiarStep, DiarBegin, DiarBeginRaises, TakeDiar, DiarDownload, DiarCommit, DiarPost,
        DiarRaise, DiarMarkFailed
  <2> QED
    BY <1>17, <2>1, <1>2, <1>5, <1>6 DEF DiarStep
<1> QED
  BY <1>7, <1>8, <1>9, <1>10, <1>11, <1>12, <1>13, <1>14, <1>15, <1>16, <1>17
  DEF Next, WorkerStep, BrokerStep

\* A new row runs if it is added as running.
LEMMA RunningAdded ==
  ASSUME rows \in Seq(Row),
         NEW k \in Kind, NEW t \in Tier, NEW st \in Status, NEW src \in Nat,
         AddRow(k, t, st, src), NEW q
  PROVE  Running(q)' = IF k = q /\ st = "running" THEN Running(q) \cup {NextRevision}
                                                  ELSE Running(q)
<1> DEFINE new == [kind |-> k, tier |-> t, status |-> st, src |-> src]
<1>1. /\ NextRevision \notin Revisions
      /\ Revisions' = Revisions \cup {NextRevision}
      /\ \A r \in Revisions : rows'[r] = rows[r]
      /\ rows'[NextRevision] = new
  BY RowAdded
<1>2. new.kind = k /\ new.status = st
  OBVIOUS
<1> HIDE DEF new
<1> QED
  BY <1>1, <1>2 DEF Running

\* A row that gets a result or is marked failed does not run any more.
LEMMA RunningSet ==
  ASSUME rows \in Seq(Row), NEW r \in Revisions, NEW st \in Status, st # "running",
         SetStatus(r, st), NEW q
  PROVE  Running(q)' = Running(q) \ {r}
<1>1. /\ Revisions' = Revisions
      /\ \A p \in Revisions : p # r => rows'[p] = rows[p]
      /\ rows'[r].status = st
  BY StatusSet
<1> QED
  BY <1>1 DEF Running

\* No step makes rows run but the start of a task, on a worker that was idle.
LEMMA RunningStarts ==
  ASSUME IInv, [Next]_vars, NEW k, NEW W, Team(k, W)
  PROVE  \/ Running(k)' \subseteq Running(k)
         \/ \E w \in W : /\ pc[w] = "idle" /\ Tends(w)'
                         /\ Running(k)' = Running(k) \cup {own'[w]}
<1> DEFINE Less == Running(k)' \subseteq Running(k)
<1> DEFINE More == \E w \in W : /\ pc[w] = "idle" /\ Tends(w)'
                                /\ Running(k)' = Running(k) \cup {own'[w]}
<1> SUFFICES Less \/ More
  OBVIOUS
<1>t. rows \in Seq(Row) /\ WorkerTypes /\ TypeOK
  BY DEF IInv, TypeOK, TableTypes
<1>m. /\ AsrWorkers \subseteq Workers /\ DiarWorkers \subseteq Workers
      /\ AsrWorkers \cap DiarWorkers = {}
      /\ "success" \in Status /\ "failed" \in Status /\ "running" \in Status
      /\ "asr" \in Kind /\ "asr_diarized" \in Kind /\ "fast" \in Tier /\ "final" \in Tier
      /\ "none" \in Tier /\ 0 \in Nat
  BY DisjointWorkers DEF Workers, Status, Kind, Tier
<1>1. ASSUME UNCHANGED rows PROVE Less
  BY <1>1 DEF Running, Revisions
<1>2. ASSUME NEW r \in Revisions, NEW st \in {"success", "failed"}, SetStatus(r, st) PROVE Less
  BY <1>2, <1>t, <1>m, RunningSet
<1>3. ASSUME NEW w \in Workers, NEW q \in Kind, NEW t \in Tier, NEW src \in Nat, pc[w] = "idle",
             AddRow(q, t, "running", src), own' = [own EXCEPT ![w] = NextRevision],
             Goto(w, "download"), w \in W \/ q # k
      PROVE  Less \/ More
  <2>1. own'[w] = NextRevision /\ pc'[w] = "download"
    BY <1>3, <1>t DEF WorkerTypes, Goto
  <2>2. Tends(w)'
    BY <2>1 DEF Tends, Writes
  <2>3. Running(k)' = IF q = k THEN Running(k) \cup {NextRevision} ELSE Running(k)
    BY <1>3, <1>t, <1>m, RunningAdded
  <2> QED
    BY <1>3, <2>1, <2>2, <2>3
<1>4. ASSUME NEW w \in Workers, NEW s \in Sources, AsrBegin(w, s) PROVE Less \/ More
  <2>1. /\ w \in AsrWorkers /\ pc[w] = "idle" /\ AddRow("asr", "final", "running", 0)
        /\ own' = [own EXCEPT ![w] = NextRevision] /\ Goto(w, "download")
    BY <1>4 DEF AsrBegin, TakeAsr
  <2>2. w \in W \/ "asr" # k
    BY <2>1 DEF Team
  <2> QED
    BY <2>1, <2>2, <1>3, <1>m
<1>5. ASSUME NEW w \in Workers, DiarBegin(w) PROVE Less \/ More
  <2>1. /\ w \in DiarWorkers /\ pc[w] = "idle"
        /\ own' = [own EXCEPT ![w] = NextRevision] /\ Goto(w, "download")
    BY <1>5 DEF DiarBegin, TakeDiar
  <2>2. PICK b \in Success : AddRow("asr_diarized", "none", "running", b)
    BY <1>5 DEF DiarBegin
  <2>3. b \in Nat
    BY DEF Success, Revisions
  <2>4. w \in W \/ "asr_diarized" # k
    BY <2>1 DEF Team
  <2> QED
    BY <2>1, <2>2, <2>3, <2>4, <1>3, <1>m
<1>6. ASSUME NEW w \in Workers, CommitOwn(w) PROVE Less
  <2>1. own[w] \in Revisions /\ SetStatus(own[w], "success")
    BY <1>6 DEF CommitOwn, IInv, KnownRevisions, Busy
  <2> QED
    BY <2>1, <1>2
<1>7. ASSUME NEW w \in Workers, FindNewest(w, KindOf(w)) \/ MarkFound(w) PROVE Less
  BY <1>7, <1>1, <1>2 DEF FindNewest, MarkFound, IInv, FoundKnown, convVars
<1>8. ASSUME NEW w \in Workers, NEW m \in mergeQ, MergeFails(w, m) PROVE Less
  BY <1>8, <1>2 DEF MergeFails, IInv, KnownRevisions, MergeMsgs
<1>9. ASSUME AddRow("asr", "fast", "success", 0) PROVE Less
  BY <1>9, <1>t, <1>m, RunningAdded
<1>10. ASSUME NEW c \in Clients, Snapshot(c) \/ FinalizeRow(c) PROVE Less
  BY <1>10, <1>1, <1>9 DEF Snapshot, FinalizeRow
<1> HIDE DEF Less, More
<1> QED
  BY <1>1, <1>4, <1>5, <1>6, <1>7, <1>8, <1>10, HistoryWriters DEF Writing, IInv

\* A worker that tends a row goes on doing so, until it commits it or marks it.
LEMMA TendersStay ==
  ASSUME ~ParallelChunks, IInv, Plain, [Next]_vars, NEW w \in Workers, Tends(w)
  PROVE  \/ Tends(w)' /\ own'[w] = own[w]
         \/ CommitOwn(w)
         \/ Marks(w)
<1> DEFINE Stays == Tends(w)' /\ own'[w] = own[w]
<1> SUFFICES Stays \/ CommitOwn(w) \/ Marks(w)
  OBVIOUS
<1>t. WorkerTypes
  BY DEF IInv, TypeOK
<1>p. pc[w] \in {"download", "store", "commit", "mark", "failing"}
  BY DEF Tends, Writes
<1>1. ASSUME UNCHANGED <<pc, own>> PROVE Stays
  BY <1>1 DEF Tends, Writes
<1>2. ASSUME NEW v \in Workers, v # w, pc'[w] = pc[w], own'[w] = own[w] PROVE Stays
  BY <1>2 DEF Tends, Writes
<1>3. ASSUME NEW v \in Workers, NEW l, Goto(v, l), own' = own,
             v = w => l \in {"store", "commit", "mark", "failing"}
      PROVE  Stays
  <2>1. pc'[w] = IF v = w THEN l ELSE pc[w]
    BY <1>3, <1>t DEF WorkerTypes, Goto
  <2> QED
    BY <1>3, <2>1 DEF Tends, Writes
<1>4. ASSUME NEW v \in Workers, Release(v), v # w PROVE Stays
  BY <1>4, <1>2, <1>t, Released
<1>5. ASSUME NEW v \in Workers, NEW l, Goto(v, l), NEW r, own' = [own EXCEPT ![v] = r], v # w
      PROVE  Stays
  <2>1. pc'[w] = pc[w] /\ own'[w] = own[w]
    BY <1>5, <1>t DEF WorkerTypes, Goto
  <2> QED
    BY <2>1, <1>5, <1>2
<1>h. ASSUME NEW v \in Workers, AsrMarkFailed(v) \/ DiarMarkFailed(v) PROVE Stays \/ Marks(w)
  <2>1. FindNewest(v, KindOf(v)) \/ MarkFound(v)
    BY <1>h, Handlers
  <2>2. CASE Release(v)
    <3>1. pc'[v] = "idle"
      BY <2>2, <1>t DEF Release, Goto, WorkerTypes
    <3>2. ~Goto(v, "failing")
      BY <3>1, <1>t DEF Goto, WorkerTypes
    <3>3. Marks(v)
      BY <2>1, <3>2 DEF Marks, FindNewest
    <3> QED
      BY <2>2, <3>3, <1>4
  <2>3. CASE Goto(v, "failing") /\ own' = own
    BY <2>3, <1>3
  <2> QED
    BY <2>1, <2>2, <2>3 DEF FindNewest, MarkFound
<1> HIDE DEF Stays
<1>6. ASSUME NEW v \in Workers, AsrStep(v) PROVE Stays \/ CommitOwn(w) \/ Marks(w)
  <2>1. \A m : m \notin mergeQ
    BY DEF Plain
  <2>2. ASSUME NEW s \in Sources, AsrBegin(v, s) PROVE Stays
    BY <2>2, <1>p, <1>5 DEF AsrBegin, TakeAsr
  <2>3. ASSUME NEW s \in Sources, AsrBeginRaises(v, s) PROVE Stays
    BY <2>3, <1>3 DEF AsrBeginRaises
  <2>4. CASE AsrDownload(v) \/ AsrStore(v)
    BY <2>4, <1>3 DEF AsrDownload, AsrStore
  <2>5. CASE AsrCommit(v)
    BY <2>5, <1>3 DEF AsrCommit, CommitOwn
  <2>6. CASE AsrPost(v)
    BY <2>6, <1>p, <1>4 DEF AsrPost
  <2>7. CASE AsrRaise(v)
    <3>1. held[v].task = "asr"
      BY <2>7 DEF AsrRaise, Plain
    <3> QED
      BY <2>7, <3>1, <1>3 DEF AsrRaise
  <2>8. CASE AsrMarkFailed(v)
    BY <2>8, <1>h
  <2> QED
    BY <1>6, <2>1, <2>2, <2>3, <2>4, <2>5, <2>6, <2>7, <2>8 DEF AsrStep, AsrHandOff
<1>7. ASSUME NEW v \in Workers, DiarStep(v) PROVE Stays \/ CommitOwn(w) \/ Marks(w)
  <2>1. CASE DiarBegin(v)
    BY <2>1, <1>p, <1>5 DEF DiarBegin, TakeDiar
  <2>2. CASE DiarBeginRaises(v)
    BY <2>2, <1>3 DEF DiarBeginRaises
  <2>3. CASE DiarDownload(v)
    BY <2>3, <1>3 DEF DiarDownload
  <2>4. CASE DiarCommit(v)
    BY <2>4, <1>3 DEF DiarCommit, CommitOwn
  <2>5. CASE DiarPost(v)
    BY <2>5, <1>p, <1>4 DEF DiarPost
  <2>6. CASE DiarRaise(v)
    BY <2>6, <1>3 DEF DiarRaise
  <2>7. CASE DiarMarkFailed(v)
    BY <2>7, <1>h
  <2> QED
    BY <1>7, <2>1, <2>2, <2>3, <2>4, <2>5, <2>6, <2>7 DEF DiarStep
<1>8. ASSUME NEW v \in Workers, Index(v) PROVE Stays
  <2>1. v # w /\ Goto(v, "post") /\ own' = own
    BY <1>8, <1>p DEF Index
  <2> QED
    BY <2>1, <1>3
<1>9. ASSUME NEW v \in Workers, Redeliver(v) PROVE Stays
  BY <1>9, <1>1 DEF Redeliver
<1>10. ASSUME NEW v \in Workers, MarkRaises(v) \/ Crash(v) \/ ChildLost(v)
       PROVE  FALSE
  BY <1>10 DEF MarkRaises, Crash, ChildLost, Spend, Plain, Silent
<1>11. ASSUME NEW c \in Clients, RequestStep(c) \/ ServeStep(c) PROVE Stays
  <2>1. UNCHANGED <<pc, own>>
    BY <1>11
    DEF RequestStep, Upload, Delete, Snapshot, Finalize, ServeStep, UploadStore, UploadSend,
        DeleteCommit, SnapshotStore, FinalizeRow, FinalizeStore, FinalizeSend, CallAborts,
        workerVars
  <2> QED
    BY <2>1, <1>1
<1>12. ASSUME (\E s \in Sources : Retranscribe(s)) \/ Diarize \/ RenameSpeakers PROVE Stays
  BY <1>12, <1>1 DEF Retranscribe, Diarize, RenameSpeakers, workerVars
<1>13. CASE UNCHANGED vars
  BY <1>13, <1>1 DEF vars
<1>14. ~ChordStep
  BY DEF ChordStep, Plain
<1> QED
  BY <1>6, <1>7, <1>8, <1>9, <1>10, <1>11, <1>12, <1>13, <1>14
  DEF Next, WorkerStep, BrokerStep

\* The only worker of a team commits or marks the only row that runs.
LEMMA TendedEnds ==
  ASSUME IInv, NEW k, NEW W, Team(k, W), One(W), Tended(k, W), FoundOwn(W), NEW w \in W,
         CommitOwn(w) \/ Marks(w)
  PROVE  Running(k)' = {}
<1>t. rows \in Seq(Row) /\ "success" \in Status /\ "failed" \in Status
  BY DEF IInv, TypeOK, TableTypes, Status
<1>w. w \in Workers
  BY DEF Team, Workers
<1>1. \A r \in Running(k) : r = own[w]
  BY DEF Tended, One
<1>2. CASE CommitOwn(w)
  <2>1. own[w] \in Revisions /\ SetStatus(own[w], "success")
    BY <1>2, <1>w DEF CommitOwn, IInv, KnownRevisions, Busy
  <2>2. Running(k)' = Running(k) \ {own[w]}
    BY <2>1, <1>t, RunningSet
  <2> QED
    BY <1>1, <2>2
<1>3. CASE MarkFound(w)
  <2>1. own[w] \in Revisions /\ SetStatus(own[w], "failed")
    BY <1>3, <1>w DEF MarkFound, IInv, FoundKnown, FoundOwn
  <2>2. Running(k)' = Running(k) \ {own[w]}
    BY <2>1, <1>t, RunningSet
  <2> QED
    BY <1>1, <2>2
<1>4. CASE FindNewest(w, KindOf(w)) /\ Running(KindOf(w)) = {}
  <2>1. KindOf(w) = k
    BY DisjointWorkers DEF Team, KindOf
  <2> QED
    BY <1>4, <2>1 DEF FindNewest, convVars, Running, Revisions
<1> QED
  BY <1>2, <1>3, <1>4 DEF Marks

\* Every step leaves every running row in the hands of a worker.
LEMMA TendedKept ==
  ASSUME ~ParallelChunks, IInv, Plain, [Next]_vars,
         NEW k, NEW W, Team(k, W), One(W), Tended(k, W), FoundOwn(W)
  PROVE  Tended(k, W)' /\ FoundOwn(W)'
<1>1. W \subseteq Workers /\ \A w \in W : KindOf(w) = k
  BY DisjointWorkers DEF Team, Workers, KindOf
<1>2. ASSUME NEW w \in W, CommitOwn(w) \/ Marks(w)
      PROVE  Tended(k, W)'
  BY <1>2, TendedEnds DEF Tended
<1>3. ASSUME \A w \in W : Tends(w) => Tends(w)' /\ own'[w] = own[w],
             Running(k)' \subseteq Running(k)
      PROVE  Tended(k, W)'
  BY <1>3 DEF Tended
<1>4. ASSUME NEW w \in W, pc[w] = "idle", Tends(w)', Running(k)' = Running(k) \cup {own'[w]}
      PROVE  Tended(k, W)'
  <2>1. Running(k) = {}
    BY <1>4 DEF Tended, One, Tends, Writes
  <2> QED
    BY <1>4, <2>1 DEF Tended
<1>5. Tended(k, W)'
  BY <1>1, <1>2, <1>3, <1>4, RunningStarts, TendersStay
<1>6. ASSUME NEW w \in W, pc'[w] = "failing"
      PROVE  found'[w] = own'[w]
  <2>1. CASE pc[w] = "failing" /\ found'[w] = found[w]
    <3>1. Tends(w) /\ ~CommitOwn(w) /\ ~Marks(w)
      BY <1>1, <1>6, <2>1 DEF Tends, CommitOwn, Marks, MarkFound, FindNewest, Release, Goto,
         IInv, TypeOK, WorkerTypes
    <3> QED
      BY <1>1, <2>1, <3>1, TendersStay DEF FoundOwn
  <2>2. CASE found'[w] \in Running(k) /\ UNCHANGED rows
    <3>1. found'[w] \in Running(k)'
      BY <2>2 DEF Running, Revisions
    <3>2. PICK v \in W : own'[v] = found'[w]
      BY <1>5, <3>1 DEF Tended
    <3> QED
      BY <3>2 DEF One
  <2> QED
    BY <1>1, <1>6, <2>1, <2>2, Failers
<1> QED
  BY <1>5, <1>6 DEF FoundOwn

\* With one worker of each kind, every running row is being worked on, or its handler is about
\* to mark it, whatever raises, is delivered again, deleted or requested meanwhile: no request
\* is refused with 409 for ever. A fault that bypasses the handler, a chord whose counter
\* breaks, or a second worker's handler does leave one behind.
THEOREM RunningTended ==
  ASSUME One(AsrWorkers), One(DiarWorkers), ~ParallelChunks,
         \A b \in Budgets, f \in Silent : b[f] = 0
  PROVE  Spec => []RunningHasWriter
<1> DEFINE OneInv == /\ Plain
                     /\ Tended("asr", AsrWorkers) /\ FoundOwn(AsrWorkers)
                     /\ Tended("asr_diarized", DiarWorkers) /\ FoundOwn(DiarWorkers)
<1>1. Init => OneInv
  BY PlainInit
<1>2. IInv /\ OneInv /\ [Next]_vars => OneInv'
  BY PlainKept, TendedKept DEF Team
<1>3. OneInv => RunningHasWriter
  BY DEF RunningHasWriter, Tended, Workers
<1> HIDE DEF OneInv
<1> QED
  BY <1>1, <1>2, <1>3, Invariance, PTL DEF Spec

\* With one transcription worker a failed task marks the row it made: the newest running ASR
\* row, which the handler looks for, is its own. Two workers break this (run wrongrow), and
\* so does whatever leaves a running row behind.
THEOREM FailureSafe ==
  ASSUME One(AsrWorkers), ~ParallelChunks,
         \A b \in Budgets, f \in Silent : b[f] = 0
  PROVE  Spec => FailureMarksOwnRow
<1> DEFINE AsrInv == Plain /\ Tended("asr", AsrWorkers) /\ FoundOwn(AsrWorkers)
<1> DEFINE OwnRow == \A w \in AsrWorkers, r \in Revisions :
                       pc[w] = "failing" /\ pc'[w] = "idle" /\ rows'[r] # rows[r]
                         => r = own[w]
<1>1. Init => AsrInv
  BY PlainInit
<1>2. IInv /\ AsrInv /\ [Next]_vars => AsrInv'
  BY PlainKept, TendedKept DEF Team
<1>3. ASSUME IInv, AsrInv, [Next]_vars
      PROVE  OwnRow
  <2> SUFFICES ASSUME NEW w \in AsrWorkers, NEW r \in Revisions,
                      pc[w] = "failing", pc'[w] = "idle", rows'[r] # rows[r]
               PROVE  r = own[w]
    OBVIOUS
  <2>1. w \in Workers /\ rows \in Seq(Row) /\ "failed" \in Status
    BY <1>3 DEF Workers, IInv, TypeOK, TableTypes, Status
  <2>2. MarkFound(w)
    <3>1. Tends(w) /\ ~Tends(w)' /\ ~CommitOwn(w)
      BY DEF Tends, Writes, CommitOwn
    <3>2. Marks(w)
      BY <1>3, <2>1, <3>1, TendersStay
    <3> QED
      BY <3>2 DEF Marks, FindNewest
  <2>3. found[w] = own[w] /\ found[w] \in Revisions
    BY <1>3, <2>1 DEF FoundOwn, IInv, FoundKnown
  <2>4. SetStatus(own[w], "failed")
    BY <2>2, <2>3 DEF MarkFound
  <2> QED
    BY <2>1, <2>3, <2>4, StatusSet
<1>4. IInv /\ AsrInv /\ [Next]_vars => [OwnRow]_vars
  BY <1>3
<1> HIDE DEF AsrInv, OwnRow
<1>5. Spec => [][OwnRow]_vars
  BY <1>1, <1>2, <1>4, Invariance, PTL DEF Spec
<1> QED
  BY <1>5 DEF FailureMarksOwnRow, OwnRow
=============================================================================
