-------------------------- MODULE AudioSessionProofs --------------------------
(***************************************************************************)
(* Proofs about AudioSession, for any number of chunks, connections and    *)
(* faults, as long as Redis works: one finalize queues one task, and an    *)
(* acknowledgement that lets the client drop the recording is never given  *)
(* before it is queued.                                                    *)
(***************************************************************************)
EXTENDS AudioSession, TLAPS

-----------------------------------------------------------------------------
\* The inductive invariant

\* A recording is stopped once, so that its one finalize has id 1.
Phase == {"recording", "stopped", "waiting", "upload", "uploading", "failed", "idle"}
Place == {"none", "ready", "store", "row", "send", "settle", "gone"}
Message == [type : {"chunk"}, val : Nat] \cup [type : {"finalize"}, val : {1}]
Answer == [id : {1}, status : {"accepted", "duplicate", "error"}]
Task == [id : {0, 1}, ext : Exts]

ClientTypes ==
  /\ rec \in Phase /\ n \in Nat /\ pending \in Seq(Nat) /\ fid \in {0, 1} /\ acked \subseteq {1}
  /\ sock \in 0 .. MaxConns /\ waitOn \in 0 .. MaxConns
LinkTypes ==
  /\ link \in [Conns -> {"none", "up", "cut", "closed"}]
  /\ sent \in [Conns -> Seq(Message)] /\ replies \in [Conns -> SUBSET Answer]
DecodeTypes ==
  fed \in [Conns -> Nat] /\ heard \in [Conns -> Nat] /\ raw \in [Conns -> SUBSET Nat]
HandlerTypes ==
  /\ srv \in [Conns -> Place] /\ job \in [Conns -> [id : {0, 1}, ok : BOOLEAN]]
  /\ \A k \in Conns : srv[k] \in {"store", "row", "send"} => job[k].ok
StoreTypes == DOMAIN claims \subseteq {1} /\ tasks \in Seq(Task)
Types == ClientTypes /\ LinkTypes /\ DecodeTypes /\ HandlerTypes /\ StoreTypes

\* A connection has, or will have, audio; and a finalize that is not settled.
Has(k, type) == \E i \in DOMAIN sent[k] : sent[k][i].type = type
Bears(k) == heard[k] > 0 \/ raw[k] # {} \/ fed[k] > 0 \/ Has(k, "chunk")
Active(k) == srv[k] \in {"store", "row", "send", "settle"} /\ job[k].id = 1
Finalizes(k) == Has(k, "finalize") \/ Active(k)

\* The task of the finalize is queued.
Queued == \E i \in DOMAIN tasks : tasks[i].id = 1

\* Connections are opened in turn, and the client uses the last one.
Turns ==
  /\ \A j, k \in Conns : (j < k /\ link[k] # "none") => link[j] # "none"
  /\ sock # 0 => link[sock] # "none" /\ \A k \in Conns : k > sock => link[k] = "none"
  /\ \A k \in Conns : link[k] = "none" => srv[k] = "none" /\ ~Bears(k) /\ ~Finalizes(k)

\* Nothing is recorded after the finalize, and a new connection gets nothing.
Phases ==
  /\ rec \in {"recording", "stopped"} => fid = 0
  /\ (sock # 0 \/ fid = 1) => pending = <<>>
  /\ rec = "waiting" => waitOn # 0 /\ fid = 1
  /\ fid = 0 => (1 \notin DOMAIN claims /\ ~Queued /\ \A k \in Conns : ~Finalizes(k))

\* So only the last connection with audio can be finalized.
LastFinalizes == \A j, k \in Conns : Finalizes(j) /\ Bears(k) => k <= j

\* The handler of a claim has queued its task, or not yet, or failed.
Open(k) == srv[k] \in {"store", "row", "send"} \/ ~job[k].ok
ActiveOwns ==
  \A k \in Conns : Active(k) =>
    /\ 1 \in DOMAIN claims /\ (Open(k) <=> ~Queued)
    /\ \A j \in Conns : Active(j) => j = k

\* A claim that is pending, and a task whose claim has expired, is that of the connection
\* with the audio, which is finalizing or is gone: no other can be told that it is a
\* duplicate, or claim again.
Claimant(k) ==
  Enough(k) /\ (Active(k) \/ srv[k] = "gone") /\ \A j \in Conns : Bears(j) => j <= k
HasClaimant == \E k \in Conns : Claimant(k)
ClaimMeans == 1 \in DOMAIN claims => (claims[1] = "done" /\ Queued) \/ HasClaimant
TaskClaimed == Queued => 1 \in DOMAIN claims \/ HasClaimant
AnswersMean ==
  /\ \A k \in Conns : \A a \in replies[k] : a.status # "error" => Queued
  /\ acked # {} => Queued

Nets == Turns /\ Phases /\ LastFinalizes
ClaimsInv == ActiveOwns /\ ClaimMeans /\ TaskClaimed /\ AnswersMean /\ OneFinalPerId
IInv == Types /\ Nets /\ ClaimsInv

-----------------------------------------------------------------------------
\* Nothing is recorded, and nothing is claimed.
LEMMA Initially == Init => IInv
<1> SUFFICES ASSUME Init PROVE IInv
  OBVIOUS
<1>1. \A k \in Conns : ~Has(k, "chunk") /\ ~Has(k, "finalize")
  BY DEF Init, Has
<1>2. Conns # {} /\ Conns \subseteq Nat /\ 1 \in Conns
  BY BoundsAreNat, OneConnection DEF Conns
<1>3. Types
  <2>1. ClientTypes
    BY BoundsAreNat, OneConnection DEF Init, ClientTypes, Phase
  <2>2. LinkTypes /\ DecodeTypes
    BY DEF Init, LinkTypes, DecodeTypes
  <2>3. HandlerTypes /\ StoreTypes
    BY DEF Init, HandlerTypes, StoreTypes, Place, NoJob
  <2> QED
    BY <2>1, <2>2, <2>3 DEF Types
<1>4. \A k \in Conns : ~Bears(k) /\ ~Finalizes(k) /\ ~Active(k)
  BY <1>1 DEF Init, Bears, Finalizes, Active, NoJob
<1>5. Turns
  BY <1>2, <1>4 DEF Init, Turns, Conns
<1>6. Phases /\ LastFinalizes
  BY <1>4 DEF Init, Phases, Queued, LastFinalizes
<1>7. ~Queued /\ OneFinalPerId /\ 1 \notin DOMAIN claims
  BY DEF Init, Queued, OneFinalPerId
<1>8. ClaimsInv
  BY <1>4, <1>7 DEF Init, ClaimsInv, ActiveOwns, ClaimMeans, TaskClaimed, AnswersMean
<1> QED
  BY <1>3, <1>5, <1>6, <1>8 DEF IInv, Nets

-----------------------------------------------------------------------------
\* What a step may leave as it is

\* Only a task more makes a difference to whether one is queued.
LEMMA QueuedSame == ASSUME UNCHANGED tasks PROVE Queued' <=> Queued
BY DEF Queued

\* A step that brings no audio, and no finalize, to a connection.
LEMMA NetsFrame ==
  ASSUME Types, Nets, UNCHANGED <<pending, fid, sock, waitOn>>,
         rec' = rec \/ rec' \notin {"recording", "stopped", "waiting"},
         \A k \in Conns : srv[k] = "none" => srv'[k] = "none",
         \A k \in Conns : link'[k] = "none" <=> link[k] = "none",
         \A k \in Conns : Bears(k)' => Bears(k),
         \A k \in Conns : Finalizes(k)' => Finalizes(k),
         fid = 0 => (1 \in DOMAIN claims' => 1 \in DOMAIN claims) /\ (Queued' => Queued)
  PROVE  Nets'
<1>1. Turns'
  BY DEF Nets, Turns, Types, ClientTypes, Conns
<1>2. Phases'
  BY DEF Nets, Phases
<1>3. LastFinalizes'
  BY DEF Nets, LastFinalizes
<1> QED
  BY <1>1, <1>2, <1>3 DEF Nets

\* A step that moves no claim and queues nothing for one.
LEMMA ClaimsFrame ==
  ASSUME ClaimsInv,
         UNCHANGED claims, Queued' <=> Queued, OneFinalPerId',
         \A k \in Conns : Active(k)' => Active(k) /\ (Open(k)' <=> Open(k)),
         \A k \in Conns : Enough(k) => Enough(k)',
         \A k \in Conns : (Active(k) \/ srv[k] = "gone") => Active(k)' \/ srv'[k] = "gone",
         (1 \in DOMAIN claims \/ Queued) => \A k \in Conns : Bears(k)' => Bears(k),
         \A k \in Conns : \A a \in replies'[k] : a \in replies[k] \/ a.status = "error",
         acked' = acked \/ Queued
  PROVE  ClaimsInv'
<1>1. ActiveOwns'
  BY DEF ClaimsInv, ActiveOwns
<1>2. (1 \in DOMAIN claims \/ Queued) /\ HasClaimant => HasClaimant'
  <2> SUFFICES ASSUME 1 \in DOMAIN claims \/ Queued, NEW k \in Conns, Claimant(k)
               PROVE  Claimant(k)'
    BY DEF HasClaimant
  <2>1. Enough(k)' /\ (Active(k)' \/ srv'[k] = "gone")
    BY DEF Claimant
  <2>2. \A j \in Conns : Bears(j)' => j <= k
    BY DEF Claimant
  <2> QED
    BY <2>1, <2>2 DEF Claimant
<1>3. ClaimMeans' /\ TaskClaimed'
  BY <1>2 DEF ClaimsInv, ClaimMeans, TaskClaimed
<1>4. AnswersMean'
  BY DEF ClaimsInv, AnswersMean
<1> QED
  BY <1>1, <1>3, <1>4 DEF ClaimsInv

\* The connection whose finalize is read next is not the one of a claim: it would be
\* finalizing or gone.
LEMMA NotTheClaimant ==
  ASSUME Nets, NEW c \in Conns, srv[c] = "ready", Has(c, "finalize"), Enough(c)
  PROVE  ~HasClaimant
<1> SUFFICES ASSUME NEW k \in Conns, Claimant(k) PROVE FALSE
  BY DEF HasClaimant
<1>1. Bears(c) /\ Bears(k) /\ Finalizes(c)
  BY DEF Claimant, Enough, Bears, Finalizes
<1>2. c <= k /\ k <= c
  BY <1>1 DEF Claimant, Nets, LastFinalizes
<1>3. c = k
  BY <1>2, BoundsAreNat DEF Conns
<1> QED
  BY <1>3 DEF Claimant, Active

-----------------------------------------------------------------------------
\* Messages on their way

\* What is left of a sequence of messages has no type it had not.
LEMMA Shorter ==
  ASSUME NEW s \in Seq(Message), NEW i \in 0 .. Len(s)
  PROVE  /\ SubSeq(s, 1, i) \in Seq(Message)
         /\ \A j \in DOMAIN SubSeq(s, 1, i) : j \in DOMAIN s /\ SubSeq(s, 1, i)[j] = s[j]
OBVIOUS

\* What follows the head of a sequence of messages was in it, one place further.
LEMMA WithoutHead ==
  ASSUME NEW s \in Seq(Message), s # <<>>
  PROVE  /\ Head(s) = s[1] /\ 1 \in DOMAIN s /\ Tail(s) \in Seq(Message)
         /\ \A j \in DOMAIN Tail(s) : j + 1 \in DOMAIN s /\ Tail(s)[j] = s[j + 1]
OBVIOUS

\* A sequence of messages and one more.
LEMMA WithOne ==
  ASSUME NEW s \in Seq(Message), NEW m \in Message
  PROVE  /\ s \o <<m>> \in Seq(Message)
         /\ \A j \in DOMAIN (s \o <<m>>) : (s \o <<m>>)[j] = m
                                           \/ (j \in DOMAIN s /\ (s \o <<m>>)[j] = s[j])
OBVIOUS

\* A message sent on a connection.
LEMMA SendOne ==
  ASSUME LinkTypes, NEW k \in Conns, NEW m \in Message, Send(k, <<m>>)
  PROVE  /\ sent' \in [Conns -> Seq(Message)]
         /\ \A j \in Conns : \A type : Has(j, type)' => Has(j, type) \/ (j = k /\ type = m.type)
<1>1. sent' = sent \/ sent' = [sent EXCEPT ![k] = sent[k] \o <<m>>]
  BY DEF Send
<1>2. CASE sent' = sent
  BY <1>2 DEF LinkTypes, Has
<1>3. CASE sent' = [sent EXCEPT ![k] = sent[k] \o <<m>>]
  <2> DEFINE s == sent[k] \o <<m>>
  <2>1. sent[k] \in Seq(Message)
    BY DEF LinkTypes
  <2>2. /\ s \in Seq(Message)
        /\ \A j \in DOMAIN s : s[j] = m \/ (j \in DOMAIN sent[k] /\ s[j] = sent[k][j])
    BY <2>1, WithOne
  <2> HIDE DEF s
  <2>3. sent'[k] = s /\ \A j \in Conns \ {k} : sent'[j] = sent[j]
    BY <1>3 DEF LinkTypes, s
  <2>4. sent' \in [Conns -> Seq(Message)]
    BY <1>3, <2>2 DEF LinkTypes, s
  <2> QED
    BY <2>2, <2>3, <2>4 DEF Has
<1> QED
  BY <1>1, <1>2, <1>3

\* A message read from a connection.
LEMMA TakeOne ==
  ASSUME LinkTypes, NEW k \in Conns, NEW type, Take(k, type)
  PROVE  /\ sent' \in [Conns -> Seq(Message)] /\ srv[k] = "ready" /\ Has(k, type)
         /\ Head(sent[k]) \in Message /\ Head(sent[k]).type = type
         /\ \A j \in Conns : \A t : Has(j, t)' => Has(j, t)
<1>1. /\ srv[k] = "ready" /\ sent[k] # <<>> /\ Head(sent[k]).type = type
      /\ sent' = [sent EXCEPT ![k] = Tail(sent[k])]
  BY DEF Take
<1>2. sent[k] \in Seq(Message)
  BY DEF LinkTypes
<1>3. /\ Head(sent[k]) = sent[k][1] /\ 1 \in DOMAIN sent[k] /\ Tail(sent[k]) \in Seq(Message)
      /\ \A j \in DOMAIN Tail(sent[k]) :
           j + 1 \in DOMAIN sent[k] /\ Tail(sent[k])[j] = sent[k][j + 1]
  BY <1>1, <1>2, WithoutHead
<1>4. sent' \in [Conns -> Seq(Message)]
  BY <1>1, <1>3 DEF LinkTypes
<1>5. sent'[k] = Tail(sent[k]) /\ \A j \in Conns \ {k} : sent'[j] = sent[j]
  BY <1>1 DEF LinkTypes
<1>6. ASSUME NEW j \in Conns, NEW t, Has(j, t)' PROVE Has(j, t)
  <2>1. CASE j = k
    <3>1. PICK i \in DOMAIN Tail(sent[k]) : Tail(sent[k])[i].type = t
      BY <1>5, <1>6, <2>1 DEF Has
    <3>2. i + 1 \in DOMAIN sent[k] /\ sent[k][i + 1].type = t
      BY <1>3, <3>1
    <3> QED
      BY <2>1, <3>2 DEF Has
  <2>2. CASE j # k
    BY <1>5, <1>6, <2>2 DEF Has
  <2> QED
    BY <2>1, <2>2
<1>7. Has(k, type) /\ Head(sent[k]) \in Message
  BY <1>1, <1>2, <1>3 DEF Has
<1> QED
  BY <1>1, <1>4, <1>6, <1>7

-----------------------------------------------------------------------------
\* The client

\* Who the handlers and the claims are does not depend on the client.
LEMMA ClientOnly ==
  ASSUME Types, UNCHANGED <<decodeVars, srv, job, claims, tasks>>,
         (1 \in DOMAIN claims \/ Queued) => \A k \in Conns : Bears(k)' => Bears(k),
         \A k \in Conns : replies'[k] \subseteq replies[k], ClaimsInv => acked' = acked \/ Queued
  PROVE  DecodeTypes' /\ HandlerTypes' /\ StoreTypes' /\ (ClaimsInv => ClaimsInv')
<1>1. DecodeTypes' /\ HandlerTypes' /\ StoreTypes'
  BY DEF Types, DecodeTypes, HandlerTypes, StoreTypes, decodeVars
<1>2. (ClaimsInv => OneFinalPerId') /\ (Queued' <=> Queued)
  BY DEF ClaimsInv, OneFinalPerId, Queued
<1>3. \A k \in Conns : (Active(k)' <=> Active(k)) /\ (Open(k)' <=> Open(k))
                       /\ (Enough(k)' <=> Enough(k))
  BY DEF Active, Open, Enough, decodeVars
<1>4. \A k \in Conns : \A a \in replies'[k] : a \in replies[k] \/ a.status = "error"
  OBVIOUS
<1> QED
  BY <1>1, <1>2, <1>3, <1>4, ClaimsFrame

\* What a step of the client sends or forgets, when it sends nothing.
LEMMA Unsent ==
  ASSUME UNCHANGED <<sent, decodeVars, srv, job>>
  PROVE  \A k \in Conns : (Bears(k)' => Bears(k)) /\ (Finalizes(k)' => Finalizes(k))
BY DEF Bears, Finalizes, Active, Has, decodeVars

\* A chunk is recorded: nothing is finalized yet, so that it may go to any connection.
LEMMA RecordKept ==
  ASSUME Types, Nets, Record
  PROVE  Types' /\ Nets' /\ (ClaimsInv => ClaimsInv')
<1>1. /\ rec = "recording" /\ n' = n + 1
      /\ IF sock # 0 THEN Send(sock, <<Chunk(n + 1)>>) /\ UNCHANGED pending
                     ELSE pending' = Append(pending, n + 1) /\ UNCHANGED sent
      /\ UNCHANGED <<rec, sock, waitOn, fid, acked, link, replies, decodeVars, srv, job,
                     claims, tasks>>
  BY DEF Record, sessionVars, storeVars
<1>2. Types /\ Nets /\ fid = 0 /\ 1 \notin DOMAIN claims /\ ~Queued
  BY <1>1 DEF Nets, Phases
<1>3. ClientTypes'
  <2>1. n \in Nat /\ pending \in Seq(Nat)
    BY <1>2 DEF Types, ClientTypes
  <2>2. n' \in Nat /\ Append(pending, n + 1) \in Seq(Nat)
    BY <1>1, <2>1
  <2>3. pending' \in Seq(Nat)
    BY <1>1, <2>1, <2>2
  <2> QED
    BY <1>1, <1>2, <2>2, <2>3 DEF Types, ClientTypes
<1>4. DecodeTypes' /\ HandlerTypes' /\ StoreTypes' /\ (ClaimsInv => ClaimsInv')
  BY <1>1, <1>2, ClientOnly
<1>5. LinkTypes' /\ \A j \in Conns : \A type :
        Has(j, type)' => Has(j, type) \/ (j = sock /\ type = "chunk")
  <2>1. CASE sock = 0
    BY <1>1, <1>2, <2>1 DEF Types, LinkTypes, Has
  <2>2. CASE sock # 0
    <3>1. sock \in Conns /\ Chunk(n + 1) \in Message /\ Chunk(n + 1).type = "chunk"
      BY <1>2, <2>2, BoundsAreNat DEF Types, ClientTypes, Conns, Chunk, Message
    <3> QED
      BY <1>1, <1>2, <2>2, <3>1, SendOne DEF Types, LinkTypes
  <2> QED
    BY <2>1, <2>2
<1>6. \A k \in Conns : (Finalizes(k)' => Finalizes(k)) /\ (Bears(k)' => Bears(k) \/ k = sock)
  BY <1>1, <1>5 DEF Finalizes, Bears, Active, decodeVars
<1>7. \A k \in Conns : ~Finalizes(k)'
  BY <1>2, <1>6 DEF Nets, Phases
<1>8. Turns'
  BY <1>1, <1>2, <1>6 DEF Nets, Turns, Types, ClientTypes, Conns
<1>9. Phases' /\ LastFinalizes'
  BY <1>1, <1>2, <1>7, QueuedSame DEF Nets, Phases, LastFinalizes
<1> QED
  BY <1>3, <1>4, <1>5, <1>8, <1>9 DEF Types, Nets

\* The recorder stops.
LEMMA StopKept ==
  ASSUME Types, Nets, Stop
  PROVE  Types' /\ Nets' /\ (ClaimsInv => ClaimsInv')
<1>1. /\ rec = "recording" /\ rec' = "stopped"
      /\ UNCHANGED <<n, pending, sock, waitOn, fid, acked, link, sent, replies, decodeVars,
                     srv, job, claims, tasks>>
  BY DEF Stop, netVars, sessionVars, storeVars
<1>2. Types /\ Nets /\ ClientTypes' /\ LinkTypes'
  BY <1>1 DEF Types, ClientTypes, LinkTypes, Phase
<1>3. \A k \in Conns : (Bears(k)' => Bears(k)) /\ (Finalizes(k)' => Finalizes(k))
  BY <1>1, Unsent
<1>4. Turns' /\ LastFinalizes'
  BY <1>1, <1>2, <1>3 DEF Nets, Turns, LastFinalizes, Types, ClientTypes, Conns
<1>5. Phases'
  BY <1>1, <1>2, <1>3, QueuedSame DEF Nets, Phases
<1>6. DecodeTypes' /\ HandlerTypes' /\ StoreTypes' /\ (ClaimsInv => ClaimsInv')
  BY <1>1, <1>2, <1>3, ClientOnly
<1> QED
  BY <1>2, <1>4, <1>5, <1>6 DEF Types, Nets

\* The connection is found closed.
LEMMA NoticeKept ==
  ASSUME Types, Nets, NoticeClose
  PROVE  Types' /\ Nets' /\ (ClaimsInv => ClaimsInv')
<1>1. /\ sock' = 0
      /\ UNCHANGED <<rec, n, pending, waitOn, fid, acked, link, sent, replies, decodeVars, srv, job,
                     claims, tasks>>
  BY DEF NoticeClose, netVars, sessionVars, storeVars
<1>2. Types /\ Nets /\ ClientTypes' /\ LinkTypes'
  BY <1>1, BoundsAreNat DEF Types, ClientTypes, LinkTypes
<1>3. \A k \in Conns : (Bears(k)' => Bears(k)) /\ (Finalizes(k)' => Finalizes(k))
  BY <1>1, Unsent
<1>4. Turns' /\ LastFinalizes'
  BY <1>1, <1>2, <1>3 DEF Nets, Turns, LastFinalizes
<1>5. Phases'
  BY <1>1, <1>2, <1>3, QueuedSame DEF Nets, Phases
<1>6. DecodeTypes' /\ HandlerTypes' /\ StoreTypes' /\ (ClaimsInv => ClaimsInv')
  BY <1>1, <1>2, <1>3, ClientOnly
<1> QED
  BY <1>2, <1>4, <1>5, <1>6 DEF Types, Nets

\* The client closes its connection: what it will do next is no recording.
LEMMA Closed ==
  ASSUME Types, Nets, NEW next \in {"upload", "idle"}, CloseAnd(next), fid' \in {fid, 1},
         UNCHANGED <<n, sent, replies, decodeVars, srv, job, claims, tasks>>,
         rec # "recording", acked' \subseteq {1},
         fid' # 1 \/ fid = 1 \/ \A k \in Conns : ~Finalizes(k)
  PROVE  /\ ClientTypes' /\ LinkTypes' /\ Nets'
         /\ \A k \in Conns : Bears(k)' => Bears(k)
<1>1. /\ rec' \in {"upload", "idle"} /\ sock' = 0 /\ waitOn' = 0 /\ pending' = <<>>
      /\ link' = IF sock # 0 /\ link[sock] = "up" THEN [link EXCEPT ![sock] = "closed"] ELSE link
  BY DEF CloseAnd
<1>2. ClientTypes'
  BY <1>1, BoundsAreNat DEF Types, ClientTypes, Phase
<1>3. LinkTypes' /\ \A k \in Conns : link'[k] = "none" <=> link[k] = "none"
  BY <1>1 DEF Types, LinkTypes
<1>4. \A k \in Conns : (Bears(k)' => Bears(k)) /\ (Finalizes(k)' => Finalizes(k))
  BY Unsent
<1>5. Turns' /\ LastFinalizes'
  BY <1>1, <1>3, <1>4 DEF Nets, Turns, LastFinalizes
<1>6. Phases'
  BY <1>1, <1>4, QueuedSame DEF Nets, Phases, Types, ClientTypes
<1> QED
  BY <1>2, <1>3, <1>4, <1>5, <1>6 DEF Nets

\* Only the last connection is sent the finalize, and nothing before it was finalized.
LEMMA SendFinalizeKept ==
  ASSUME Types, Nets, SendFinalize
  PROVE  Types' /\ Nets' /\ (ClaimsInv => ClaimsInv')
<1>1. /\ rec = "stopped" /\ fid' = fid + 1
      /\ UNCHANGED <<n, acked, replies, decodeVars, srv, job, claims, tasks>>
  BY DEF SendFinalize, sessionVars, storeVars
<1>2. /\ Types /\ Nets /\ fid = 0 /\ fid' = 1 /\ 1 \notin DOMAIN claims
      /\ \A k \in Conns : ~Finalizes(k)
  BY <1>1 DEF Nets, Phases
<1>3. CASE sock = 0
  <2>1. CloseAnd("upload") /\ UNCHANGED sent
    BY <1>3 DEF SendFinalize
  <2>2. ClientTypes' /\ LinkTypes' /\ Nets' /\ \A k \in Conns : Bears(k)' => Bears(k)
    BY <1>1, <1>2, <2>1, Closed DEF Types, ClientTypes
  <2>3. DecodeTypes' /\ HandlerTypes' /\ StoreTypes' /\ (ClaimsInv => ClaimsInv')
    BY <1>1, <1>2, <2>2, ClientOnly
  <2> QED
    BY <2>2, <2>3 DEF Types
<1>4. CASE sock # 0
  <2>1. /\ Send(sock, <<Finalize(fid + 1)>>) /\ rec' = "waiting" /\ waitOn' = sock
        /\ UNCHANGED <<link, sock, pending>>
    BY <1>4 DEF SendFinalize
  <2>2. sock \in Conns /\ Finalize(fid + 1) \in Message /\ Finalize(fid + 1).type = "finalize"
    BY <1>2, <1>4, BoundsAreNat DEF Types, ClientTypes, Conns, Finalize, Message
  <2>3. LinkTypes' /\ \A j \in Conns : \A type :
          Has(j, type)' => Has(j, type) \/ (j = sock /\ type = "finalize")
    BY <1>1, <1>2, <2>1, <2>2, SendOne DEF Types, LinkTypes
  <2>4. \A k \in Conns : (Bears(k)' => Bears(k)) /\ (Finalizes(k)' => k = sock)
    BY <1>1, <1>2, <2>3 DEF Finalizes, Bears, Active, decodeVars
  <2>5. ClientTypes'
    BY <1>1, <1>2, <2>1 DEF Types, ClientTypes, Phase
  <2>6. Turns'
    BY <1>1, <1>2, <1>4, <2>1, <2>4 DEF Nets, Turns
  <2>7. Phases'
    BY <1>1, <1>2, <1>4, <2>1, <2>4 DEF Nets, Phases
  <2>8. LastFinalizes'
    <3>1. \A k \in Conns : Bears(k) => k <= sock
      BY <1>2, <1>4, <2>2 DEF Nets, Turns, Conns
    <3> QED
      BY <2>4, <3>1 DEF LastFinalizes
  <2>9. DecodeTypes' /\ HandlerTypes' /\ StoreTypes' /\ (ClaimsInv => ClaimsInv')
    BY <1>1, <1>2, <2>4, ClientOnly
  <2> QED
    BY <2>3, <2>5, <2>6, <2>7, <2>8, <2>9 DEF Types, Nets
<1> QED
  BY <1>3, <1>4

\* A repeated finalize goes to the last connection too.
LEMMA RepeatKept ==
  ASSUME Types, Nets, RepeatFinalize
  PROVE  Types' /\ Nets' /\ (ClaimsInv => ClaimsInv')
<1>1. /\ rec = "waiting" /\ sock # 0 /\ Send(sock, <<Finalize(fid)>>) /\ waitOn' = sock
      /\ replies' = [replies EXCEPT ![waitOn] = {}]
      /\ UNCHANGED <<rec, n, pending, sock, fid, acked, link, decodeVars, srv, job, claims, tasks>>
  BY DEF RepeatFinalize, sessionVars, storeVars
<1>2. Types /\ Nets /\ sock \in Conns /\ fid = 1
  BY <1>1, BoundsAreNat DEF Types, ClientTypes, Conns, Nets, Phases
<1>3. Finalize(fid) \in Message /\ Finalize(fid).type = "finalize"
  BY <1>2 DEF Finalize, Message
<1>4. sent' \in [Conns -> Seq(Message)] /\ \A j \in Conns : \A type :
        Has(j, type)' => Has(j, type) \/ (j = sock /\ type = "finalize")
  BY <1>1, <1>2, <1>3, SendOne DEF Types
<1>5. /\ replies' \in [Conns -> SUBSET Answer]
      /\ \A k \in Conns : replies'[k] \subseteq replies[k]
  BY <1>1, <1>2 DEF Types, LinkTypes
<1>6. ClientTypes' /\ LinkTypes'
  BY <1>1, <1>2, <1>4, <1>5 DEF Types, ClientTypes, LinkTypes
<1>7. \A k \in Conns : (Bears(k)' => Bears(k)) /\ (Finalizes(k)' => Finalizes(k) \/ k = sock)
  BY <1>1, <1>4 DEF Finalizes, Bears, Active, decodeVars
<1>8. Turns'
  BY <1>1, <1>2, <1>7 DEF Nets, Turns
<1>9. Phases'
  BY <1>1, <1>2 DEF Nets, Phases
<1>10. LastFinalizes'
  <2>1. \A k \in Conns : Bears(k) => k <= sock
    BY <1>1, <1>2 DEF Nets, Turns, Conns
  <2> QED
    BY <1>2, <1>7, <2>1 DEF Nets, LastFinalizes
<1>11. DecodeTypes' /\ HandlerTypes' /\ StoreTypes' /\ (ClaimsInv => ClaimsInv')
  BY <1>1, <1>2, <1>5, <1>7, ClientOnly
<1> QED
  BY <1>6, <1>8, <1>9, <1>10, <1>11 DEF Types, Nets

\* An answer, or none in time, ends the wait; what the client takes for a success is one.
LEMMA AnswerKept ==
  ASSUME Types, Nets, ReceiveReply \/ FinalizeTimeout
  PROVE  Types' /\ Nets' /\ (ClaimsInv => ClaimsInv')
<1>1. /\ rec = "waiting" /\ \E next \in {"upload", "idle"} : CloseAnd(next)
      /\ UNCHANGED <<n, fid, sent, replies, decodeVars, srv, job, claims, tasks>>
      /\ acked' = acked \/ (acked' = acked \cup {fid} /\ \E a \in replies[waitOn] :
                              a.status # "error" /\ a.id = fid)
  BY DEF ReceiveReply, FinalizeTimeout, sessionVars, storeVars
<1>2. Types /\ Nets /\ waitOn \in Conns /\ fid = 1
  BY <1>1, BoundsAreNat DEF Types, ClientTypes, Conns, Nets, Phases
<1>3. acked' \subseteq {1} /\ (ClaimsInv => acked' = acked \/ Queued)
  BY <1>1, <1>2 DEF ClaimsInv, AnswersMean, Types, ClientTypes
<1>4. ClientTypes' /\ LinkTypes' /\ Nets' /\ \A k \in Conns : Bears(k)' => Bears(k)
  BY <1>1, <1>2, <1>3, Closed
<1>5. DecodeTypes' /\ HandlerTypes' /\ StoreTypes' /\ (ClaimsInv => ClaimsInv')
  BY <1>1, <1>2, <1>3, <1>4, ClientOnly
<1> QED
  BY <1>4, <1>5 DEF Types

\* A new connection gets what was recorded in between: after a finalize, nothing.
LEMMA ReconnectKept ==
  ASSUME Types, Nets, NEW c \in Conns, Reconnect(c)
  PROVE  Types' /\ Nets' /\ (ClaimsInv => ClaimsInv')
<1>1. /\ rec \in {"recording", "stopped", "waiting"} /\ sock = 0 /\ sock' = c
      /\ link[c] = "none" /\ link' = [link EXCEPT ![c] = "up"]
      /\ \A j \in 1 .. c - 1 : link[j] # "none"
      /\ srv' = [srv EXCEPT ![c] = "ready"] /\ pending' = <<>>
      /\ sent' = [sent EXCEPT ![c] = [i \in 1 .. Len(pending) |-> Chunk(pending[i])]]
      /\ UNCHANGED <<rec, n, waitOn, fid, acked, replies, decodeVars, job, claims, tasks>>
  BY DEF Reconnect, storeVars
<1>2. Types /\ Nets
  OBVIOUS
<1>3. c \in 1 .. MaxConns /\ MaxConns \in Nat
  BY BoundsAreNat DEF Conns
<1> DEFINE ms == [i \in 1 .. Len(pending) |-> Chunk(pending[i])]
<1>4. /\ ms \in Seq(Message) /\ \A i \in DOMAIN ms : ms[i].type = "chunk"
      /\ pending = <<>> => DOMAIN ms = {}
  <2>1. pending \in Seq(Nat)
    BY <1>2 DEF Types, ClientTypes
  <2>2. \A i \in 1 .. Len(pending) :
          Chunk(pending[i]) \in Message /\ Chunk(pending[i]).type = "chunk"
    BY <2>1 DEF Chunk, Message
  <2>3. Len(pending) \in Nat /\ ms \in [1 .. Len(pending) -> Message]
    BY <2>1, <2>2
  <2>4. ms \in Seq(Message)
    BY <2>3
  <2> QED
    BY <2>2, <2>4
<1> HIDE DEF ms
<1>5. ClientTypes' /\ LinkTypes' /\ DecodeTypes' /\ HandlerTypes' /\ StoreTypes'
  <2>1. ClientTypes'
    BY <1>1, <1>2, <1>3 DEF Types, ClientTypes
  <2>2. LinkTypes'
    BY <1>1, <1>2, <1>4 DEF Types, LinkTypes, ms
  <2>3. DecodeTypes' /\ HandlerTypes' /\ StoreTypes'
    BY <1>1, <1>2 DEF Types, DecodeTypes, HandlerTypes, StoreTypes, Place, decodeVars
  <2> QED
    BY <2>1, <2>2, <2>3
<1>6. /\ \A k \in Conns \ {c} : sent'[k] = sent[k] /\ srv'[k] = srv[k] /\ link'[k] = link[k]
      /\ sent'[c] = ms /\ srv'[c] = "ready" /\ link'[c] = "up" /\ srv[c] = "none"
      /\ ~Finalizes(c) /\ ~Bears(c)
  BY <1>1, <1>2 DEF Types, LinkTypes, HandlerTypes, Nets, Turns, ms
<1>7. \A k \in Conns : (Bears(k)' => Bears(k) \/ (k = c /\ fid = 0))
                       /\ (Finalizes(k)' => Finalizes(k)) /\ (Active(k)' <=> Active(k))
  <2>1. \A k \in Conns \ {c} : (Bears(k)' => Bears(k)) /\ (Finalizes(k)' => Finalizes(k))
                               /\ (Active(k)' <=> Active(k))
    BY <1>1, <1>6 DEF Bears, Finalizes, Active, Has, decodeVars
  <2>2. ~Active(c) /\ ~Active(c)' /\ ~Has(c, "finalize")'
    BY <1>4, <1>6 DEF Active, Has
  <2>3. Bears(c)' => fid = 0
    BY <1>1, <1>2, <1>4, <1>6 DEF Bears, Has, decodeVars, Nets, Phases, Types, ClientTypes
  <2> QED
    BY <2>1, <2>2, <2>3 DEF Finalizes
<1>8. Turns'
  <2>1. \A j, k \in Conns : (j < k /\ link'[k] # "none") => link'[j] # "none"
    BY <1>1, <1>2, <1>3, <1>6 DEF Nets, Turns, Conns
  <2>2. \A k \in Conns : k > c => link'[k] = "none"
    BY <1>1, <1>2, <1>3, <1>6 DEF Nets, Turns
  <2>3. \A k \in Conns : link'[k] = "none" => srv'[k] = "none" /\ ~Bears(k)' /\ ~Finalizes(k)'
    BY <1>2, <1>6, <1>7 DEF Nets, Turns
  <2> QED
    BY <1>1, <1>3, <1>6, <2>1, <2>2, <2>3 DEF Turns
<1>9. Phases'
  BY <1>1, <1>2, <1>7, QueuedSame DEF Nets, Phases
<1>10. LastFinalizes'
  BY <1>2, <1>7 DEF Nets, Phases, LastFinalizes
<1>11. ASSUME ClaimsInv PROVE ClaimsInv'
  <2>1. OneFinalPerId' /\ (Queued' <=> Queued)
    BY <1>1, <1>11 DEF ClaimsInv, OneFinalPerId, Queued
  <2>3. \A k \in Conns : Active(k)' => Active(k) /\ (Open(k)' <=> Open(k))
    BY <1>1, <1>6, <1>7 DEF Open, Active
  <2>4. \A k \in Conns : Enough(k)' <=> Enough(k)
    BY <1>1 DEF Enough, decodeVars
  <2>5. \A k \in Conns : (Active(k) \/ srv[k] = "gone") => Active(k)' \/ srv'[k] = "gone"
    BY <1>6, <1>7
  <2>6. (1 \in DOMAIN claims \/ Queued) => \A k \in Conns : Bears(k)' => Bears(k)
    BY <1>2, <1>7 DEF Nets, Phases
  <2> QED
    BY <1>1, <1>11, <2>1, <2>3, <2>4, <2>5, <2>6, ClaimsFrame
<1> QED
  BY <1>5, <1>8, <1>9, <1>10, <1>11 DEF Types, Nets

-----------------------------------------------------------------------------
\* The connection and its handler

\* Connections and claims, when a handler takes nothing up and queues nothing.
LEMMA HandlerOnly ==
  ASSUME Types, Nets,
         UNCHANGED <<rec, pending, fid, sock, waitOn, acked, claims, tasks>>,
         \A k \in Conns : srv[k] = "none" => srv'[k] = "none",
         \A k \in Conns : link'[k] = "none" <=> link[k] = "none",
         \A k \in Conns : \A type : Has(k, type)' => Has(k, type),
         \A k \in Conns : Active(k)' => Active(k) /\ (Open(k)' <=> Open(k)),
         \A k \in Conns : Enough(k) => Enough(k)',
         \A k \in Conns : Bears(k)' => Bears(k),
         \A k \in Conns : (Active(k) \/ srv[k] = "gone") => Active(k)' \/ srv'[k] = "gone",
         \A k \in Conns : \A a \in replies'[k] : a \in replies[k] \/ a.status = "error"
  PROVE  Nets' /\ (ClaimsInv => ClaimsInv')
<1>1. \A k \in Conns : Finalizes(k)' => Finalizes(k)
  BY DEF Finalizes
<1>2. Nets'
  BY <1>1, QueuedSame, NetsFrame
<1>3. (ClaimsInv => OneFinalPerId') /\ (Queued' <=> Queued)
  BY DEF ClaimsInv, OneFinalPerId, Queued
<1> QED
  BY <1>2, <1>3, ClaimsFrame

\* A broken connection loses messages; its handler and its claim stay.
LEMMA CutKept ==
  ASSUME Types, Nets, NEW c \in Conns, Cut(c)
  PROVE  Types' /\ Nets' /\ (ClaimsInv => ClaimsInv')
<1>1. /\ link[c] = "up" /\ link' = [link EXCEPT ![c] = "cut"]
      /\ UNCHANGED <<rec, n, pending, fid, sock, waitOn, acked, decodeVars, srv, job, claims,
                     tasks>>
      /\ replies' = [replies EXCEPT ![c] = {}] \/ UNCHANGED replies
  BY DEF Cut, clientVars, sessionVars, storeVars
<1>2. Types /\ Nets
  OBVIOUS
<1>3. PICK i \in 0 .. Len(sent[c]) : sent' = [sent EXCEPT ![c] = SubSeq(sent[c], 1, i)]
  BY DEF Cut
<1>4. sent[c] \in Seq(Message)
  BY <1>2 DEF Types, LinkTypes
<1>5. /\ SubSeq(sent[c], 1, i) \in Seq(Message)
      /\ \A j \in DOMAIN SubSeq(sent[c], 1, i) :
           j \in DOMAIN sent[c] /\ SubSeq(sent[c], 1, i)[j] = sent[c][j]
  BY <1>4, Shorter
<1>6. ClientTypes' /\ DecodeTypes' /\ HandlerTypes' /\ StoreTypes'
  BY <1>1, <1>2 DEF Types, ClientTypes, DecodeTypes, HandlerTypes, StoreTypes, decodeVars
<1>7. sent' \in [Conns -> Seq(Message)] /\ replies' \in [Conns -> SUBSET Answer]
      /\ \A k \in Conns : replies'[k] \subseteq replies[k]
  BY <1>1, <1>2, <1>3, <1>5 DEF Types, LinkTypes
<1>8. LinkTypes' /\ \A k \in Conns : link'[k] = "none" <=> link[k] = "none"
  BY <1>1, <1>2, <1>7 DEF Types, LinkTypes
<1>9. \A k \in Conns : \A type : Has(k, type)' => Has(k, type)
  <2>1. sent'[c] = SubSeq(sent[c], 1, i) /\ \A k \in Conns \ {c} : sent'[k] = sent[k]
    BY <1>2, <1>3 DEF Types, LinkTypes
  <2> QED
    BY <1>5, <2>1 DEF Has
<1>10. \A k \in Conns : /\ (Active(k)' <=> Active(k)) /\ (Open(k)' <=> Open(k))
                        /\ (Enough(k)' <=> Enough(k)) /\ (Bears(k)' => Bears(k))
  BY <1>1, <1>9 DEF Active, Open, Enough, Bears, decodeVars
<1>11. Nets' /\ (ClaimsInv => ClaimsInv')
  BY <1>1, <1>2, <1>7, <1>8, <1>9, <1>10, HandlerOnly
<1> QED
  BY <1>6, <1>8, <1>11 DEF Types

\* A chunk that is read was there before, and autoprolong finalizes for nobody.
LEMMA ChunkKept ==
  ASSUME Types, Nets, NEW c \in Conns, HandleChunk(c)
  PROVE  Types' /\ Nets' /\ (ClaimsInv => ClaimsInv')
<1>1. /\ Take(c, "chunk")
      /\ UNCHANGED <<rec, n, pending, fid, sock, waitOn, acked, link, replies, claims, tasks>>
  BY DEF HandleChunk, clientVars
<1>2. Types /\ Nets
  OBVIOUS
<1>3. /\ sent' \in [Conns -> Seq(Message)] /\ srv[c] = "ready" /\ Has(c, "chunk")
      /\ Head(sent[c]).val \in Nat
      /\ \A j \in Conns : \A t : Has(j, t)' => Has(j, t)
  BY <1>1, <1>2, TakeOne DEF Types, Message
<1>4. ClientTypes' /\ LinkTypes' /\ StoreTypes'
  BY <1>1, <1>2, <1>3 DEF Types, ClientTypes, LinkTypes, StoreTypes
<1>5. /\ DecodeTypes' /\ \A k \in Conns \ {c} : heard'[k] = heard[k] /\ raw'[k] = raw[k]
                                               /\ fed'[k] = fed[k]
      /\ heard'[c] >= heard[c] /\ raw[c] \subseteq raw'[c]
  <2>1. CASE pcm[c] /\ ~flushed[c]
    <3>1. /\ fed' = [fed EXCEPT ![c] = @ + 1] \/ fed' = fed
          /\ UNCHANGED raw
      BY <2>1 DEF HandleChunk
    <3>2. fed' \in [Conns -> Nat] /\ \A k \in Conns \ {c} : fed'[k] = fed[k]
      BY <1>2, <3>1 DEF Types, DecodeTypes
    <3>3. PICK p \in heard[c] .. fed'[c] : heard' = [heard EXCEPT ![c] = p]
      BY <2>1 DEF HandleChunk
    <3>4. p \in Nat /\ p >= heard[c]
      BY <1>2, <3>2, <3>3 DEF Types, DecodeTypes
    <3> QED
      BY <1>2, <3>1, <3>2, <3>3, <3>4 DEF Types, DecodeTypes
  <2>2. CASE ~(pcm[c] /\ ~flushed[c])
    <3>1. raw' = [raw EXCEPT ![c] = @ \cup {Head(sent[c]).val}] /\ UNCHANGED <<fed, heard>>
      BY <2>2 DEF HandleChunk
    <3> QED
      BY <1>2, <1>3, <3>1 DEF Types, DecodeTypes
  <2> QED
    BY <2>1, <2>2
<1>6. \/ UNCHANGED <<srv, job>>
      \/ srv' = [srv EXCEPT ![c] = "store"] /\ job' = [job EXCEPT ![c] = NoJob]
  BY DEF HandleChunk, Goto
<1>7. /\ HandlerTypes' /\ ~Active(c) /\ ~Active(c)' /\ srv'[c] # "gone"
      /\ \A k \in Conns \ {c} : srv'[k] = srv[k] /\ job'[k] = job[k]
  <2>1. HandlerTypes /\ ~Active(c)
    BY <1>2, <1>3 DEF Types, Active
  <2>2. CASE UNCHANGED <<srv, job>>
    BY <1>3, <2>1, <2>2 DEF HandlerTypes, Active
  <2>3. CASE srv' = [srv EXCEPT ![c] = "store"] /\ job' = [job EXCEPT ![c] = NoJob]
    <3>1. NoJob \in [id : {0, 1}, ok : BOOLEAN] /\ NoJob.id = 0 /\ NoJob.ok /\ "store" \in Place
      BY DEF NoJob, Place
    <3>2. HandlerTypes'
      BY <2>1, <2>3, <3>1 DEF HandlerTypes
    <3>3. job'[c] = NoJob /\ srv'[c] = "store"
      BY <2>1, <2>3 DEF HandlerTypes
    <3> QED
      BY <2>1, <2>3, <3>1, <3>2, <3>3 DEF HandlerTypes, Active
  <2> QED
    BY <1>6, <2>2, <2>3
<1>8. \A k \in Conns : /\ Active(k)' => Active(k) /\ (Open(k)' <=> Open(k))
                       /\ (Active(k) \/ srv[k] = "gone") => Active(k)' \/ srv'[k] = "gone"
                       /\ srv[k] = "none" => srv'[k] = "none"
  BY <1>3, <1>7 DEF Active, Open
<1>9. \A k \in Conns : (Enough(k) => Enough(k)') /\ (Bears(k)' => Bears(k))
  <2>1. \A k \in Conns \ {c} : (Enough(k) => Enough(k)') /\ (Bears(k)' => Bears(k))
    BY <1>3, <1>5 DEF Enough, Bears
  <2>2. Enough(c) => Enough(c)'
    BY <1>2, <1>5 DEF Enough, Types, DecodeTypes
  <2> QED
    BY <1>3, <2>1, <2>2 DEF Bears
<1>10. Nets' /\ (ClaimsInv => ClaimsInv')
  BY <1>1, <1>2, <1>3, <1>8, <1>9, HandlerOnly
<1> QED
  BY <1>4, <1>5, <1>7, <1>10 DEF Types

\* An answer to the client.
LEMMA Replied ==
  ASSUME LinkTypes, NEW c \in Conns, NEW status \in {"accepted", "duplicate", "error"},
         Reply(c, Ack(1, status))
  PROVE  /\ replies' \in [Conns -> SUBSET Answer]
         /\ \A k \in Conns : \A a \in replies'[k] : a \in replies[k] \/ a.status = status
<1>1. Ack(1, status) \in Answer /\ Ack(1, status).status = status
  BY DEF Ack, Answer
<1>2. replies' = replies \/ replies' = [replies EXCEPT ![c] = replies[c] \cup {Ack(1, status)}]
  BY DEF Reply
<1> QED
  BY <1>1, <1>2 DEF LinkTypes

\* What a finalize that is not the first is told.
LEMMA RefusedKept ==
  ASSUME Types, Nets, NEW c \in Conns, FinalizeTooShort(c) \/ FinalizeDuplicate(c)
  PROVE  Types' /\ Nets' /\ (ClaimsInv => ClaimsInv')
<1>1. /\ Take(c, "finalize")
      /\ UNCHANGED <<rec, n, pending, fid, sock, waitOn, acked, link, decodeVars, srv, job, claims,
                     tasks>>
  BY DEF FinalizeTooShort, FinalizeDuplicate, clientVars, sessionVars, storeVars
<1>2. Types /\ Nets
  OBVIOUS
<1>3. /\ sent' \in [Conns -> Seq(Message)] /\ srv[c] = "ready" /\ Has(c, "finalize")
      /\ Head(sent[c]).val = 1
      /\ \A j \in Conns : \A t : Has(j, t)' => Has(j, t)
  BY <1>1, <1>2, TakeOne DEF Types, Message
<1>4. PICK status \in {"error", "duplicate"} :
        Reply(c, Ack(1, status)) /\ (status = "duplicate" => Enough(c) /\ 1 \in DOMAIN claims)
  BY <1>3 DEF FinalizeTooShort, FinalizeDuplicate, Claimed
<1>5. /\ replies' \in [Conns -> SUBSET Answer]
      /\ \A k \in Conns : \A a \in replies'[k] : a \in replies[k] \/ a.status = status
  BY <1>2, <1>4, Replied DEF Types
<1>6. Types'
  BY <1>1, <1>2, <1>3, <1>5 DEF Types, ClientTypes, LinkTypes, DecodeTypes, HandlerTypes,
     StoreTypes, decodeVars
<1>7. \A k \in Conns : /\ (Active(k)' <=> Active(k)) /\ (Open(k)' <=> Open(k))
                       /\ (Enough(k)' <=> Enough(k)) /\ (Bears(k)' => Bears(k))
  BY <1>1, <1>3 DEF Active, Open, Enough, Bears, decodeVars
<1>8. ClaimsInv => (status = "duplicate" => Queued)
  BY <1>2, <1>3, <1>4, NotTheClaimant DEF ClaimsInv, ClaimMeans
<1>9. Nets'
  <2>1. \A k \in Conns : Finalizes(k)' => Finalizes(k)
    BY <1>3, <1>7 DEF Finalizes
  <2> QED
    BY <1>1, <1>2, <1>7, <2>1, QueuedSame, NetsFrame
<1>10. ASSUME ClaimsInv PROVE ClaimsInv'
  <2>1. OneFinalPerId' /\ (Queued' <=> Queued)
    BY <1>1, <1>10 DEF ClaimsInv, OneFinalPerId, Queued
  <2>2. CASE status = "error"
    BY <1>1, <1>5, <1>7, <1>10, <2>1, <2>2, ClaimsFrame
  <2>3. CASE status = "duplicate"
    <3>1. AnswersMean'
      BY <1>8, <1>10, <2>1, <2>3 DEF AnswersMean
    <3>2. ActiveOwns'
      BY <1>1, <1>7, <1>8, <1>10, <2>1, <2>3 DEF ClaimsInv, ActiveOwns
    <3>3. ClaimMeans' /\ TaskClaimed'
      <4>1. claims[1] = "done" /\ Queued /\ 1 \in DOMAIN claims
        BY <1>2, <1>3, <1>4, <1>10, <2>3, NotTheClaimant DEF ClaimsInv, ClaimMeans
      <4> QED
        BY <1>1, <2>1, <4>1 DEF ClaimMeans, TaskClaimed
    <3> QED
      BY <2>1, <3>1, <3>2, <3>3 DEF ClaimsInv
  <2> QED
    BY <2>2, <2>3
<1> QED
  BY <1>6, <1>9, <1>10

\* The first finalize of the last connection with audio claims it.
LEMMA BeginKept ==
  ASSUME Types, Nets, NEW c \in Conns, FinalizeBegin(c)
  PROVE  Types' /\ Nets' /\ (RedisUp = {TRUE} /\ ClaimsInv => ClaimsInv')
<1>1. /\ Take(c, "finalize") /\ Enough(c)
      /\ UNCHANGED <<rec, n, pending, fid, sock, waitOn, acked, link, replies, fed, raw, tasks>>
  BY DEF FinalizeBegin, clientVars
<1>2. Types /\ Nets
  OBVIOUS
<1>3. /\ sent' \in [Conns -> Seq(Message)] /\ srv[c] = "ready" /\ Has(c, "finalize")
      /\ Head(sent[c]).val = 1
      /\ \A j \in Conns : \A t : Has(j, t)' => Has(j, t)
  BY <1>1, <1>2, TakeOne DEF Types, Message
<1>4. /\ (1 \notin DOMAIN claims /\ SetClaim(1, "pending")) \/ UNCHANGED claims
      /\ RedisUp = {TRUE} => 1 \notin DOMAIN claims /\ SetClaim(1, "pending")
  <2>1. PICK up \in RedisUp : IF up THEN ~Claimed(1) /\ SetClaim(1, "pending")
                                    ELSE UNCHANGED claims
    BY <1>3 DEF FinalizeBegin
  <2>2. ASSUME RedisUp = {TRUE} PROVE up
    <3>1. up = TRUE
      BY <2>2
    <3> QED
      BY <3>1
  <2> QED
    BY <2>1, <2>2, Zenon DEF Claimed
<1>5. DOMAIN claims' \subseteq {1} /\ (RedisUp = {TRUE} => DOMAIN claims' = {1})
  BY <1>2, <1>4 DEF SetClaim, Types, StoreTypes
<1>6. job' = [job EXCEPT ![c] = [id |-> 1, ok |-> TRUE]] /\ srv' = [srv EXCEPT ![c] = "store"]
  BY <1>3 DEF FinalizeBegin, Goto
<1>7. /\ HandlerTypes' /\ srv'[c] = "store" /\ job'[c].id = 1
      /\ \A k \in Conns \ {c} : srv'[k] = srv[k] /\ job'[k] = job[k]
  <2>1. [id |-> 1, ok |-> TRUE] \in [id : {0, 1}, ok : BOOLEAN] /\ "store" \in Place
    BY DEF Place
  <2>2. job' \in [Conns -> [id : {0, 1}, ok : BOOLEAN]] /\ job'[c] = [id |-> 1, ok |-> TRUE]
    BY <1>2, <1>6, <2>1 DEF Types, HandlerTypes
  <2>3. srv' \in [Conns -> Place] /\ srv'[c] = "store"
    BY <1>2, <1>6, <2>1 DEF Types, HandlerTypes
  <2>4. \A k \in Conns \ {c} : srv'[k] = srv[k] /\ job'[k] = job[k]
    BY <1>2, <1>6 DEF Types, HandlerTypes
  <2> QED
    BY <1>2, <2>2, <2>3, <2>4 DEF Types, HandlerTypes
<1>8. DecodeTypes' /\ heard'[c] >= heard[c] /\ \A k \in Conns \ {c} : heard'[k] = heard[k]
  <2>1. CASE UNCHANGED heard
    BY <1>1, <1>2, <2>1 DEF Types, DecodeTypes
  <2>2. CASE \E p \in heard[c] .. fed[c] : heard' = [heard EXCEPT ![c] = p]
    <3>1. PICK p \in heard[c] .. fed[c] : heard' = [heard EXCEPT ![c] = p]
      BY <2>2
    <3>2. p \in Nat /\ p >= heard[c]
      BY <1>2, <3>1 DEF Types, DecodeTypes
    <3> QED
      BY <1>1, <1>2, <3>1, <3>2 DEF Types, DecodeTypes
  <2> QED
    BY <2>1, <2>2 DEF FinalizeBegin
<1>9. Types'
  BY <1>1, <1>2, <1>3, <1>5, <1>7, <1>8 DEF Types, ClientTypes, LinkTypes, StoreTypes
<1>10. Enough(c)' /\ Bears(c) /\ Finalizes(c)
  BY <1>1, <1>2, <1>3, <1>8 DEF Enough, Bears, Finalizes, Types, DecodeTypes
<1>11. \A k \in Conns : (Bears(k)' => Bears(k)) /\ (Finalizes(k)' => Finalizes(k))
  BY <1>1, <1>3, <1>7, <1>8, <1>10 DEF Bears, Finalizes, Active
<1>12. Nets'
  <2>1. fid # 0
    BY <1>2, <1>10 DEF Nets, Phases
  <2>2. \A k \in Conns : srv[k] = "none" => srv'[k] = "none"
    BY <1>3, <1>7
  <2> QED
    BY <1>1, <1>2, <1>11, <2>1, <2>2, NetsFrame
<1>13. ASSUME RedisUp = {TRUE}, ClaimsInv PROVE ClaimsInv'
  <2>1. ~Queued
    BY <1>1, <1>2, <1>3, <1>4, <1>13, NotTheClaimant DEF ClaimsInv, TaskClaimed
  <2>2. ~Queued' /\ OneFinalPerId' /\ acked = {}
    BY <1>1, <1>13, <2>1 DEF ClaimsInv, OneFinalPerId, Queued, AnswersMean
  <2>3. \A k \in Conns : Active(k)' <=> k = c
    <3>1. \A k \in Conns : ~Active(k)
      BY <1>4, <1>13 DEF ClaimsInv, ActiveOwns
    <3> QED
      BY <1>7, <3>1 DEF Active
  <2>4. ActiveOwns'
    BY <1>5, <1>7, <1>13, <2>2, <2>3 DEF ActiveOwns, Open
  <2>5. ClaimMeans'
    <3>1. \A j \in Conns : Bears(j)' => j <= c
      BY <1>2, <1>10, <1>11 DEF Nets, LastFinalizes
    <3> QED
      BY <1>10, <2>3, <3>1 DEF ClaimMeans, HasClaimant, Claimant
  <2>6. TaskClaimed' /\ AnswersMean'
    BY <1>1, <1>13, <2>1, <2>2 DEF ClaimsInv, TaskClaimed, AnswersMean
  <2> QED
    BY <2>2, <2>4, <2>5, <2>6 DEF ClaimsInv
<1> QED
  BY <1>9, <1>12, <1>13

\* A handler that goes on, or fails, in the middle of a finalize.
LEMMA ProceedKept ==
  ASSUME Types, Nets, NEW c \in Conns, StoreAudio(c) \/ AddFastRow(c) \/ FinalizeRaises(c)
  PROVE  Types' /\ Nets' /\ (ClaimsInv => ClaimsInv')
<1>1. UNCHANGED <<rec, n, pending, fid, sock, waitOn, acked, link, sent, replies, decodeVars,
                  claims, tasks>>
  BY DEF StoreAudio, AddFastRow, FinalizeRaises, clientVars, netVars, storeVars
<1>2. Types /\ Nets
  OBVIOUS
<1>3. PICK l \in {"row", "send", "settle"} : srv' = [srv EXCEPT ![c] = l]
  BY DEF StoreAudio, AddFastRow, FinalizeRaises, Goto
<1>4. srv[c] \in {"store", "row", "send"} /\ l \in Place
  BY <1>3 DEF StoreAudio, AddFastRow, FinalizeRaises, Place
<1>5. \/ UNCHANGED job /\ l # "settle"
      \/ job' = [job EXCEPT ![c].ok = FALSE] /\ l = "settle"
  <2>1. CASE StoreAudio(c) \/ AddFastRow(c)
    <3>1. UNCHANGED job /\ (srv' = [srv EXCEPT ![c] = "row"] \/ srv' = [srv EXCEPT ![c] = "send"])
      BY <2>1 DEF StoreAudio, AddFastRow, Goto
    <3> QED
      BY <1>2, <1>3, <3>1 DEF Types, HandlerTypes
  <2>2. CASE FinalizeRaises(c)
    <3>1. job' = [job EXCEPT ![c].ok = FALSE] /\ srv' = [srv EXCEPT ![c] = "settle"]
      BY <2>2 DEF FinalizeRaises, Goto
    <3> QED
      BY <1>2, <1>3, <3>1 DEF Types, HandlerTypes
  <2> QED
    BY <2>1, <2>2
<1>6. /\ HandlerTypes' /\ srv'[c] = l /\ job'[c].id = job[c].id /\ (l = "settle" => ~job'[c].ok)
      /\ \A k \in Conns \ {c} : srv'[k] = srv[k] /\ job'[k] = job[k]
  <2>1. srv' \in [Conns -> Place] /\ srv'[c] = l /\ \A k \in Conns \ {c} : srv'[k] = srv[k]
    BY <1>2, <1>3, <1>4 DEF Types, HandlerTypes
  <2>2. CASE UNCHANGED job /\ l # "settle"
    BY <1>2, <1>4, <2>1, <2>2 DEF Types, HandlerTypes
  <2>3. CASE job' = [job EXCEPT ![c].ok = FALSE] /\ l = "settle"
    <3>1. job[c] \in [id : {0, 1}, ok : BOOLEAN]
      BY <1>2 DEF Types, HandlerTypes
    <3>2. job' \in [Conns -> [id : {0, 1}, ok : BOOLEAN]] /\ job'[c].id = job[c].id
          /\ job'[c].ok = FALSE /\ \A k \in Conns \ {c} : job'[k] = job[k]
      BY <1>2, <2>3, <3>1 DEF Types, HandlerTypes
    <3> QED
      BY <1>2, <2>1, <2>3, <3>2 DEF Types, HandlerTypes
  <2> QED
    BY <1>5, <2>2, <2>3
<1>7. Types'
  BY <1>1, <1>2, <1>6 DEF Types, ClientTypes, LinkTypes, DecodeTypes, StoreTypes, decodeVars
<1>8. \A k \in Conns : /\ (Active(k)' <=> Active(k)) /\ (Open(k)' <=> Open(k))
                       /\ (srv[k] \in {"none", "gone"} => srv'[k] = srv[k])
  BY <1>3, <1>4, <1>6 DEF Active, Open
<1>9. \A k \in Conns : /\ (Enough(k)' <=> Enough(k)) /\ (Bears(k)' => Bears(k))
                       /\ \A t : Has(k, t)' => Has(k, t)
  BY <1>1 DEF Enough, Bears, Has, decodeVars
<1>10. Nets' /\ (ClaimsInv => ClaimsInv')
  BY <1>1, <1>2, <1>8, <1>9, HandlerOnly
<1> QED
  BY <1>7, <1>10

\* A task more: it is of the finalize that has the claim, or of none.
LEMMA Appended ==
  ASSUME StoreTypes, NEW id \in {0, 1}, NEW ext \in Exts,
         tasks' = Append(tasks, [id |-> id, ext |-> ext])
  PROVE  /\ tasks' \in Seq(Task)
         /\ Queued' <=> Queued \/ id = 1
         /\ OneFinalPerId /\ (id = 0 \/ ~Queued) => OneFinalPerId'
<1> DEFINE t == [id |-> id, ext |-> ext]
<1>1. t \in Task /\ t.id = id
  BY DEF Task
<1> HIDE DEF t
<1>2. tasks \in Seq(Task) /\ tasks' = Append(tasks, t)
  BY DEF StoreTypes, t
<1>3. tasks' \in Seq(Task)
  BY <1>1, <1>2
<1>4. /\ Len(tasks) \in Nat /\ DOMAIN tasks = 1 .. Len(tasks)
      /\ DOMAIN tasks' = 1 .. Len(tasks) + 1 /\ tasks'[Len(tasks) + 1] = t
      /\ \A i \in DOMAIN tasks : tasks'[i] = tasks[i]
  BY <1>1, <1>2
<1>5. \A i \in DOMAIN tasks' : i \in DOMAIN tasks \/ i = Len(tasks) + 1
  BY <1>4
<1>6. DOMAIN tasks \subseteq DOMAIN tasks' /\ Len(tasks) + 1 \in DOMAIN tasks'
  BY <1>4
<1>7. Queued' <=> Queued \/ id = 1
  BY <1>1, <1>4, <1>5, <1>6 DEF Queued
<1>8. ASSUME OneFinalPerId, id = 0 \/ ~Queued PROVE OneFinalPerId'
  <2> SUFFICES ASSUME NEW i \in DOMAIN tasks', NEW j \in DOMAIN tasks', i # j,
                      tasks'[i].id = tasks'[j].id
               PROVE  tasks'[i].id = 0
    BY DEF OneFinalPerId
  <2>1. CASE i \in DOMAIN tasks /\ j \in DOMAIN tasks
    BY <1>4, <1>8, <2>1 DEF OneFinalPerId
  <2>2. CASE i \notin DOMAIN tasks \/ j \notin DOMAIN tasks
    <3>1. tasks'[i].id = id
      BY <1>1, <1>4, <1>5, <2>2
    <3>2. (i \in DOMAIN tasks /\ tasks[i].id = id) \/ (j \in DOMAIN tasks /\ tasks[j].id = id)
      BY <1>4, <1>5, <2>2, <3>1
    <3> QED
      BY <1>8, <3>1, <3>2 DEF Queued
  <2> QED
    BY <2>1, <2>2
<1> QED
  BY <1>3, <1>7, <1>8

\* The handler that has the claim queues its task, the only one.
LEMMA QueueKept ==
  ASSUME Types, Nets, NEW c \in Conns, QueueFinal(c)
  PROVE  Types' /\ Nets' /\ (ClaimsInv => ClaimsInv')
<1>1. /\ srv[c] = "send" /\ srv' = [srv EXCEPT ![c] = "settle"]
      /\ tasks' = Append(tasks, [id |-> job[c].id, ext |-> ExtOf(c)])
      /\ UNCHANGED <<rec, n, pending, fid, sock, waitOn, acked, link, sent, replies, decodeVars,
                     job, claims>>
  BY DEF QueueFinal, Goto, clientVars, netVars
<1>2. Types /\ Nets
  OBVIOUS
<1>3. job[c].id \in {0, 1} /\ job[c].ok /\ ExtOf(c) \in Exts
  BY <1>1, <1>2 DEF Types, HandlerTypes, ExtOf, Exts
<1>4. /\ tasks' \in Seq(Task) /\ (Queued' <=> Queued \/ job[c].id = 1)
      /\ OneFinalPerId /\ (job[c].id = 0 \/ ~Queued) => OneFinalPerId'
  BY <1>1, <1>2, <1>3, Appended DEF Types
<1>5. /\ HandlerTypes' /\ srv'[c] = "settle" /\ \A k \in Conns \ {c} : srv'[k] = srv[k]
  BY <1>1, <1>2 DEF Types, HandlerTypes, Place
<1>6. Types'
  BY <1>1, <1>2, <1>4, <1>5 DEF Types, ClientTypes, LinkTypes, DecodeTypes, StoreTypes, decodeVars
<1>7. \A k \in Conns : /\ (Active(k)' <=> Active(k)) /\ (Enough(k)' <=> Enough(k))
                       /\ (Bears(k)' <=> Bears(k)) /\ (Finalizes(k)' <=> Finalizes(k))
  BY <1>1, <1>5 DEF Active, Enough, Bears, Finalizes, Has, decodeVars
<1>8. job[c].id = 1 => Active(c) /\ (ClaimsInv => ~Queued) /\ fid # 0
  BY <1>1, <1>2 DEF Active, ClaimsInv, ActiveOwns, Open, Nets, Phases, Finalizes
<1>9. Nets'
  BY <1>1, <1>2, <1>4, <1>5, <1>7, <1>8, NetsFrame
<1>10. ClaimsInv => OneFinalPerId'
  BY <1>2, <1>3, <1>4, <1>8 DEF ClaimsInv
<1>11. ASSUME ClaimsInv PROVE ActiveOwns'
  <2> SUFFICES ASSUME NEW k \in Conns, Active(k)'
               PROVE  /\ 1 \in DOMAIN claims' /\ (Open(k)' <=> ~Queued')
                      /\ \A j \in Conns : Active(j)' => j = k
    BY DEF ActiveOwns
  <2>1. Active(k) /\ 1 \in DOMAIN claims' /\ (Open(k) <=> ~Queued)
        /\ \A j \in Conns : Active(j)' => j = k
    BY <1>1, <1>7, <1>11 DEF ClaimsInv, ActiveOwns
  <2>2. CASE k = c
    BY <1>1, <1>3, <1>4, <1>5, <2>1, <2>2 DEF Open, Active
  <2>3. CASE k # c
    <3>1. job[c].id = 0
      BY <1>3, <1>7, <1>8, <1>11, <2>1, <2>3
    <3> QED
      BY <1>1, <1>4, <1>5, <2>1, <2>3, <3>1 DEF Open
  <2> QED
    BY <2>1, <2>2, <2>3
<1>12. HasClaimant => HasClaimant'
  BY <1>1, <1>5, <1>7 DEF HasClaimant, Claimant
<1>13. ClaimsInv => ClaimMeans' /\ TaskClaimed'
  BY <1>1, <1>2, <1>4, <1>8, <1>12
  DEF ClaimsInv, ClaimMeans, TaskClaimed, ActiveOwns
<1>14. ClaimsInv => AnswersMean'
  BY <1>1, <1>2, <1>4 DEF ClaimsInv, AnswersMean
<1> QED
  BY <1>6, <1>9, <1>10, <1>11, <1>13, <1>14 DEF ClaimsInv

\* Only the handler whose task is queued accepts, and keeps its claim.
LEMMA SettleKept ==
  ASSUME Types, Nets, NEW c \in Conns, SettleFinalize(c)
  PROVE  Types' /\ Nets' /\ (RedisUp = {TRUE} /\ ClaimsInv => ClaimsInv')
<1>1. /\ srv[c] = "settle" /\ job[c].id # 0 /\ srv' = [srv EXCEPT ![c] = "ready"]
      /\ UNCHANGED <<rec, n, pending, fid, sock, waitOn, acked, link, sent, decodeVars, job, tasks>>
  BY DEF SettleFinalize, Goto, clientVars
<1>2. job[c].id = 1 /\ Active(c) /\ fid # 0
  BY <1>1 DEF Types, HandlerTypes, Active, Nets, Phases, Finalizes
<1>3. PICK status \in {"accepted", "error"} :
        Reply(c, Ack(1, status)) /\ (status = "accepted" <=> job[c].ok)
  BY <1>2 DEF SettleFinalize, Settle
<1>4. /\ replies' \in [Conns -> SUBSET Answer]
      /\ \A k \in Conns : \A a \in replies'[k] : a \in replies[k] \/ a.status = status
  BY <1>3, Replied DEF Types
<1>5. \/ UNCHANGED claims /\ RedisUp # {TRUE}
      \/ IF job[c].ok THEN SetClaim(1, "done") ELSE DropClaim(1)
  <2>1. PICK up \in RedisUp :
          IF ~up THEN UNCHANGED claims
          ELSE IF job[c].ok THEN SetClaim(1, "done") ELSE DropClaim(1)
    BY <1>2 DEF SettleFinalize, Settle
  <2>2. ASSUME RedisUp = {TRUE} PROVE up
    <3>1. up = TRUE
      BY <2>2
    <3> QED
      BY <3>1
  <2> QED
    BY <2>1, <2>2, Zenon
<1>6. DOMAIN claims' \subseteq {1}
  <2>1. CASE UNCHANGED claims
    BY <2>1 DEF Types, StoreTypes
  <2>2. CASE SetClaim(1, "done") \/ DropClaim(1)
    BY <2>2 DEF SetClaim, DropClaim, Types, StoreTypes
  <2> QED
    BY <1>5, <2>1, <2>2
<1>7. /\ HandlerTypes' /\ srv'[c] = "ready" /\ \A k \in Conns \ {c} : srv'[k] = srv[k]
  BY <1>1 DEF Types, HandlerTypes, Place
<1>8. Types'
  BY <1>1, <1>4, <1>6, <1>7 DEF Types, ClientTypes, LinkTypes, DecodeTypes, StoreTypes,
     decodeVars
<1>9. \A k \in Conns : /\ (Active(k)' <=> Active(k) /\ k # c) /\ (Bears(k)' <=> Bears(k))
                       /\ (Finalizes(k)' => Finalizes(k))
                       /\ (srv[k] = "none" => srv'[k] = "none")
  BY <1>1, <1>7 DEF Active, Bears, Finalizes, Has, decodeVars
<1>10. Nets'
  BY <1>1, <1>2, <1>9, QueuedSame, NetsFrame
<1>11. ASSUME RedisUp = {TRUE}, ClaimsInv PROVE ClaimsInv'
  <2>1. /\ 1 \in DOMAIN claims /\ (job[c].ok <=> Queued)
        /\ \A k \in Conns : ~Active(k)'
    BY <1>1, <1>2, <1>9, <1>11 DEF ClaimsInv, ActiveOwns, Open
  <2>2. /\ DOMAIN claims' = IF job[c].ok THEN {1} ELSE {}
        /\ job[c].ok => claims'[1] = "done"
    <3>1. DOMAIN claims = {1}
      BY <2>1 DEF Types, StoreTypes
    <3>2. CASE job[c].ok
      BY <1>5, <1>11, <3>1, <3>2 DEF SetClaim
    <3>3. CASE ~job[c].ok
      BY <1>5, <1>11, <3>1, <3>3 DEF DropClaim
    <3> QED
      BY <3>2, <3>3
  <2>3. OneFinalPerId' /\ (Queued' <=> Queued)
    BY <1>1, <1>11 DEF ClaimsInv, OneFinalPerId, Queued
  <2>4. ActiveOwns' /\ ClaimMeans' /\ TaskClaimed'
    BY <2>1, <2>2, <2>3 DEF ActiveOwns, ClaimMeans, TaskClaimed
  <2>5. AnswersMean'
    BY <1>1, <1>3, <1>4, <1>11, <2>1, <2>3 DEF ClaimsInv, AnswersMean
  <2> QED
    BY <2>3, <2>4, <2>5 DEF ClaimsInv
<1> QED
  BY <1>8, <1>10, <1>11

\* A handler that ends, or has autoprolonged, has no claim of a client.
LEMMA EndKept ==
  ASSUME Types, Nets, NEW c \in Conns, Handoff(c) \/ NoHandoff(c) \/ Disconnected(c)
  PROVE  Types' /\ Nets' /\ (ClaimsInv => ClaimsInv')
<1>1. UNCHANGED <<rec, n, pending, fid, sock, waitOn, acked, replies, decodeVars, job, claims,
                  tasks>>
  BY DEF Handoff, NoHandoff, Disconnected, clientVars, netVars, storeVars
<1>2. Types /\ Nets
  OBVIOUS
<1>3. PICK l \in {"ready", "gone"} : srv' = [srv EXCEPT ![c] = l]
  BY DEF Handoff, NoHandoff, Disconnected, Goto
<1>4. srv[c] \in {"ready", "settle"} /\ ~Active(c) /\ l \in Place
  BY <1>3 DEF Handoff, NoHandoff, Disconnected, Active, Place
<1>5. /\ HandlerTypes' /\ srv'[c] = l /\ \A k \in Conns \ {c} : srv'[k] = srv[k]
  BY <1>1, <1>2, <1>3, <1>4 DEF Types, HandlerTypes
<1>6. sent' = sent \/ sent' = [sent EXCEPT ![c] = <<>>]
  BY DEF Handoff, NoHandoff, Disconnected, netVars
<1>7. sent' \in [Conns -> Seq(Message)] /\ \A k \in Conns : \A t : Has(k, t)' => Has(k, t)
  <2>1. CASE sent' = sent
    BY <1>2, <2>1 DEF Types, LinkTypes, Has
  <2>2. CASE sent' = [sent EXCEPT ![c] = <<>>]
    <3>1. sent' \in [Conns -> Seq(Message)] /\ sent'[c] = <<>>
          /\ \A k \in Conns \ {c} : sent'[k] = sent[k]
      BY <1>2, <2>2 DEF Types, LinkTypes
    <3> QED
      BY <3>1 DEF Has
  <2> QED
    BY <1>6, <2>1, <2>2
<1>8. link' \in [Conns -> {"none", "up", "cut", "closed"}]
      /\ \A k \in Conns : link'[k] = "none" <=> link[k] = "none"
  <2>1. CASE UNCHANGED link
    BY <1>2, <2>1 DEF Types, LinkTypes
  <2>2. CASE link' = [link EXCEPT ![c] = IF @ = "up" THEN "cut" ELSE @]
    BY <1>2, <2>2 DEF Types, LinkTypes
  <2> QED
    BY <2>1, <2>2 DEF Handoff, NoHandoff, Disconnected, netVars
<1>9. Types'
  BY <1>1, <1>2, <1>5, <1>7, <1>8 DEF Types, ClientTypes, LinkTypes, DecodeTypes, StoreTypes,
     decodeVars
<1>10. \A k \in Conns : /\ (Active(k)' <=> Active(k)) /\ (Active(k) => (Open(k)' <=> Open(k)))
                        /\ (Enough(k)' <=> Enough(k)) /\ (Bears(k)' => Bears(k))
                        /\ (srv[k] \in {"none", "gone"} => srv'[k] = srv[k])
  BY <1>1, <1>3, <1>4, <1>5, <1>7 DEF Active, Open, Enough, Bears, decodeVars
<1>11. Nets' /\ (ClaimsInv => ClaimsInv')
  BY <1>1, <1>2, <1>7, <1>8, <1>10, HandlerOnly
<1> QED
  BY <1>9, <1>11

-----------------------------------------------------------------------------
\* The upload and the rest of the system

\* The task of an upload is of no finalize.
LEMMA UploadKept ==
  ASSUME Types, Nets, NEW i \in DOMAIN upload, UploadSend(i)
  PROVE  Types' /\ Nets' /\ (ClaimsInv => ClaimsInv')
<1>1. /\ tasks' = Append(tasks, [id |-> 0, ext |-> "webm"])
      /\ UNCHANGED <<rec, n, pending, fid, sock, waitOn, acked, link, sent, replies, decodeVars,
                     srv,
                     job, claims>>
  BY DEF UploadSend, clientVars, netVars, sessionVars
<1>2. Types /\ Nets
  OBVIOUS
<1>3. tasks' \in Seq(Task) /\ (Queued' <=> Queued) /\ (ClaimsInv => OneFinalPerId')
  BY <1>1, <1>2, Appended DEF Types, Exts, ClaimsInv
<1>4. Types'
  BY <1>1, <1>2, <1>3 DEF Types, ClientTypes, LinkTypes, DecodeTypes, HandlerTypes, StoreTypes,
     decodeVars
<1>5. \A k \in Conns : /\ (Active(k)' <=> Active(k)) /\ (Open(k)' <=> Open(k))
                       /\ (Enough(k)' <=> Enough(k)) /\ (Bears(k)' <=> Bears(k))
                       /\ (Finalizes(k)' <=> Finalizes(k))
  BY <1>1 DEF Active, Open, Enough, Bears, Finalizes, Has, decodeVars
<1>6. Nets'
  BY <1>1, <1>2, <1>3, <1>5, NetsFrame
<1>7. (ClaimsInv => ClaimsInv')
  BY <1>1, <1>2, <1>3, <1>5, ClaimsFrame
<1> QED
  BY <1>4, <1>6, <1>7

\* Steps that touch neither connections nor claims nor tasks.
LEMMA Elsewhere ==
  ASSUME Types, Nets, rec' \in {rec, "uploading", "idle", "failed"},
         UNCHANGED <<n, pending, sock, waitOn, fid, acked, netVars, sessionVars, claims, tasks>>
  PROVE  Types' /\ Nets' /\ (ClaimsInv => ClaimsInv')
<1>1. Types /\ Nets
  OBVIOUS
<1>2. UNCHANGED <<n, pending, sock, waitOn, fid, acked, link, sent, replies, decodeVars, srv, job,
                  claims, tasks>>
  BY DEF netVars, sessionVars
<1>3. Types'
  BY <1>1, <1>2 DEF Types, ClientTypes, Phase, LinkTypes, DecodeTypes, HandlerTypes, StoreTypes,
     decodeVars
<1>4. \A k \in Conns : (Bears(k)' => Bears(k)) /\ (Finalizes(k)' => Finalizes(k))
  BY <1>2, Unsent
<1>5. Nets'
  BY <1>1, <1>2, <1>4, QueuedSame, NetsFrame
<1>6. (ClaimsInv => ClaimsInv')
  BY <1>1, <1>2, <1>4, ClientOnly
<1> QED
  BY <1>3, <1>5, <1>6

\* With the process ends every finalize under way; its claim stays, and refuses others.
LEMMA CrashKept ==
  ASSUME Types, Nets, Crash
  PROVE  Types' /\ Nets' /\ (ClaimsInv => ClaimsInv')
<1>1. /\ srv' = [k \in Conns |-> IF srv[k] = "none" THEN "none" ELSE "gone"]
      /\ link' = [k \in Conns |-> IF link[k] = "up" THEN "cut" ELSE link[k]]
      /\ sent' = [k \in Conns |-> <<>>]
      /\ UNCHANGED <<rec, n, pending, fid, sock, waitOn, acked, replies, decodeVars, job, claims,
                     tasks>>
  BY DEF Crash, clientVars, storeVars
<1>2. Types /\ Nets
  OBVIOUS
<1>3. \A k \in Conns : srv'[k] \in {"none", "gone"} /\ (srv[k] # "none" => srv'[k] = "gone")
                       /\ (srv[k] = "none" => srv'[k] = "none")
  BY <1>1
<1>4. HandlerTypes'
  BY <1>1, <1>2, <1>3 DEF Types, HandlerTypes, Place
<1>5. LinkTypes' /\ \A k \in Conns : (link'[k] = "none" <=> link[k] = "none")
                                     /\ \A t : Has(k, t)' => Has(k, t)
  BY <1>1, <1>2 DEF Types, LinkTypes, Has
<1>6. Types'
  BY <1>1, <1>2, <1>4, <1>5 DEF Types, ClientTypes, DecodeTypes, StoreTypes, decodeVars
<1>7. \A k \in Conns : /\ ~Active(k)' /\ (Active(k) \/ srv[k] = "gone" => srv'[k] = "gone")
                       /\ (Enough(k)' <=> Enough(k)) /\ (Bears(k)' => Bears(k))
  BY <1>1, <1>3, <1>5 DEF Active, Enough, Bears, decodeVars
<1>8. Nets' /\ (ClaimsInv => ClaimsInv')
  BY <1>1, <1>2, <1>3, <1>5, <1>7, HandlerOnly
<1> QED
  BY <1>6, <1>8

\* A claim that expires is of a handler that is gone: its connection is claimant still.
LEMMA ExpireKept ==
  ASSUME Types, Nets, NEW f \in DOMAIN claims, ExpireClaim(f)
  PROVE  Types' /\ Nets' /\ (ClaimsInv => ClaimsInv')
<1>1. /\ claims[f] = "pending" /\ DropClaim(f)
      /\ \A k \in Conns : srv[k] \in {"store", "row", "send", "settle"} => job[k].id # f
      /\ UNCHANGED <<rec, n, pending, fid, sock, waitOn, acked, link, sent, replies, decodeVars,
                     srv, job, tasks>>
  BY DEF ExpireClaim, clientVars, netVars, sessionVars
<1>2. Types /\ Nets /\ f = 1
  BY DEF Types, StoreTypes
<1>3. DOMAIN claims' = {}
  BY <1>1, <1>2 DEF DropClaim, Types, StoreTypes
<1>4. Types'
  BY <1>1, <1>2, <1>3 DEF Types, ClientTypes, LinkTypes, DecodeTypes, HandlerTypes, StoreTypes,
     decodeVars
<1>5. \A k \in Conns : /\ ~Active(k)' /\ (Active(k)' <=> Active(k)) /\ (Enough(k)' <=> Enough(k))
                       /\ (Bears(k)' <=> Bears(k)) /\ (Finalizes(k)' <=> Finalizes(k))
  BY <1>1, <1>2 DEF Active, Enough, Bears, Finalizes, Has, decodeVars
<1>6. (ClaimsInv => OneFinalPerId') /\ (Queued' <=> Queued)
  BY <1>1, <1>2 DEF ClaimsInv, OneFinalPerId, Queued
<1>7. Nets'
  BY <1>1, <1>2, <1>3, <1>5, <1>6, NetsFrame
<1>8. ASSUME ClaimsInv PROVE HasClaimant'
  <2>1. HasClaimant
    BY <1>1, <1>2, <1>8 DEF ClaimsInv, ClaimMeans
  <2> QED
    BY <1>1, <1>5, <2>1 DEF HasClaimant, Claimant
<1>9. ClaimsInv => ActiveOwns' /\ ClaimMeans' /\ TaskClaimed'
  BY <1>3, <1>5, <1>8 DEF ActiveOwns, ClaimMeans, TaskClaimed
<1>10. ClaimsInv => AnswersMean'
  BY <1>1, <1>2, <1>6 DEF ClaimsInv, AnswersMean
<1> QED
  BY <1>4, <1>6, <1>7, <1>9, <1>10 DEF ClaimsInv

-----------------------------------------------------------------------------
\* The theorems

\* Every step keeps what is known of the connections; as long as Redis works, also what
\* the claims mean.
LEMMA StepKept ==
  ASSUME Types, Nets, [Next]_vars
  PROVE  Types' /\ Nets' /\ (RedisUp = {TRUE} /\ ClaimsInv => ClaimsInv')
<1>1. CASE \E k \in Conns : Handler(k)
  <2>1. PICK k \in Conns : Handler(k)
    BY <1>1
  <2> QED
    BY <2>1, ChunkKept, RefusedKept, BeginKept, ProceedKept, QueueKept, SettleKept, EndKept
    DEF Handler
<1>2. CASE \E k \in Conns : Cut(k) \/ Reconnect(k) \/ FinalizeRaises(k)
  BY <1>2, CutKept, ReconnectKept, ProceedKept
<1>3. CASE Record \/ Stop \/ NoticeClose \/ SendFinalize \/ ReceiveReply \/ FinalizeTimeout
           \/ RepeatFinalize
  BY <1>3, RecordKept, StopKept, NoticeKept, SendFinalizeKept, AnswerKept, RepeatKept
<1>4. CASE BeginUpload \/ UploadAnswered \/ UploadAnswerLost
  <2>1. rec' \in {rec, "uploading", "idle", "failed"}
    BY <1>4 DEF BeginUpload, UploadAnswered, UploadAnswerLost
  <2>2. UNCHANGED <<n, pending, sock, waitOn, fid, acked, netVars, sessionVars, claims, tasks>>
    BY <1>4 DEF BeginUpload, UploadAnswered, UploadAnswerLost, storeVars
  <2> QED
    BY <2>1, <2>2, Elsewhere
<1>5. CASE \E i \in DOMAIN upload : UploadStore(i) \/ UploadRaises(i)
  BY <1>5, Elsewhere DEF UploadStore, UploadRaises, clientVars, storeVars
<1>6. CASE \E i \in DOMAIN upload : UploadSend(i)
  BY <1>6, UploadKept
<1>7. CASE Crash
  BY <1>7, CrashKept
<1>8. CASE Worker \/ Delete
  BY <1>8, Elsewhere DEF Worker, Delete, clientVars
<1>9. CASE UNCHANGED vars
  BY <1>9, Elsewhere DEF vars, clientVars, storeVars
<1>10. CASE \E f \in DOMAIN claims : ExpireClaim(f)
  BY <1>10, ExpireKept
<1> QED
  BY <1>1, <1>2, <1>3, <1>4, <1>5, <1>6, <1>7, <1>8, <1>9, <1>10 DEF Next, Recorder, Uploader

\* With Redis, the claims of finalize ids mean what the handlers take them for: the handler
\* of the last connection with audio holds the claim, until its task is queued.
THEOREM Invariance ==
  ASSUME RedisUp = {TRUE}
  PROVE  Spec => []IInv
<1>1. Init => IInv
  BY Initially
<1>2. IInv /\ [Next]_vars => IInv'
  BY StepKept DEF IInv
<1> QED
  BY <1>1, <1>2, PTL DEF Spec

\* However often a client repeats its finalize, on however many connections, whatever is cut
\* or crashes between the claim and the task, and also when the claim of a handler that died
\* has expired, one task is queued for it.
THEOREM OneFinal ==
  ASSUME RedisUp = {TRUE}
  PROVE  Spec => []OneFinalPerId
<1>1. IInv => OneFinalPerId
  BY DEF IInv, ClaimsInv
<1> QED
  BY <1>1, Invariance, PTL

\* A client that was told its finalize is accepted, or is a duplicate, may drop what it
\* recorded: the task is queued, even if its handler has not got to the end yet.
THEOREM AcksSafe ==
  ASSUME RedisUp = {TRUE}
  PROVE  Spec => []AckedIsQueued
<1>1. ASSUME IInv PROVE AckedIsQueued
  <2>1. acked \subseteq {1} /\ (acked # {} => \E i \in DOMAIN tasks : tasks[i].id = 1)
    BY <1>1 DEF IInv, Types, ClientTypes, ClaimsInv, AnswersMean, Queued
  <2> QED
    BY <2>1 DEF AckedIsQueued
<1> QED
  BY <1>1, Invariance, PTL

=============================================================================
