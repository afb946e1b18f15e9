------------------------ MODULE SessionCurrentProofs ------------------------
(***************************************************************************)
(* Further proofs about SessionSummary: its type invariant; the order of   *)
(* the chain; that the summary is made from what is shown, and the vector  *)
(* of a transcript from its text, once nothing is left to do.              *)
(***************************************************************************)
EXTENDS SessionSummaryProofs, EnumerationProofs

-----------------------------------------------------------------------------
\* The order of the chain

\* The conversations of a set, each once, by time.
LEMMA TimeOrders ==
  ASSUME NEW S \in SUBSET Nat, IsFiniteSet(S)
  PROVE  /\ ByTime(S) \in Seq(S) /\ Cardinality(S) \in Nat /\ Len(ByTime(S)) = Cardinality(S)
         /\ DOMAIN ByTime(S) = 1 .. Cardinality(S)
         /\ \A c \in S : \E i \in DOMAIN ByTime(S) : ByTime(S)[i] = c
         /\ \A i, j \in DOMAIN ByTime(S) : ByTime(S)[j] < ByTime(S)[i] => j < i
<1> DEFINE n == Cardinality(S)
<1>1. /\ n \in Nat /\ \A i \in 1 .. n : Ascending(S)[i] \in S /\ Rank(S, Ascending(S)[i]) = i
      /\ \A c \in S : \E i \in 1 .. n : Ascending(S)[i] = c
  BY Ascends
<1>2. Ascending(S) = [i \in 1 .. n |-> Ascending(S)[i]]
  BY DEF Ascending
<1>3. Ascending(S) \in [1 .. n -> S]
  BY <1>1, <1>2
<1> HIDE DEF n
<1>4. Ascending(S) \in Seq(S) /\ DOMAIN Ascending(S) = 1 .. n /\ Len(Ascending(S)) = n
  BY <1>1, <1>3
<1>5. \A c, d \in S : c < d => Rank(S, c) < Rank(S, d)
  BY Ranks
<1>6. \A i, j \in 1 .. n : Ascending(S)[j] < Ascending(S)[i] => j < i
  BY <1>1, <1>5
<1>7. ByTime(S) = Ascending(S)
  BY DEF ByTime
<1> QED
  BY <1>1, <1>4, <1>6, <1>7 DEF n

\* What rises from each place to the next rises.
LEMMA Rises ==
  ASSUME NEW n \in Nat, NEW p \in [1 .. n -> Nat], \A i \in 2 .. n : p[i - 1] < p[i]
  PROVE  \A i, j \in 1 .. n : i < j => p[i] < p[j]
<1> DEFINE Far == {k \in Nat : \A i \in 1 .. n : i + k + 1 <= n => p[i] < p[i + k + 1]}
<1>1. 0 \in Far
  <2> SUFFICES ASSUME NEW i \in 1 .. n, i + 1 <= n PROVE p[i] < p[i + 1]
    BY DEF Far
  <2>1. i + 1 \in 2 .. n /\ (i + 1) - 1 = i
    OBVIOUS
  <2> QED
    BY <2>1
<1>2. ASSUME NEW k \in Nat, k \in Far PROVE k + 1 \in Far
  <2> SUFFICES ASSUME NEW i \in 1 .. n, i + (k + 1) + 1 <= n PROVE p[i] < p[i + (k + 1) + 1]
    BY DEF Far
  <2> DEFINE j == i + k + 1
  <2>1. j \in 1 .. n /\ j + 1 \in 2 .. n /\ (j + 1) - 1 = j /\ i + (k + 1) + 1 = j + 1
    OBVIOUS
  <2>2. p[i] < p[j]
    BY <1>2, <2>1 DEF Far
  <2>3. j + 1 \in 1 .. n
    BY <2>1
  <2> HIDE DEF j
  <2>4. p[j] < p[j + 1] /\ p[i] \in Nat /\ p[j] \in Nat /\ p[j + 1] \in Nat
    BY <2>1, <2>3
  <2>5. p[i] < p[j + 1]
    BY <2>2, <2>4
  <2> QED
    BY <2>1, <2>5
<1> HIDE DEF Far
<1>3. Nat \subseteq Far
  BY <1>1, <1>2, Inductive
<1> SUFFICES ASSUME NEW i \in 1 .. n, NEW j \in 1 .. n, i < j PROVE p[i] < p[j]
  OBVIOUS
<1>4. j - i - 1 \in Nat /\ i + (j - i - 1) + 1 = j
  OBVIOUS
<1>5. j - i - 1 \in Far
  BY <1>3, <1>4
<1> QED
  BY <1>4, <1>5 DEF Far

\* What is asked of the conversations of a session: none continues a later one.
Continues(S) == \A d \in S : prev[d] \in Nat /\ prev[d] < d

\* Along the links from the head each conversation comes after the one it continues, once.
LEMMA PathRises ==
  ASSUME NEW S \in SUBSET (Nat \ {0}), IsFiniteSet(S), Continues(S),
         NEW n \in Nat \ {0}, NEW p \in [1 .. n -> S], IsPath(S, p)
  PROVE  LET R == {p[i] : i \in DOMAIN p} IN
         /\ Cardinality(R) = n /\ IsFiniteSet(R) /\ R \subseteq S
         /\ \A i, j \in 1 .. n : p[i] = p[j] => i = j
         /\ \A i \in 2 .. n : prev[p[i]] = p[i - 1]
         /\ prev[p[1]] \notin S
<1> DEFINE R == {p[i] : i \in DOMAIN p}
<1>1. Len(p) = n /\ DOMAIN p = 1 .. n
  OBVIOUS
<1>2. \A i \in 2 .. n : p[i] \in S /\ prev[p[i]] = p[i - 1]
  BY <1>1 DEF IsPath, SuccessorsIn
<1>3. \A i \in 2 .. n : p[i - 1] < p[i]
  BY <1>2 DEF Continues
<1>4. \A i, j \in 1 .. n : i < j => p[i] < p[j]
  <2>1. p \in [1 .. n -> Nat]
    OBVIOUS
  <2> QED
    BY <1>3, <2>1, Rises
<1>5. \A i, j \in 1 .. n : p[i] = p[j] => i = j
  <2> SUFFICES ASSUME NEW i \in 1 .. n, NEW j \in 1 .. n, p[i] = p[j] PROVE i = j
    OBVIOUS
  <2>1. ~(i < j) /\ ~(j < i)
    <3>1. p[i] \in S /\ \A x \in S : ~(x < x)
      OBVIOUS
    <3> QED
      BY <1>4, <3>1
  <2> QED
    BY <2>1
<1>6. p \in Bijection(1 .. n, R)
  BY <1>1, <1>5, Fun_IsBij DEF Bijection, Injection, Surjection, IsInjective
<1>7. IsFiniteSet(1 .. n) /\ Cardinality(1 .. n) = n
  BY FS_Interval
<1>8. Cardinality(R) = n /\ IsFiniteSet(R)
  <2>1. ExistsBijection(1 .. n, R)
    BY <1>6 DEF ExistsBijection
  <2> QED
    BY <1>7, <2>1, FS_Bijection
<1>9. prev[p[1]] \notin S
  <2>1. p[1] \in S /\ p[1] \in Heads(S)
    BY <1>1 DEF IsPath
  <2>2. prev[p[1]] = 0
    BY <2>1 DEF Heads, Bare, Continues
  <2> QED
    BY <2>2
<1> QED
  BY <1>1, <1>2, <1>5, <1>8, <1>9

\* A path, and then the rest by time.
Onwards(S, p) == p \o ByTime(S \ {p[i] : i \in DOMAIN p})
LEMMA PathThenRest ==
  ASSUME NEW S \in SUBSET (Nat \ {0}), IsFiniteSet(S), Continues(S),
         NEW n \in Nat \ {0}, NEW p \in [1 .. n -> S], IsPath(S, p)
  PROVE  LET order == Onwards(S, p) IN
         /\ order \in Seq(S) /\ Len(order) = Cardinality(S) /\ Cardinality(S) \in Nat
         /\ \A c \in S : \E i \in DOMAIN order : order[i] = c
         /\ \A i, j \in DOMAIN order : prev[order[i]] = order[j] => j < i
<1> DEFINE R == {p[i] : i \in DOMAIN p}
           rest == ByTime(S \ R)
           m == Cardinality(S \ R)
           order == p \o rest
<1>1. /\ Cardinality(R) = n /\ IsFiniteSet(R) /\ R \subseteq S
      /\ \A i, j \in 1 .. n : p[i] = p[j] => i = j
      /\ \A i \in 2 .. n : prev[p[i]] = p[i - 1]
      /\ prev[p[1]] \notin S
  BY PathRises
<1>2. p \in Seq(S) /\ Len(p) = n /\ DOMAIN p = 1 .. n
  OBVIOUS
<1>3. S \ R \in SUBSET Nat /\ IsFiniteSet(S \ R)
  BY FS_Difference
<1>4. /\ rest \in Seq(S \ R) /\ m \in Nat /\ Len(rest) = m /\ DOMAIN rest = 1 .. m
      /\ \A c \in S \ R : \E i \in 1 .. m : rest[i] = c
      /\ \A i, j \in 1 .. m : rest[j] < rest[i] => j < i
  BY <1>3, TimeOrders
<1>5. Cardinality(S) \in Nat /\ n + m = Cardinality(S)
  <2>1. S \cap R = R
    BY <1>1
  <2>2. Cardinality(S) \in Nat /\ m = Cardinality(S) - Cardinality(R)
    BY <2>1, FS_Difference, FS_CardinalityType
  <2> QED
    BY <1>1, <2>2
<1> HIDE DEF rest, m
<1>6. rest \in Seq(S)
  BY <1>4
<1>7. /\ order \in Seq(S) /\ Len(order) = n + m /\ DOMAIN order = 1 .. n + m
      /\ \A i \in 1 .. n + m : order[i] = IF i <= n THEN p[i] ELSE rest[i - n]
  BY <1>2, <1>4, <1>6
<1> HIDE DEF order
<1>8. ASSUME NEW c \in S PROVE \E i \in DOMAIN order : order[i] = c
  <2>1. CASE c \in R
    <3>1. PICK i \in 1 .. n : p[i] = c
      BY <1>2, <2>1
    <3>2. i \in 1 .. n + m /\ i <= n
      BY <1>4
    <3> QED
      BY <1>7, <3>1, <3>2
  <2>2. CASE c \notin R
    <3>1. PICK i \in 1 .. m : rest[i] = c
      BY <1>4, <2>2
    <3>2. i + n \in 1 .. n + m /\ ~(i + n <= n) /\ (i + n) - n = i
      BY <1>4
    <3> QED
      BY <1>7, <3>1, <3>2
  <2> QED
    BY <2>1, <2>2
<1>9. ASSUME NEW i \in 1 .. n + m, NEW j \in 1 .. n + m, prev[order[i]] = order[j]
      PROVE  j < i
  <2>1. \A k \in 1 .. n + m : k <= n => k \in 1 .. n /\ order[k] = p[k] /\ p[k] \in R
    BY <1>2, <1>4, <1>7
  <2>2. \A k \in 1 .. n + m : ~(k <= n) => /\ k - n \in 1 .. m /\ order[k] = rest[k - n]
                                           /\ rest[k - n] \in S \ R
    <3> SUFFICES ASSUME NEW k \in 1 .. n + m, ~(k <= n)
                 PROVE  /\ k - n \in 1 .. m /\ order[k] = rest[k - n] /\ rest[k - n] \in S \ R
      OBVIOUS
    <3>1. k - n \in 1 .. m
      BY <1>4
    <3>2. order[k] = rest[k - n]
      BY <1>7
    <3>3. rest[k - n] \in S \ R
      BY <1>4, <3>1
    <3> QED
      BY <3>1, <3>2, <3>3
  <2>3. CASE i <= n
    <3>1. i # 1
      BY <1>1, <1>7, <2>1, <2>3, <1>9
    <3>2. i \in 2 .. n /\ i - 1 \in 1 .. n /\ i \in 1 .. n
      BY <2>3, <3>1
    <3>3. order[j] = p[i - 1] /\ p[i - 1] \in R
      BY <1>1, <1>2, <1>9, <2>1, <2>3, <3>2
    <3>4. j <= n
      BY <2>2, <3>3
    <3>5. j = i - 1
      BY <1>1, <2>1, <3>2, <3>3, <3>4
    <3> QED
      BY <3>2, <3>5
  <2>4. CASE ~(i <= n) /\ j <= n
    BY <2>4
  <2>5. CASE ~(i <= n) /\ ~(j <= n)
    <3>1. rest[j - n] = prev[rest[i - n]] /\ rest[i - n] \in S
      BY <1>9, <2>2, <2>5
    <3>2. rest[j - n] < rest[i - n]
      BY <3>1 DEF Continues
    <3>3. j - n < i - n
      BY <1>4, <2>2, <2>5, <3>2
    <3> QED
      BY <1>4, <3>3
  <2> QED
    BY <2>3, <2>4, <2>5
<1> QED
  BY <1>5, <1>7, <1>8, <1>9 DEF order, rest, Onwards

\* Whatever order is taken, each conversation of the set is in it, after the one it continues.
LEMMA OrdersInOrder ==
  ASSUME NEW S \in SUBSET (Nat \ {0}), IsFiniteSet(S), Continues(S), NEW order \in Orders(S)
  PROVE  /\ order \in Seq(S) /\ Len(order) = Cardinality(S) /\ Cardinality(S) \in Nat
         /\ {order[i] : i \in DOMAIN order} = S
         /\ \A i, j \in DOMAIN order : prev[order[i]] = order[j] => j < i
<1>1. S \in SUBSET Nat
  OBVIOUS
<1>2. /\ order \in Seq(S) /\ Len(order) = Cardinality(S) /\ Cardinality(S) \in Nat
      /\ \A c \in S : \E i \in DOMAIN order : order[i] = c
      /\ \A i, j \in DOMAIN order : prev[order[i]] = order[j] => j < i
  <2>1. CASE Heads(S) = {}
    <3>1. order = ByTime(S)
      BY <2>1 DEF Orders
    <3>2. order \in Seq(S)
      BY <1>1, <3>1, TimeOrders
    <3>3. ASSUME NEW i \in DOMAIN order, NEW j \in DOMAIN order, prev[order[i]] = order[j]
          PROVE  j < i
      <4>1. order[i] \in S
        BY <3>2
      <4>2. order[j] < order[i]
        BY <3>3, <4>1 DEF Continues
      <4> QED
        BY <1>1, <3>1, <4>2, TimeOrders
    <3> QED
      BY <1>1, <3>1, <3>3, TimeOrders
  <2>2. CASE Heads(S) # {}
    <3>1. PICK p \in {q \in UNION {[1 .. n -> S] : n \in 1 .. Cardinality(S)} : IsPath(S, q)} :
            order = p \o ByTime(S \ {p[i] : i \in DOMAIN p})
      BY <2>2 DEF Orders
    <3>2. PICK n \in 1 .. Cardinality(S) : p \in [1 .. n -> S]
      BY <3>1
    <3>3. n \in Nat \ {0} /\ IsPath(S, p)
      BY <3>1, <3>2
    <3>4. order = Onwards(S, p)
      BY <3>1 DEF Onwards
    <3> QED
      BY <3>2, <3>3, <3>4, PathThenRest
  <2> QED
    BY <2>1, <2>2
<1>3. \A i \in DOMAIN order : order[i] \in S
  BY <1>2
<1> QED
  BY <1>2, <1>3

-----------------------------------------------------------------------------
\* The shapes of all that is stored

\* The maps names come from, and the rows that show them.
Maps == [Speakers -> Sources]
Row == [names : Shown, vector : Shown, indexed : BOOLEAN]

\* A conversation continues an earlier one.
Links == (\A c \in DOMAIN prev : prev[c] \in 0 .. c - 1) /\ deleted \subseteq DOMAIN prev

\* A rerun has room for its row; a row, or a rerun, is that of a conversation there is.
RowsFit ==
  /\ rows \in [Convs -> Seq(Row)]
  /\ \A c \in Convs : /\ Len(rows[c]) <= MaxRows
                      /\ rerun[c] = "running" => Len(rows[c]) < MaxRows
                      /\ rerun[c] \in {"index", "post"} => rows[c] # <<>>
                      /\ rows[c] # <<>> \/ rerun[c] # "no" => c \in DOMAIN prev
MapsFit ==
  /\ labels \in [Convs -> Maps]
  /\ req = NoReq \/ (req.conv \in Convs /\ req.row \in DOMAIN rows[req.conv] /\ req.copy \in Maps)

\* A message of the index names a row, and one of identification a conversation with rows.
Active(m) == queue[m] > 0 \/ \E w \in Workers : work[w].msg = m
Placed(m) == /\ m.kind = "identify" => rows[m.conv] # <<>>
             /\ m.kind = "index" => m.row \in DOMAIN rows[m.conv]
MessagesFit == \A m \in Messages : Active(m) => Placed(m)
QueueFits == queue \in [Messages -> 0 .. MaxCopies]

\* What a task has read.
TaskFits(t) ==
  /\ t.row \in 0 .. MaxRows /\ t.segs \in Segments /\ t.copy \in Maps
  /\ t.at = "embed" => t.copy \in Shown
TasksFit == \A w \in Workers : TaskFits(work[w])
SummaryFits ==
  summary \in [status : {"absent", "running", "success", "failed"}, segs : Segments]

LostFits == lost \subseteq Messages

TInv == /\ Links /\ RowsFit /\ MapsFit /\ MessagesFit /\ QueueFits /\ TasksFit /\ SummaryFits
        /\ LostFits

\* The conversations there are.
LEMMA LiveFinite ==
  ASSUME IInv, Links
  PROVE  /\ Live \in SUBSET (Nat \ {0}) /\ IsFiniteSet(Live) /\ Live \subseteq Convs
         /\ Continues(Live)
<1>1. prev \in Seq(Nat) /\ Len(prev) \in Nat /\ Len(prev) <= MaxConvs /\ MaxConvs \in Nat
  <2>1. prev \in Seq(Nat) /\ Len(prev) <= length /\ length \in 1 .. MaxConvs
    BY DEF IInv, Types, ChainTypes
  <2>2. MaxConvs \in Nat /\ Len(prev) \in Nat
    BY <2>1, SessionBounds
  <2> QED
    BY <2>1, <2>2
<1>2. DOMAIN prev = 1 .. Len(prev)
  BY <1>1
<1>3. IsFiniteSet(1 .. Len(prev))
  <2>1. 1 \in Int /\ Len(prev) \in Int
    BY <1>1
  <2> QED
    BY <2>1, FS_Interval
<1>4. Live \subseteq 1 .. Len(prev)
  BY <1>2 DEF Live
<1>5. Live \in SUBSET (Nat \ {0}) /\ Live \subseteq Convs
  BY <1>1, <1>4 DEF Convs
<1>6. Continues(Live)
  BY <1>1, <1>2, <1>4 DEF Links, Continues
<1> QED
  BY <1>3, <1>4, <1>5, <1>6, FS_Subset

\* Names that a map gives are shown.
LEMMA NamesAreShown == ASSUME NEW map \in Maps PROVE Names(map) \in Shown
  BY DEF Maps, Names, Effective, Shown, Sources

\* A bundle has a segment for each conversation with rows.
Segment(c, whole) ==
  [conv |-> c, row |-> Newest(c), names |-> rows[c][Newest(c)].names,
   people |-> Names(labels[c]), whole |-> whole]
LEMMA BundleFits ==
  ASSUME RowsFit, labels \in [Convs -> Maps], NEW order \in Seq(Convs), NEW fit
  PROVE  /\ Bundle(order, fit) \in Segments
         /\ \A i \in DOMAIN order : rows[order[i]] # <<>> =>
              \E j \in DOMAIN Bundle(order, fit) : \E whole \in BOOLEAN :
                Bundle(order, fit)[j] = Segment(order[i], whole)
<1> DEFINE Places == {i \in DOMAIN order : rows[order[i]] # <<>>}
           shown == Ascending(Places)
           n == Cardinality(Places)
<1>1. DOMAIN order = 1 .. Len(order) /\ Len(order) \in Nat
  OBVIOUS
<1>2. Places \in SUBSET Nat /\ IsFiniteSet(Places)
  <2>1. 1 \in Int /\ Len(order) \in Int
    BY <1>1
  <2>2. IsFiniteSet(1 .. Len(order))
    BY <2>1, FS_Interval
  <2>3. Places \subseteq 1 .. Len(order) /\ Places \in SUBSET Nat
    BY <1>1
  <2> QED
    BY <2>2, <2>3, FS_Subset
<1>3. /\ n \in Nat /\ \A i \in 1 .. n : shown[i] \in Places
      /\ \A c \in Places : \E i \in 1 .. n : shown[i] = c
      /\ DOMAIN shown = 1 .. n
  BY <1>2, Ascends DEF Ascending
<1>4. Bundle(order, fit) = [i \in 1 .. n |-> Segment(order[shown[i]], i <= fit)]
  BY <1>3 DEF Bundle, Segment, Newest
<1>5. \A i \in 1 .. n : order[shown[i]] \in Convs /\ rows[order[shown[i]]] # <<>>
  BY <1>1, <1>3
<1>6. ASSUME NEW c \in Convs, rows[c] # <<>>, NEW whole \in BOOLEAN
      PROVE  Segment(c, whole) \in [conv : Convs, row : 1 .. MaxRows, names : Shown, people : Shown,
                                    whole : BOOLEAN]
  <2>1. Len(rows[c]) \in 1 .. MaxRows /\ Len(rows[c]) \in DOMAIN rows[c] /\ rows[c] \in Seq(Row)
    <3>1. rows[c] \in Seq(Row) /\ Len(rows[c]) <= MaxRows
      BY DEF RowsFit
    <3>2. MaxRows \in Nat
      BY SessionBounds
    <3> QED
      BY <1>6, <3>1, <3>2
  <2>2. rows[c][Len(rows[c])] \in Row
    BY <2>1
  <2>3. rows[c][Len(rows[c])].names \in Shown
    BY <2>2 DEF Row
  <2>4. Names(labels[c]) \in Shown
    BY NamesAreShown
  <2> QED
    BY <2>1, <2>3, <2>4 DEF Segment, Newest
<1> HIDE DEF Places, shown, n
<1>7. \A i \in 1 .. n : (i <= fit) \in BOOLEAN
  OBVIOUS
<1>8. Bundle(order, fit) \in Segments
  <2> DEFINE Seg == [conv : Convs, row : 1 .. MaxRows, names : Shown, people : Shown,
                     whole : BOOLEAN]
  <2>1. \A i \in 1 .. n : Segment(order[shown[i]], i <= fit) \in Seg
    BY <1>5, <1>6, <1>7
  <2> HIDE DEF Seg
  <2>2. Bundle(order, fit) \in [1 .. n -> Seg]
    BY <1>4, <2>1
  <2>3. Bundle(order, fit) \in Seq(Seg)
    BY <1>3, <2>2
  <2> QED
    BY <2>3 DEF Seg, Segments
<1>9. DOMAIN Bundle(order, fit) = 1 .. n
  BY <1>4
<1>10. ASSUME NEW i \in DOMAIN order, rows[order[i]] # <<>>
       PROVE  \E j \in DOMAIN Bundle(order, fit) : \E whole \in BOOLEAN :
                Bundle(order, fit)[j] = Segment(order[i], whole)
  <2>1. PICK j \in 1 .. n : shown[j] = i
    BY <1>3, <1>10 DEF Places
  <2>2. Bundle(order, fit)[j] = Segment(order[i], j <= fit)
    BY <1>4, <2>1
  <2> QED
    BY <1>7, <1>9, <2>2
<1> QED
  BY <1>8, <1>10

-----------------------------------------------------------------------------
\* What is written to rows

RowTypes == rows \in [Convs -> Seq(Row)]

\* No row is lost; and rows are only rewritten.
Rewritten ==
  /\ RowTypes'
  /\ \A c \in Convs : /\ DOMAIN rows'[c] = DOMAIN rows[c] /\ Len(rows'[c]) = Len(rows[c])
                      /\ rows[c] = <<>> <=> rows'[c] = <<>>

\* A row of one conversation is replaced.
Puts(c, r, x) == rows' = [rows EXCEPT ![c] = [rows[c] EXCEPT ![r] = x]]
LEMMA Replaced ==
  ASSUME RowTypes, NEW c \in Convs, NEW r, NEW x, r \in DOMAIN rows[c] => x \in Row,
         Puts(c, r, x)
  PROVE  /\ Rewritten
         /\ \A d \in Convs : \A q \in DOMAIN rows[d] :
              rows'[d][q] = IF d = c /\ q = r THEN x ELSE rows[d][q]
<1> DEFINE text == [rows[c] EXCEPT ![r] = x]
<1>1. rows[c] \in Seq(Row)
  BY DEF RowTypes
<1>2. DOMAIN text = 1 .. Len(rows[c])
      /\ \A q \in DOMAIN rows[c] : text[q] = IF q = r THEN x ELSE rows[c][q]
  BY <1>1
<1>3. text \in [1 .. Len(rows[c]) -> Row]
  <2>1. text = [q \in 1 .. Len(rows[c]) |-> IF q = r THEN x ELSE rows[c][q]]
    BY <1>1
  <2>2. \A q \in 1 .. Len(rows[c]) : rows[c][q] \in Row /\ (q = r => x \in Row)
    BY <1>1
  <2> QED
    BY <2>1, <2>2
<1>4. text \in Seq(Row) /\ Len(text) = Len(rows[c]) /\ DOMAIN text = DOMAIN rows[c]
  BY <1>1, <1>3
<1> HIDE DEF text
<1>5. DOMAIN rows' = Convs /\ rows'[c] = text /\ \A d \in Convs \ {c} : rows'[d] = rows[d]
  BY DEF RowTypes, text, Puts
<1>6. RowTypes'
  <2>1. rows' = [d \in Convs |-> rows'[d]]
    BY DEF RowTypes, Puts
  <2> QED
    BY <1>4, <1>5, <2>1 DEF RowTypes
<1>7. \A d \in Convs : DOMAIN rows'[d] = DOMAIN rows[d] /\ Len(rows'[d]) = Len(rows[d])
  BY <1>4, <1>5
<1>8. \A d \in Convs : rows[d] = <<>> <=> rows'[d] = <<>>
  <2> SUFFICES ASSUME NEW d \in Convs PROVE rows[d] = <<>> <=> rows'[d] = <<>>
    OBVIOUS
  <2>1. rows[d] \in Seq(Row) /\ rows'[d] \in Seq(Row) /\ Len(rows[d]) = Len(rows'[d])
    BY <1>6, <1>7 DEF RowTypes
  <2> QED
    BY <2>1
<1> QED
  BY <1>2, <1>5, <1>6, <1>7, <1>8 DEF Rewritten

\* The names of a row are written.
LEMMA NamesWritten ==
  ASSUME RowTypes, NEW c \in Convs, NEW r, NEW map \in Maps, rows' = Persist(c, r, map)
  PROVE  /\ Rewritten
         /\ \A d \in Convs : \A q \in DOMAIN rows[d] : ~(d = c /\ q = r) => rows'[d][q] = rows[d][q]
<1> DEFINE x == [rows[c][r] EXCEPT !.names = Names(map)]
<1>1. Names(map) \in Shown
  BY NamesAreShown
<1>2. r \in DOMAIN rows[c] => x \in Row
  <2> SUFFICES ASSUME r \in DOMAIN rows[c] PROVE x \in Row
    OBVIOUS
  <2>1. rows[c][r] \in Row
    BY DEF RowTypes
  <2> QED
    BY <1>1, <2>1 DEF Row
<1>3. Puts(c, r, x)
  BY DEF Persist, Puts
<1> HIDE DEF x
<1> QED
  BY <1>2, <1>3, Replaced

\* The vector of a row is written.
Embedded(c, r, vec) == rows' = [rows EXCEPT ![c][r].vector = vec, ![c][r].indexed = TRUE]
LEMMA VectorWritten ==
  ASSUME RowTypes, NEW c \in Convs, NEW r, NEW vec \in Shown, r \in DOMAIN rows[c],
         Embedded(c, r, vec)
  PROVE  /\ Rewritten
         /\ \A d \in Convs : \A q \in DOMAIN rows[d] :
              /\ rows'[d][q].names = rows[d][q].names
              /\ ~(d = c /\ q = r) => rows'[d][q] = rows[d][q]
         /\ rows'[c][r].vector = vec /\ rows'[c][r].indexed
<1> DEFINE one == [rows[c][r] EXCEPT !.vector = vec]
           new == [one EXCEPT !.indexed = TRUE]
           text == [rows[c] EXCEPT ![r] = new]
           half == [rows[c] EXCEPT ![r] = one]
<1>1. rows[c][r] \in Row
  BY DEF RowTypes
<1>2. new \in Row /\ new.names = rows[c][r].names /\ new.vector = vec /\ new.indexed
  BY <1>1 DEF Row
<1>3. rows' = [[rows EXCEPT ![c] = half] EXCEPT ![c] =
                 [[rows EXCEPT ![c] = half][c] EXCEPT ![r] =
                    [[rows EXCEPT ![c] = half][c][r] EXCEPT !.indexed = TRUE]]]
  BY DEF Embedded
<1> HIDE DEF one
<1>4. [rows EXCEPT ![c] = half][c] = half
  BY DEF RowTypes
<1>5. [half EXCEPT ![r] = [half[r] EXCEPT !.indexed = TRUE]] = text
  OBVIOUS
<1>6. Puts(c, r, new)
  BY <1>3, <1>4, <1>5 DEF Puts
<1> HIDE DEF new, half, text
<1>7. /\ Rewritten
      /\ \A d \in Convs : \A q \in DOMAIN rows[d] :
           rows'[d][q] = IF d = c /\ q = r THEN new ELSE rows[d][q]
  BY <1>2, <1>6, Replaced
<1>8. ASSUME NEW d \in Convs, NEW q \in DOMAIN rows[d]
      PROVE  /\ rows'[d][q].names = rows[d][q].names
             /\ ~(d = c /\ q = r) => rows'[d][q] = rows[d][q]
  BY <1>2, <1>7
<1>9. rows'[c][r] = new
  BY <1>7
<1> QED
  BY <1>2, <1>7, <1>8, <1>9

\* A row is added.
LEMMA RowAdded ==
  ASSUME RowTypes, NEW c \in Convs, NEW x \in Row, rows' = [rows EXCEPT ![c] = Append(@, x)]
  PROVE  /\ RowTypes'
         /\ \A d \in Convs \ {c} : rows'[d] = rows[d]
         /\ Len(rows'[c]) = Len(rows[c]) + 1
         /\ DOMAIN rows'[c] = DOMAIN rows[c] \cup {Len(rows'[c])}
         /\ rows'[c] # <<>> /\ rows'[c][Len(rows'[c])] = x
         /\ \A q \in DOMAIN rows[c] : rows'[c][q] = rows[c][q] /\ q < Len(rows'[c])
<1> DEFINE text == Append(rows[c], x)
<1>1. rows[c] \in Seq(Row) /\ Len(rows[c]) \in Nat
  BY DEF RowTypes
<1>2. text \in Seq(Row) /\ Len(text) = Len(rows[c]) + 1 /\ text[Len(text)] = x
  BY <1>1
<1>3. DOMAIN text = 1 .. Len(rows[c]) + 1 /\ DOMAIN rows[c] = 1 .. Len(rows[c])
      /\ \A q \in 1 .. Len(rows[c]) : text[q] = rows[c][q]
  BY <1>1
<1> HIDE DEF text
<1>4. DOMAIN rows' = Convs /\ rows'[c] = text /\ \A d \in Convs \ {c} : rows'[d] = rows[d]
  BY DEF RowTypes, text
<1>5. RowTypes'
  <2>1. rows' = [d \in Convs |-> rows'[d]]
    BY DEF RowTypes
  <2> QED
    BY <1>2, <1>4, <2>1 DEF RowTypes
<1>6. text # <<>>
  BY <1>1, <1>2
<1>7. DOMAIN text = DOMAIN rows[c] \cup {Len(text)} /\ \A q \in DOMAIN rows[c] : q < Len(text)
  BY <1>1, <1>2, <1>3
<1> QED
  BY <1>2, <1>3, <1>4, <1>5, <1>6, <1>7

-----------------------------------------------------------------------------
\* What the small operators write, once more

\* The queue has room, and nothing new but what is sent.
LEMMA SentFits ==
  ASSUME QueueFits, NEW m, Send(m)
  PROVE  QueueFits' /\ \A q \in Messages \ {m} : queue'[q] = queue[q]
<1>1. MaxCopies \in Nat
  BY SessionBounds
<1>2. CASE m \in Messages
  <2>1. queue[m] \in 0 .. MaxCopies /\ queue[m] < MaxCopies
    BY <1>2 DEF QueueFits, Send, Room
  <2>2. queue[m] + 1 \in 0 .. MaxCopies
    BY <1>1, <2>1
  <2> QED
    BY <2>2 DEF QueueFits, Send, With
<1>3. CASE m \notin Messages
  BY <1>3 DEF QueueFits, Send, With
<1> QED
  BY <1>2, <1>3

LEMMA IndexSentFits ==
  ASSUME QueueFits, NEW c, NEW r, SendIndex(c, r)
  PROVE  QueueFits' /\ \A q \in Messages \ {Index(c, r)} : queue'[q] = queue[q]
<1>1. CASE Send(Index(c, r))
  BY <1>1, SentFits
<1>2. CASE UNCHANGED queue
  BY <1>2 DEF QueueFits
<1> QED
  BY <1>1, <1>2 DEF SendIndex

\* A task goes on with all it knows, or with its message alone.
LEMMA GoneTo ==
  ASSUME WorkTypes, NEW w \in Workers, NEW l, Goto(w, l)
  PROVE  /\ work'[w].msg = work[w].msg /\ work'[w].at = l /\ work'[w].row = work[w].row
         /\ work'[w].segs = work[w].segs /\ work'[w].copy = work[w].copy
         /\ \A v \in Workers \ {w} : work'[v] = work[v]
<1> DEFINE c == [work[w] EXCEPT !.at = l]
<1>1. work[w] = [f \in Fields |-> work[w][f]]
  BY DEF WorkTypes
<1>2. /\ c.msg = work[w].msg /\ c.at = l /\ c.row = work[w].row /\ c.segs = work[w].segs
      /\ c.copy = work[w].copy
  BY <1>1 DEF Fields
<1>3. work' = [work EXCEPT ![w] = c]
  BY DEF Goto
<1> HIDE DEF c
<1>4. work'[w] = c /\ \A v \in Workers \ {w} : work'[v] = work[v]
  BY <1>3 DEF WorkTypes
<1> QED
  BY <1>2, <1>4

LEMMA Continued ==
  ASSUME WorkTypes, NEW w \in Workers, NEW l, Continue(w, l)
  PROVE  /\ work'[w].msg = work[w].msg /\ work'[w].at = l /\ work'[w].row = 0
         /\ work'[w].segs = <<>> /\ work'[w].copy = NoNames
         /\ \A v \in Workers \ {w} : work'[v] = work[v]
<1> DEFINE c == [Idle EXCEPT !.msg = work[w].msg, !.at = l]
<1>1. c.msg = work[w].msg /\ c.at = l /\ c.row = 0 /\ c.segs = <<>> /\ c.copy = NoNames
  BY DEF Idle
<1>2. work' = [work EXCEPT ![w] = c]
  BY DEF Continue
<1> HIDE DEF c
<1>3. work'[w] = c /\ \A v \in Workers \ {w} : work'[v] = work[v]
  BY <1>2 DEF WorkTypes
<1> QED
  BY <1>1, <1>3

\* An idle worker has read nothing.
LEMMA IdleFits ==
  /\ NoNames \in Shown /\ NoNames \in Maps /\ <<>> \in Segments
  /\ TaskFits(Idle) /\ Idle.row = 0 /\ Idle.segs = <<>> /\ Idle.copy = NoNames
<1>1. NoNames \in Shown /\ NoNames \in Maps
  BY DEF NoNames, Shown, Maps, Sources
<1>2. <<>> \in Segments
  BY DEF Segments
<1>3. 0 \in 0 .. MaxRows
  BY SessionBounds
<1>4. Idle.at # "embed" /\ Idle.row = 0 /\ Idle.segs = <<>> /\ Idle.copy = NoNames
  BY DEF Idle
<1> QED
  BY <1>1, <1>2, <1>3, <1>4 DEF TaskFits

-----------------------------------------------------------------------------
\* Every step keeps the shapes

\* No row is lost.
Grown ==
  \A c \in Convs : DOMAIN rows[c] \subseteq DOMAIN rows'[c] /\ (rows[c] # <<>> => rows'[c] # <<>>)

LEMMA RewrittenGrows == ASSUME Rewritten \/ UNCHANGED rows PROVE Grown
  BY DEF Rewritten, Grown

\* What its fields are.
LEMMA IndexFields ==
  ASSUME NEW c, NEW r
  PROVE  Index(c, r).kind = "index" /\ Index(c, r).conv = c /\ Index(c, r).row = r
BY DEF Index, Msg

\* A message that fits its rows goes on to fit them.
LEMMA MessagesStay ==
  ASSUME MessagesFit, Grown,
         \A m \in Messages : queue'[m] > 0 => queue[m] > 0 \/ Placed(m)',
         \A w \in Workers : \A m \in Messages :
           work'[w].msg = m => work[w].msg = m \/ queue[m] > 0 \/ Placed(m)'
  PROVE  MessagesFit'
<1> SUFFICES ASSUME NEW m \in Messages, Active(m)' PROVE Placed(m)'
  BY DEF MessagesFit
<1>1. Active(m) => Placed(m)'
  BY MessageFields DEF MessagesFit, Placed, Grown
<1>2. CASE queue'[m] > 0
  BY <1>1, <1>2 DEF Active
<1>3. ASSUME NEW w \in Workers, work'[w].msg = m PROVE Placed(m)'
  BY <1>1, <1>3 DEF Active
<1> QED
  BY <1>2, <1>3 DEF Active

\* Rows that are only rewritten fit.
LEMMA RowsStay ==
  ASSUME RowsFit, Rewritten \/ UNCHANGED rows, UNCHANGED rerun, DOMAIN prev \subseteq DOMAIN prev'
  PROVE  RowsFit'
BY DEF RowsFit, Rewritten, RowTypes

\* The newest row of a conversation with rows.
LEMMA NewestRow ==
  ASSUME RowsFit, NEW c \in Convs, rows[c] # <<>>
  PROVE  /\ Newest(c) \in DOMAIN rows[c] /\ Newest(c) \in 1 .. MaxRows
         /\ Index(c, Newest(c)) \in Messages
<1>1. rows[c] \in Seq(Row) /\ Len(rows[c]) <= MaxRows /\ MaxRows \in Nat
  BY SessionBounds DEF RowsFit
<1>2. Newest(c) \in DOMAIN rows[c] /\ Newest(c) \in 1 .. MaxRows
  BY <1>1 DEF Newest
<1> QED
  BY <1>2 DEF Messages

\* A request writes a map, and names the newest row.
LEMMA RequestFits ==
  ASSUME IInv, TInv, Request
  PROVE  TInv'
<1>1. /\ Links /\ RowsFit /\ MapsFit /\ MessagesFit /\ QueueFits /\ TasksFit /\ SummaryFits
      /\ LostFits
  BY DEF TInv
<1>2. ASSUME UNCHANGED <<prev, deleted>> PROVE Links'
  BY <1>1, <1>2 DEF Links
<1>3. ASSUME UNCHANGED <<rows, labels, req>> PROVE MapsFit'
  BY <1>1, <1>3 DEF MapsFit
<1>4. UNCHANGED <<work, summary, rerun>> /\ TasksFit' /\ SummaryFits' /\ LostFits'
  <2>1. UNCHANGED <<work, summary, rerun, lost>>
    BY DEF Request, CreateConversation, DeleteConversation, RequestIdentify, Reindex, PatchSpeaker,
       ApplySuggestions, CommitNames, RetrySummary, Resummary, ApiDies, history
  <2> QED
    BY <1>1, <2>1 DEF TasksFit, SummaryFits, LostFits
<1>5. ASSUME UNCHANGED <<rows, queue>> PROVE Grown /\ MessagesFit' /\ QueueFits'
  <2>1. Grown
    BY <1>5, RewrittenGrows
  <2>2. MessagesFit'
    BY <1>1, <1>4, <1>5, <2>1, MessagesStay
  <2> QED
    BY <1>1, <1>5, <2>1, <2>2 DEF QueueFits
<1>6. ASSUME NEW m, Send(m), UNCHANGED rows, Placed(m) PROVE MessagesFit' /\ QueueFits'
  <2>1. QueueFits' /\ \A q \in Messages \ {m} : queue'[q] = queue[q]
    BY <1>1, <1>6, SentFits
  <2>2. Grown
    BY <1>6, RewrittenGrows
  <2>3. Placed(m)'
    BY <1>6 DEF Placed
  <2>4. MessagesFit'
    BY <1>1, <1>4, <2>1, <2>2, <2>3, MessagesStay
  <2> QED
    BY <2>1, <2>4
<1>7. \A c \in Convs : rows[c] # <<>> => Placed(Identify(c)) /\ Placed(Index(c, Newest(c)))
  BY <1>1, NewestRow, MessageFields, IndexFields DEF Placed
<1>8. Placed(Summarize)
  BY MessageFields DEF Placed
<1>9. ASSUME UNCHANGED rows, DOMAIN prev \subseteq DOMAIN prev' PROVE RowsFit'
  BY <1>1, <1>4, <1>9, RowsStay
<1>10. ASSUME NEW p \in 0 .. MaxConvs, CreateConversation(p) PROVE TInv'
  <2>1. /\ p \in Live \cup {0} /\ prev' = Append(prev, p)
        /\ UNCHANGED <<deleted, rows, labels, req, queue>>
    BY <1>10 DEF CreateConversation, nameVars
  <2>2. prev \in Seq(Nat) /\ Len(prev) \in Nat /\ DOMAIN prev = 1 .. Len(prev)
    BY DEF IInv, Types, ChainTypes
  <2>3. p \in 0 .. Len(prev) /\ p \in Nat
    BY <2>1, <2>2 DEF Live
  <2>4. /\ DOMAIN prev' = 1 .. Len(prev) + 1 /\ prev'[Len(prev) + 1] = p
        /\ \A c \in DOMAIN prev : prev'[c] = prev[c]
    BY <2>1, <2>2, <2>3
  <2>5. Links'
    <3>1. ASSUME NEW c \in DOMAIN prev' PROVE prev'[c] \in 0 .. c - 1
      <4>1. CASE c = Len(prev) + 1
        BY <2>2, <2>3, <2>4, <4>1
      <4>2. CASE c # Len(prev) + 1
        <5>1. c \in DOMAIN prev
          BY <2>2, <2>4, <4>2
        <5> QED
          BY <1>1, <2>4, <5>1 DEF Links
      <4> QED
        BY <4>1, <4>2
    <3>2. DOMAIN prev \subseteq DOMAIN prev'
      BY <2>2, <2>4
    <3> QED
      BY <1>1, <2>1, <3>1, <3>2 DEF Links
  <2>6. DOMAIN prev \subseteq DOMAIN prev'
    BY <2>2, <2>4
  <2> QED
    BY <1>3, <1>4, <1>5, <1>9, <2>1, <2>5, <2>6 DEF TInv
<1>11. ASSUME NEW c \in Convs, DeleteConversation(c) PROVE TInv'
  <2>1. /\ c \in Live /\ deleted' = deleted \cup {c} /\ UNCHANGED <<prev, rows, labels, req, queue>>
    BY <1>11 DEF DeleteConversation, nameVars
  <2>2. Links'
    BY <1>1, <2>1 DEF Links, Live
  <2> QED
    BY <1>3, <1>4, <1>5, <1>9, <2>1, <2>2 DEF TInv
<1>12. ASSUME NEW c \in Convs, RequestIdentify(c) \/ Reindex(c) PROVE TInv'
  <2>1. /\ rows[c] # <<>> /\ UNCHANGED <<prev, deleted, rows, labels, req>>
        /\ Send(Identify(c)) \/ Send(Index(c, Newest(c))) \/ UNCHANGED queue
    BY <1>12 DEF RequestIdentify, Reindex, chainVars, nameVars
  <2>2. MessagesFit' /\ QueueFits'
    BY <1>5, <1>6, <1>7, <2>1
  <2> QED
    BY <1>2, <1>3, <1>4, <1>9, <2>1, <2>2 DEF TInv
<1>13. ASSUME RetrySummary \/ Resummary PROVE TInv'
  <2>1. Send(Summarize) /\ UNCHANGED <<prev, deleted, rows, labels, req>>
    BY <1>13 DEF RetrySummary, Resummary, chainVars, nameVars
  <2>2. MessagesFit' /\ QueueFits'
    BY <1>6, <1>8, <2>1
  <2> QED
    BY <1>2, <1>3, <1>4, <1>9, <2>1, <2>2 DEF TInv
<1>14. ASSUME NEW c \in Convs, NEW map \in Maps, rows[c] # <<>>, Send(Index(c, Newest(c))),
              UNCHANGED <<prev, deleted, rows, labels>>,
              req'.conv = c, req'.row = Newest(c), req'.copy = map
       PROVE  TInv'
  <2>1. MessagesFit' /\ QueueFits'
    BY <1>6, <1>7, <1>14
  <2>2. Newest(c) \in DOMAIN rows[c]
    BY <1>1, <1>14, NewestRow
  <2>3. MapsFit'
    BY <1>1, <1>14, <2>2 DEF MapsFit
  <2> QED
    BY <1>2, <1>4, <1>9, <1>14, <2>1, <2>3 DEF TInv
<1>15. ASSUME NEW c \in Convs, NEW s \in Speakers, PatchSpeaker(c, s) PROVE TInv'
  <2> DEFINE map == [labels[c] EXCEPT ![s] = "manual"]
  <2>1. /\ rows[c] # <<>> /\ Send(Index(c, Newest(c))) /\ UNCHANGED <<prev, deleted, rows, labels>>
        /\ req'.conv = c /\ req'.row = Newest(c) /\ req'.copy = map
    BY <1>15 DEF PatchSpeaker, chainVars, nameVars
  <2>2. map \in Maps
    BY <1>1 DEF MapsFit, Maps, Sources
  <2> HIDE DEF map
  <2> QED
    BY <1>14, <2>1, <2>2
<1>16. ASSUME NEW c \in Convs, NEW S \in SUBSET Speakers, ApplySuggestions(c, S) PROVE TInv'
  <2> DEFINE map == [s \in Speakers |-> IF s \in S THEN "manual" ELSE labels[c][s]]
  <2>1. /\ rows[c] # <<>> /\ Send(Index(c, Newest(c))) /\ UNCHANGED <<prev, deleted, rows, labels>>
        /\ req'.conv = c /\ req'.row = Newest(c) /\ req'.copy = map
    BY <1>16 DEF ApplySuggestions, chainVars, nameVars
  <2>2. map \in Maps
    <3>1. labels[c] \in Maps
      BY <1>1 DEF MapsFit
    <3> QED
      BY <3>1 DEF Maps, Sources
  <2> HIDE DEF map
  <2> QED
    BY <1>14, <2>1, <2>2
<1>17. ASSUME CommitNames PROVE TInv'
  <2>1. /\ req # NoReq /\ req' = NoReq /\ labels' = [labels EXCEPT ![req.conv] = req.copy]
        /\ rows' = Persist(req.conv, req.row, req.copy) /\ UNCHANGED <<prev, deleted, queue>>
    BY <1>17 DEF CommitNames, chainVars
  <2>2. req.conv \in Convs /\ req.copy \in Maps
    BY <1>1, <2>1 DEF MapsFit
  <2>3. Rewritten
    BY <1>1, <2>1, <2>2, NamesWritten DEF RowsFit, RowTypes
  <2>4. MapsFit'
    BY <1>1, <2>1, <2>2 DEF MapsFit
  <2>5. RowsFit'
    BY <1>1, <1>4, <2>1, <2>3, RowsStay
  <2>6. MessagesFit' /\ QueueFits'
    <3>1. Grown
      BY <2>3, RewrittenGrows
    <3>2. MessagesFit'
      BY <1>1, <1>4, <2>1, <3>1, MessagesStay
    <3> QED
      BY <1>1, <2>1, <3>2 DEF QueueFits
  <2> QED
    BY <1>2, <1>4, <2>1, <2>4, <2>5, <2>6 DEF TInv
<1>18. ASSUME ApiDies PROVE TInv'
  <2>1. req' = NoReq /\ UNCHANGED <<prev, deleted, rows, labels, queue>>
    BY <1>18 DEF ApiDies, chainVars, nameVars
  <2>2. MapsFit'
    BY <1>1, <2>1 DEF MapsFit
  <2> QED
    BY <1>2, <1>4, <1>5, <1>9, <2>1, <2>2 DEF TInv
<1> QED
  BY <1>10, <1>11, <1>12, <1>13, <1>15, <1>16, <1>17, <1>18 DEF Request

\* A diarization adds a row there is room for.
LEMMA DiarizeFits ==
  ASSUME IInv, TInv, NEW c \in Convs, Diarize(c)
  PROVE  TInv'
<1>1. /\ Links /\ RowsFit /\ MapsFit /\ MessagesFit /\ QueueFits /\ TasksFit /\ SummaryFits
      /\ LostFits /\ rerun \in [Convs -> {"no", "running", "index", "post"}]
  BY DEF TInv, IInv, Types, ChainTypes
<1>2. /\ UNCHANGED <<work, summary, prev, deleted, req>> /\ TasksFit' /\ SummaryFits' /\ Links'
      /\ LostFits'
  <2>1. UNCHANGED <<work, summary, prev, deleted, req, lost>>
    BY DEF Diarize, DiarizeBegin, DiarizeFails, DiarizeSucceeds, DiarizeSendsIndex,
       SchedulePostDiarization, DiarizerLost, chainVars, history
  <2> QED
    BY <1>1, <2>1 DEF TasksFit, SummaryFits, Links, LostFits
<1>3. ASSUME Grown, labels' \in [Convs -> Maps] PROVE MapsFit'
  BY <1>1, <1>2, <1>3 DEF MapsFit, Grown
<1>4. ASSUME Grown, UNCHANGED queue PROVE MessagesFit' /\ QueueFits'
  <2>1. MessagesFit'
    BY <1>1, <1>2, <1>4, MessagesStay
  <2> QED
    BY <1>1, <1>4, <2>1 DEF QueueFits
<1>5. ASSUME NEW m, QueueFits', \A q \in Messages \ {m} : queue'[q] = queue[q],
             UNCHANGED rows, Placed(m)
      PROVE  MessagesFit'
  <2>1. Grown
    BY <1>5, RewrittenGrows
  <2>2. Placed(m)'
    BY <1>5 DEF Placed
  <2> QED
    BY <1>1, <1>2, <1>5, <2>1, <2>2, MessagesStay
<1>6. rows[c] # <<>> => Placed(Identify(c)) /\ Placed(Index(c, Newest(c)))
  BY <1>1, NewestRow, MessageFields, IndexFields DEF Placed
<1>7. ASSUME NEW x \in {"no", "running", "post"}, rerun' = [rerun EXCEPT ![c] = x], UNCHANGED rows,
             x = "running" => Newest(c) < MaxRows /\ c \in DOMAIN prev,
             x = "post" => rows[c] # <<>>
      PROVE  RowsFit' /\ Grown
  <2>1. rerun'[c] = x /\ \A d \in Convs \ {c} : rerun'[d] = rerun[d]
    BY <1>1, <1>7
  <2>2. RowsFit'
    BY <1>1, <1>2, <1>7, <2>1 DEF RowsFit, Newest
  <2> QED
    BY <1>7, <2>2, RewrittenGrows
<1>8. labels \in [Convs -> Maps]
  BY <1>1 DEF MapsFit
<1>9. CASE DiarizeBegin(c)
  <2>1. /\ c \in Live /\ Newest(c) < MaxRows /\ rerun' = [rerun EXCEPT ![c] = "running"]
        /\ labels' = [labels EXCEPT ![c] = NoNames] /\ UNCHANGED <<rows, queue>>
    BY <1>9 DEF DiarizeBegin
  <2>2. RowsFit' /\ Grown
    BY <1>7, <2>1 DEF Live
  <2>3. labels' \in [Convs -> Maps]
    BY <1>8, <2>1, IdleFits
  <2> QED
    BY <1>2, <1>3, <1>4, <2>1, <2>2, <2>3 DEF TInv
<1>10. CASE DiarizeFails(c) \/ DiarizerLost(c)
  <2>1. rerun' = [rerun EXCEPT ![c] = "no"] /\ UNCHANGED <<rows, labels, queue>>
    BY <1>10 DEF DiarizeFails, DiarizerLost, nameVars
  <2>2. RowsFit' /\ Grown
    BY <1>7, <2>1
  <2> QED
    BY <1>2, <1>3, <1>4, <1>8, <2>1, <2>2 DEF TInv
<1>11. CASE DiarizeSucceeds(c)
  <2> DEFINE x == [names |-> NoNames, vector |-> NoNames, indexed |-> FALSE]
  <2>1. /\ rerun[c] = "running" /\ rerun' = [rerun EXCEPT ![c] = "index"]
        /\ rows' = [rows EXCEPT ![c] = Append(@, x)] /\ UNCHANGED <<labels, queue>>
    BY <1>11 DEF DiarizeSucceeds
  <2>2. x \in Row
    BY IdleFits DEF Row
  <2> HIDE DEF x
  <2>3. /\ RowTypes' /\ \A d \in Convs \ {c} : rows'[d] = rows[d]
        /\ Len(rows'[c]) = Len(rows[c]) + 1 /\ DOMAIN rows'[c] = DOMAIN rows[c] \cup {Len(rows'[c])}
        /\ rows'[c] # <<>>
    <3>1. RowTypes
      BY <1>1 DEF RowsFit, RowTypes
    <3> QED
      BY <2>1, <2>2, <3>1, RowAdded
  <2>4. rerun'[c] = "index" /\ \A d \in Convs \ {c} : rerun'[d] = rerun[d]
    BY <1>1, <2>1
  <2>5. Len(rows'[c]) <= MaxRows
    <3>1. Len(rows[c]) < MaxRows /\ rows[c] \in Seq(Row) /\ MaxRows \in Nat
      BY <1>1, <2>1, SessionBounds DEF RowsFit
    <3> QED
      BY <2>3, <3>1
  <2>6. c \in DOMAIN prev
    BY <1>1, <2>1 DEF RowsFit
  <2>7. RowsFit'
    BY <1>1, <1>2, <2>3, <2>4, <2>5, <2>6 DEF RowsFit, RowTypes
  <2>8. Grown
    BY <2>3 DEF Grown
  <2> QED
    BY <1>2, <1>3, <1>4, <1>8, <2>1, <2>7, <2>8 DEF TInv
<1>12. CASE DiarizeSendsIndex(c)
  <2>1. /\ rerun[c] = "index" /\ rerun' = [rerun EXCEPT ![c] = "post"]
        /\ SendIndex(c, Newest(c)) /\ UNCHANGED <<rows, labels>>
    BY <1>12 DEF DiarizeSendsIndex, nameVars
  <2>2. rows[c] # <<>>
    BY <1>1, <2>1 DEF RowsFit
  <2>3. RowsFit' /\ Grown
    BY <1>7, <2>1, <2>2
  <2>4. QueueFits' /\ \A q \in Messages \ {Index(c, Newest(c))} : queue'[q] = queue[q]
    BY <1>1, <2>1, IndexSentFits
  <2>5. MessagesFit'
    BY <1>5, <1>6, <2>1, <2>2, <2>4
  <2> QED
    BY <1>2, <1>3, <1>8, <2>1, <2>3, <2>4, <2>5 DEF TInv
<1>13. CASE SchedulePostDiarization(c)
  <2>1. /\ rerun[c] = "post" /\ rerun' = [rerun EXCEPT ![c] = "no"]
        /\ Send(Identify(c)) \/ UNCHANGED queue
        /\ UNCHANGED <<rows, labels>>
    BY <1>13 DEF SchedulePostDiarization, nameVars
  <2>2. rows[c] # <<>>
    BY <1>1, <2>1 DEF RowsFit
  <2>3. RowsFit' /\ Grown
    BY <1>7, <2>1
  <2>4. MessagesFit' /\ QueueFits'
    <3>1. CASE Send(Identify(c))
      <4>1. QueueFits' /\ \A q \in Messages \ {Identify(c)} : queue'[q] = queue[q]
        BY <1>1, <3>1, SentFits
      <4> QED
        BY <1>5, <1>6, <2>1, <2>2, <4>1
    <3>2. CASE UNCHANGED queue
      BY <1>4, <2>3, <3>2
    <3> QED
      BY <2>1, <3>1, <3>2
  <2> QED
    BY <1>2, <1>3, <1>8, <2>1, <2>3, <2>4 DEF TInv
<1> QED
  BY <1>9, <1>10, <1>11, <1>12, <1>13 DEF Diarize

\* A step of a task keeps the shapes when what it knows, writes and sends fits.
LEMMA TaskStays ==
  ASSUME IInv, TInv, NEW w \in Workers, UNCHANGED <<prev, deleted, rerun, req>>,
         Rewritten \/ UNCHANGED rows, labels' \in [Convs -> Maps], QueueFits', SummaryFits',
         lost' \subseteq lost \cup {work[w].msg, Summarize},
         \A v \in Workers \ {w} : work'[v] = work[v], TaskFits(work'[w]),
         \A m \in Messages : queue'[m] > 0 => queue[m] > 0 \/ Placed(m),
         \A m \in Messages : work'[w].msg = m => work[w].msg = m \/ queue[m] > 0 \/ Placed(m)
  PROVE  TInv'
<1>1. Links /\ RowsFit /\ MapsFit /\ MessagesFit /\ TasksFit
  BY DEF TInv
<1>2. Grown
  BY RewrittenGrows
<1>3. \A m \in Messages : Placed(m) => Placed(m)'
  BY <1>2, MessageFields DEF Placed, Grown
<1>4. MessagesFit'
  BY <1>1, <1>2, <1>3, MessagesStay
<1>5. RowsFit'
  BY <1>1, RowsStay
<1>6. MapsFit'
  BY <1>1, <1>2 DEF MapsFit, Grown
<1>7. TasksFit' /\ Links' /\ LostFits'
  <2>1. work[w].msg \in Messages /\ Summarize \in Messages
    BY MessageFields DEF IInv, Types, WorkTypes
  <2> QED
    BY <1>1, <2>1 DEF TInv, TasksFit, Links, LostFits
<1> QED
  BY <1>4, <1>5, <1>6, <1>7 DEF TInv

\* What a task leaves alone.
LEMMA TaskLeaves ==
  ASSUME NEW w \in Workers, Task(w)
  PROVE  /\ UNCHANGED <<prev, deleted, length, rerun, req, renamed>>
         /\ UNCHANGED rows \/ IdentifyCommits(w) \/ IndexWrites(w)
         /\ UNCHANGED labels \/ IdentifyCommits(w)
         /\ UNCHANGED drifted \/ IdentifyCommits(w)
         /\ lost' \subseteq lost \cup {work[w].msg, Summarize}
<1>1. CASE (\E m \in Messages : Take(w, m)) \/ WorkerDies(w) \/ ChildLost(w) \/ Redeliver(w)
  BY <1>1 DEF Take, WorkerDies, ChildLost, Lose, Redeliver, chainVars, nameVars, history
<1>2. CASE \/ IdentifyBegin(w) \/ IdentifySkips(w) \/ (\E a \in Answers : IdentifyAnswered(w, a))
           \/ IdentifyRaises(w) \/ IdentifySchedules(w) \/ IdentifyHandler(w) \/ IdentifyLast(w)
           \/ IdentifyCommits(w)
  BY <1>2 DEF IdentifyBegin, IdentifySkips, IdentifyAnswered, SendIndex, IdentifyCommits,
     IdentifyRaises, IdentifySchedules, IdentifyHandler, Lose, IdentifyLast, chainVars, nameVars,
     history
<1>3. CASE \/ SummaryReads(w) \/ SummaryClaims(w) \/ SummaryAnswered(w) \/ SummaryStored(w)
           \/ SummaryRaises(w) \/ SummaryHandler(w)
           \/ IndexReads(w) \/ IndexWrites(w) \/ IndexRaises(w)
  BY <1>3 DEF SummaryReads, SummaryClaims, SummaryAnswered, SummaryStored, SummaryRaises,
     SummaryHandler, Lose, IndexReads, IndexWrites, IndexRaises, chainVars, nameVars, history
<1> QED
  BY <1>1, <1>2, <1>3 DEF Task

\* The message of a task is taken, or comes back.
LEMMA MessageFits ==
  ASSUME IInv, TInv, NEW w \in Workers,
         (\E m \in Messages : Take(w, m)) \/ WorkerDies(w) \/ ChildLost(w) \/ Redeliver(w)
  PROVE  TInv'
<1>1. /\ QueueFits /\ TasksFit /\ SummaryFits /\ MessagesFit /\ labels \in [Convs -> Maps]
      /\ WorkTypes
  BY DEF TInv, MapsFit, IInv, Types
<1>2. UNCHANGED <<prev, deleted, rerun, req>> /\ lost' \subseteq lost \cup {work[w].msg, Summarize}
  BY TaskLeaves DEF Task
<1>3. UNCHANGED <<rows, labels, summary>> /\ SummaryFits'
  <2>1. UNCHANGED <<rows, labels, summary>>
    BY DEF Take, WorkerDies, ChildLost, Redeliver, nameVars
  <2> QED
    BY <1>1, <2>1 DEF SummaryFits
<1>4. ASSUME NEW m \in Messages, Take(w, m) PROVE TInv'
  <2>1. /\ queue[m] > 0 /\ queue' = [queue EXCEPT ![m] = @ - 1]
        /\ work' = [work EXCEPT ![w] = [Idle EXCEPT !.msg = m, !.at = "start"]]
    BY <1>4 DEF Take
  <2> DEFINE t == [Idle EXCEPT !.msg = m, !.at = "start"]
  <2>2. t.msg = m /\ TaskFits(t)
    <3>1. /\ t.msg = m /\ t.at = "start" /\ t.row = Idle.row /\ t.segs = Idle.segs
          /\ t.copy = Idle.copy
      BY DEF Idle
    <3> HIDE DEF t
    <3> QED
      BY <3>1, IdleFits DEF TaskFits
  <2>3. work' = [work EXCEPT ![w] = t]
    BY <2>1
  <2> HIDE DEF t
  <2>4. work'[w] = t /\ \A v \in Workers \ {w} : work'[v] = work[v]
    BY <1>1, <2>3 DEF WorkTypes
  <2>5. QueueFits' /\ \A q \in Messages : queue'[q] > 0 => queue[q] > 0
    <3>1. queue[m] \in 0 .. MaxCopies /\ queue[m] > 0 /\ MaxCopies \in Nat
      BY <1>1, <2>1, SessionBounds DEF QueueFits
    <3>2. queue[m] - 1 \in 0 .. MaxCopies
      BY <3>1
    <3> QED
      BY <1>1, <2>1, <3>2 DEF QueueFits
  <2> QED
    BY <1>1, <1>2, <1>3, <2>1, <2>2, <2>4, <2>5, TaskStays
<1>5. CASE WorkerDies(w) \/ Redeliver(w)
  <2>1. PICK m \in Messages : m = work[w].msg
    BY <1>1 DEF WorkTypes
  <2>2. Send(m) /\ (Finish(w) \/ UNCHANGED work)
    BY <1>5, <2>1 DEF WorkerDies, Redeliver, PutBack
  <2>3. QueueFits' /\ \A q \in Messages \ {m} : queue'[q] = queue[q]
    BY <1>1, <2>2, SentFits
  <2>4. Placed(m)
    BY <1>1, <2>1 DEF MessagesFit, Active
  <2>5. /\ \A v \in Workers \ {w} : work'[v] = work[v]
        /\ TaskFits(work'[w])
        /\ \A q \in Messages : work'[w].msg = q => work[w].msg = q \/ Placed(q)
    <3>1. CASE Finish(w)
      <4>1. work'[w] = Idle /\ \A v \in Workers \ {w} : work'[v] = work[v]
        BY <1>1, <3>1, FinishEnds DEF Ends
      <4>2. Placed(Summarize)
        BY MessageFields DEF Placed
      <4> QED
        BY <4>1, <4>2, IdleFits, IdleFields
    <3>2. CASE UNCHANGED work
      BY <1>1, <3>2 DEF TasksFit
    <3> QED
      BY <2>2, <3>1, <3>2
  <2> QED
    BY <1>1, <1>2, <1>3, <2>3, <2>4, <2>5, TaskStays
<1>6. CASE ChildLost(w)
  <2>1. Finish(w) /\ UNCHANGED queue
    BY <1>6 DEF ChildLost
  <2>2. work'[w] = Idle /\ \A v \in Workers \ {w} : work'[v] = work[v]
    BY <1>1, <2>1, FinishEnds DEF Ends
  <2>3. Placed(Summarize)
    BY MessageFields DEF Placed
  <2>4. QueueFits'
    BY <1>1, <2>1 DEF QueueFits
  <2> QED
    BY <1>1, <1>2, <1>3, <2>1, <2>2, <2>3, <2>4, IdleFits, IdleFields, TaskStays
<1> QED
  BY <1>4, <1>5, <1>6

\* A task that goes on as it was, or with its message alone, or ends, knows what fits.
LEMMA TaskGoesOn ==
  ASSUME WorkTypes, TasksFit, NEW w \in Workers, NEW l, l # "embed",
         Goto(w, l) \/ Continue(w, l) \/ Finish(w)
  PROVE  /\ \A v \in Workers \ {w} : work'[v] = work[v]
         /\ TaskFits(work'[w])
         /\ \A m \in Messages : work'[w].msg = m => work[w].msg = m \/ Placed(m)
<1>1. TaskFits(work[w])
  BY DEF TasksFit
<1>2. CASE Goto(w, l)
  BY <1>1, <1>2, GoneTo DEF TaskFits
<1>3. CASE Continue(w, l)
  <2>1. /\ work'[w].msg = work[w].msg /\ work'[w].at = l /\ work'[w].row = Idle.row
        /\ work'[w].segs = Idle.segs /\ work'[w].copy = Idle.copy
        /\ \A v \in Workers \ {w} : work'[v] = work[v]
    BY <1>3, Continued, IdleFits
  <2> QED
    BY <2>1, IdleFits DEF TaskFits
<1>4. CASE Finish(w)
  <2>1. work'[w] = Idle /\ \A v \in Workers \ {w} : work'[v] = work[v]
    BY <1>4, FinishEnds DEF Ends
  <2>2. Placed(Summarize)
    BY MessageFields DEF Placed
  <2> QED
    BY <2>1, <2>2, IdleFits, IdleFields
<1> QED
  BY <1>2, <1>3, <1>4

\* A task of identification stores a map, and names that come from one.
LEMMA IdentifyFits ==
  ASSUME IInv, TInv, NEW w \in Workers,
         \/ IdentifyBegin(w) \/ IdentifySkips(w) \/ (\E a \in Answers : IdentifyAnswered(w, a))
         \/ IdentifyCommits(w) \/ IdentifyRaises(w) \/ IdentifySchedules(w)
         \/ IdentifyHandler(w) \/ IdentifyLast(w)
  PROVE  TInv'
<1>1. /\ QueueFits /\ TasksFit /\ SummaryFits /\ MessagesFit /\ labels \in [Convs -> Maps]
      /\ RowsFit /\ WorkTypes
  BY DEF TInv, MapsFit, IInv, Types
<1>2. /\ UNCHANGED <<prev, deleted, rerun, req>>
      /\ lost' \subseteq lost \cup {work[w].msg, Summarize}
      /\ UNCHANGED rows \/ IdentifyCommits(w) \/ IndexWrites(w)
      /\ UNCHANGED labels \/ IdentifyCommits(w)
  BY TaskLeaves DEF Task
<1>3. UNCHANGED summary /\ SummaryFits'
  <2>1. UNCHANGED summary
    BY DEF IdentifyBegin, IdentifySkips, IdentifyAnswered, IdentifyCommits, IdentifyRaises,
       IdentifySchedules, IdentifyHandler, IdentifyLast
  <2> QED
    BY <1>1, <2>1 DEF SummaryFits
<1>4. work[w].msg.kind = "identify"
  <2>1. CASE IdentifyCommits(w)
    BY <2>1, Kinds DEF IdentifyCommits, PlacesOf, Before, Idle
  <2> QED
    BY <2>1 DEF IdentifyBegin, IdentifySkips, IdentifyAnswered, IdentifyRaises,
       IdentifySchedules, IdentifyHandler, IdentifyLast, Is
<1>5. Conv(w) \in Convs /\ rows[Conv(w)] # <<>>
  BY <1>1, <1>4, Kinds, MessageFields DEF Conv, MessagesFit, Active, Placed
<1>6. ASSUME UNCHANGED queue \/ Send(Summarize)
      PROVE  QueueFits' /\ \A m \in Messages : queue'[m] > 0 => queue[m] > 0 \/ Placed(m)
  <2>1. CASE UNCHANGED queue
    BY <1>1, <2>1 DEF QueueFits
  <2>2. CASE Send(Summarize)
    <3>1. Placed(Summarize)
      BY MessageFields DEF Placed
    <3> QED
      BY <1>1, <2>2, <3>1, SentFits
  <2> QED
    BY <1>6, <2>1, <2>2
<1>7. CASE \/ IdentifyBegin(w) \/ IdentifySkips(w) \/ IdentifyRaises(w) \/ IdentifySchedules(w)
           \/ IdentifyHandler(w) \/ IdentifyLast(w)
  <2>1. PICK l \in {"llm", "except", "last"} : Goto(w, l) \/ Continue(w, l) \/ Finish(w)
    BY <1>7 DEF IdentifyBegin, IdentifySkips, IdentifyRaises, IdentifySchedules,
       IdentifyHandler, IdentifyLast
  <2>2. UNCHANGED queue \/ Send(Summarize)
    BY <1>7 DEF IdentifyBegin, IdentifySkips, IdentifyRaises, IdentifySchedules,
       IdentifyHandler, IdentifyLast
  <2>3. UNCHANGED <<rows, labels>>
    BY <1>7 DEF IdentifyBegin, IdentifySkips, IdentifyRaises, IdentifySchedules,
       IdentifyHandler, IdentifyLast, nameVars
  <2>4. /\ \A v \in Workers \ {w} : work'[v] = work[v]
        /\ TaskFits(work'[w])
        /\ \A m \in Messages : work'[w].msg = m => work[w].msg = m \/ Placed(m)
    BY <1>1, <2>1, TaskGoesOn
  <2> QED
    BY <1>1, <1>2, <1>3, <1>6, <2>2, <2>3, <2>4, TaskStays
<1>8. ASSUME NEW a \in Answers, IdentifyAnswered(w, a) PROVE TInv'
  <2> DEFINE c == Conv(w)
             l == IF a = NoNames THEN "skip" ELSE
                  IF \E s \in Speakers : a[s] = "auto" THEN "persist" ELSE "suggest"
             t == [work[w] EXCEPT !.at = l, !.base = labels[c], !.copy = Merge(labels[c], a),
                                  !.row = Newest(c)]
  <2>1. work' = [work EXCEPT ![w] = t]
    BY <1>8 DEF IdentifyAnswered
  <2>2. SendIndex(c, Newest(c)) \/ UNCHANGED queue
    BY <1>8 DEF IdentifyAnswered
  <2>3. UNCHANGED <<rows, labels>>
    BY <1>8 DEF IdentifyAnswered, nameVars
  <2>4. l # "embed"
    OBVIOUS
  <2> HIDE DEF l
  <2>5. Merge(labels[c], a) \in Maps
    <3>1. labels[c] \in Maps /\ a \in [Speakers -> {"none", "suggested", "auto"}]
      BY <1>1, <1>5, SessionInputs
    <3> QED
      BY <3>1 DEF Merge, Maps, Sources
  <2>6. Newest(c) \in 0 .. MaxRows
    BY <1>1, <1>5, NewestRow
  <2>7. t.msg = work[w].msg /\ TaskFits(t)
    <3>1. work[w] = [f \in Fields |-> work[w][f]] /\ TaskFits(work[w])
      BY <1>1 DEF WorkTypes, TasksFit
    <3>2. /\ t.msg = work[w].msg /\ t.at = l /\ t.copy = Merge(labels[c], a) /\ t.row = Newest(c)
          /\ t.segs = work[w].segs
      BY <3>1 DEF Fields
    <3> HIDE DEF t, c
    <3> QED
      BY <2>4, <2>5, <2>6, <3>1, <3>2 DEF TaskFits
  <2> HIDE DEF t
  <2>8. work'[w] = t /\ \A v \in Workers \ {w} : work'[v] = work[v]
    BY <1>1, <2>1 DEF WorkTypes
  <2>9. QueueFits' /\ \A m \in Messages : queue'[m] > 0 => queue[m] > 0 \/ Placed(m)
    <3>1. CASE UNCHANGED queue
      BY <1>1, <3>1 DEF QueueFits
    <3>2. CASE SendIndex(c, Newest(c))
      <4>1. Placed(Index(c, Newest(c)))
        BY <1>1, <1>5, NewestRow, IndexFields DEF Placed
      <4> QED
        BY <1>1, <3>2, <4>1, IndexSentFits
    <3> QED
      BY <2>2, <3>1, <3>2
  <2> QED
    BY <1>1, <1>2, <1>3, <2>3, <2>7, <2>8, <2>9, TaskStays
<1>9. CASE IdentifyCommits(w)
  <2>1. /\ Continue(w, "post") /\ UNCHANGED queue
        /\ labels' = labels \/ labels' = [labels EXCEPT ![Conv(w)] = work[w].copy]
        /\ rows' = rows \/ rows' = Persist(Conv(w), work[w].row, work[w].copy)
    BY <1>9 DEF IdentifyCommits
  <2>2. work[w].copy \in Maps
    BY <1>1 DEF TasksFit, TaskFits
  <2>3. Rewritten \/ UNCHANGED rows
    BY <1>1, <1>5, <2>1, <2>2, NamesWritten DEF RowsFit, RowTypes
  <2>4. labels' \in [Convs -> Maps]
    BY <1>1, <1>5, <2>1, <2>2
  <2>5. /\ \A v \in Workers \ {w} : work'[v] = work[v]
        /\ TaskFits(work'[w])
        /\ \A m \in Messages : work'[w].msg = m => work[w].msg = m \/ Placed(m)
    BY <1>1, <2>1, TaskGoesOn
  <2> QED
    BY <1>2, <1>3, <1>6, <2>1, <2>3, <2>4, <2>5, TaskStays
<1> QED
  BY <1>7, <1>8, <1>9

\* A task of the summary reads a bundle, and stores it.
LEMMA SummaryKeepsFit ==
  ASSUME IInv, TInv, NEW w \in Workers,
         \/ SummaryReads(w) \/ SummaryClaims(w) \/ SummaryAnswered(w) \/ SummaryStored(w)
         \/ SummaryRaises(w) \/ SummaryHandler(w)
  PROVE  TInv'
<1>1. /\ QueueFits /\ TasksFit /\ SummaryFits /\ labels \in [Convs -> Maps] /\ RowsFit
      /\ WorkTypes /\ Links
  BY DEF TInv, MapsFit, IInv, Types
<1>2. /\ UNCHANGED <<prev, deleted, rerun, req, rows, labels>>
      /\ lost' \subseteq lost \cup {work[w].msg, Summarize}
  <2>1. UNCHANGED <<rows, labels>>
    BY DEF SummaryReads, SummaryClaims, SummaryAnswered, SummaryStored, SummaryRaises,
       SummaryHandler, nameVars
  <2> QED
    BY <2>1, TaskLeaves DEF Task
<1>3. UNCHANGED queue /\ QueueFits'
  <2>1. UNCHANGED queue
    BY DEF SummaryReads, SummaryClaims, SummaryAnswered, SummaryStored, SummaryRaises,
       SummaryHandler
  <2> QED
    BY <1>1, <2>1 DEF QueueFits
<1>4. CASE SummaryReads(w)
  <2>1. PICK order \in IF Live = {} THEN {<<>>} ELSE Orders(Live), fit \in Fits :
          work' = [work EXCEPT ![w].at = "claim", ![w].segs = Bundle(order, fit),
                               ![w].seen = summary.status # "absent"]
    BY <1>4 DEF SummaryReads
  <2> DEFINE t == [work[w] EXCEPT !.at = "claim", !.segs = Bundle(order, fit),
                                  !.seen = summary.status # "absent"]
  <2>2. work' = [work EXCEPT ![w] = t]
    BY <2>1
  <2>3. order \in Seq(Convs)
    <3>1. CASE Live = {}
      BY <2>1, <3>1
    <3>2. CASE Live # {}
      <4>1. order \in Seq(Live) /\ Live \subseteq Convs
        BY <1>1, <2>1, <3>2, LiveFinite, OrdersInOrder
      <4> QED
        BY <4>1
    <3> QED
      BY <3>1, <3>2
  <2>4. Bundle(order, fit) \in Segments
    BY <1>1, <2>3, BundleFits
  <2>5. t.msg = work[w].msg /\ TaskFits(t)
    <3>1. work[w] = [f \in Fields |-> work[w][f]] /\ TaskFits(work[w])
      BY <1>1 DEF WorkTypes, TasksFit
    <3>2. /\ t.msg = work[w].msg /\ t.at = "claim" /\ t.copy = work[w].copy /\ t.row = work[w].row
          /\ t.segs = Bundle(order, fit)
      BY <3>1 DEF Fields
    <3> HIDE DEF t
    <3> QED
      BY <2>4, <3>1, <3>2 DEF TaskFits
  <2> HIDE DEF t
  <2>6. work'[w] = t /\ \A v \in Workers \ {w} : work'[v] = work[v]
    BY <1>1, <2>2 DEF WorkTypes
  <2>7. SummaryFits'
    BY <1>1, <1>4 DEF SummaryReads, SummaryFits
  <2> QED
    BY <1>1, <1>2, <1>3, <2>5, <2>6, <2>7, TaskStays
<1>5. CASE ~SummaryReads(w)
  <2>1. PICK l \in {"llm", "except", "store"} : Goto(w, l) \/ Continue(w, l) \/ Finish(w)
    BY <1>5 DEF SummaryClaims, SummaryAnswered, SummaryStored, SummaryRaises, SummaryHandler
  <2>2. /\ \A v \in Workers \ {w} : work'[v] = work[v]
        /\ TaskFits(work'[w])
        /\ \A m \in Messages : work'[w].msg = m => work[w].msg = m \/ Placed(m)
    BY <1>1, <2>1, TaskGoesOn
  <2>3. \/ UNCHANGED summary \/ summary' = [status |-> "success", segs |-> work[w].segs]
        \/ \E x \in {"running", "failed"} : summary' = [summary EXCEPT !.status = x]
    BY <1>5 DEF SummaryClaims, SummaryAnswered, SummaryStored, SummaryRaises, SummaryHandler
  <2>4. SummaryFits'
    <3>1. work[w].segs \in Segments
      BY <1>1 DEF TasksFit, TaskFits
    <3> QED
      BY <1>1, <2>3, <3>1 DEF SummaryFits
  <2> QED
    BY <1>1, <1>2, <1>3, <2>2, <2>4, TaskStays
<1> QED
  BY <1>4, <1>5

\* A task of the index reads the names of its row, and stores them as its vector.
LEMMA IndexKeepsFit ==
  ASSUME IInv, TInv, NEW w \in Workers, IndexReads(w) \/ IndexWrites(w) \/ IndexRaises(w)
  PROVE  TInv'
<1>1. /\ QueueFits /\ TasksFit /\ SummaryFits /\ labels \in [Convs -> Maps] /\ RowsFit
      /\ WorkTypes /\ MessagesFit
  BY DEF TInv, MapsFit, IInv, Types
<1>2. /\ UNCHANGED <<prev, deleted, rerun, req, queue, labels, summary>>
      /\ QueueFits' /\ SummaryFits' /\ lost' \subseteq lost \cup {work[w].msg, Summarize}
  <2>1. UNCHANGED <<queue, labels, summary>>
    BY DEF IndexReads, IndexWrites, IndexRaises, nameVars
  <2> QED
    BY <1>1, <2>1, TaskLeaves DEF QueueFits, SummaryFits, Task
<1>3. Conv(w) \in Convs /\ work[w].msg.row \in DOMAIN rows[Conv(w)]
  <2>1. work[w].msg.kind = "index"
    BY DEF IndexReads, IndexWrites, IndexRaises, Is
  <2> QED
    BY <1>1, <2>1, Kinds, MessageFields DEF Conv, MessagesFit, Active, Placed
<1>4. CASE IndexReads(w)
  <2> DEFINE c == Conv(w)
             r == work[w].msg.row
             t == [work[w] EXCEPT !.at = "embed", !.copy = rows[c][r].names]
  <2>1. work' = [work EXCEPT ![w] = t] /\ UNCHANGED rows
    BY <1>4 DEF IndexReads, nameVars
  <2>2. rows[c][r].names \in Shown /\ rows[c][r].names \in Maps
    <3>1. rows[c] \in Seq(Row)
      BY <1>1, <1>3 DEF RowsFit
    <3>2. rows[c][r] \in Row
      BY <1>3, <3>1
    <3> QED
      BY <3>2 DEF Row, Shown, Maps, Sources
  <2>3. t.msg = work[w].msg /\ TaskFits(t)
    <3>1. work[w] = [f \in Fields |-> work[w][f]] /\ TaskFits(work[w])
      BY <1>1 DEF WorkTypes, TasksFit
    <3>2. /\ t.msg = work[w].msg /\ t.copy = rows[c][r].names /\ t.row = work[w].row
          /\ t.segs = work[w].segs
      BY <3>1 DEF Fields
    <3> HIDE DEF t, c, r
    <3> QED
      BY <2>2, <3>1, <3>2 DEF TaskFits
  <2> HIDE DEF t
  <2>4. work'[w] = t /\ \A v \in Workers \ {w} : work'[v] = work[v]
    BY <1>1, <2>1 DEF WorkTypes
  <2> QED
    BY <1>1, <1>2, <2>1, <2>3, <2>4, TaskStays
<1>5. CASE IndexWrites(w) \/ IndexRaises(w)
  <2>1. Finish(w)
    BY <1>5 DEF IndexWrites, IndexRaises
  <2>2. /\ \A v \in Workers \ {w} : work'[v] = work[v]
        /\ TaskFits(work'[w])
        /\ \A m \in Messages : work'[w].msg = m => work[w].msg = m \/ Placed(m)
    BY <1>1, <2>1, TaskGoesOn
  <2>3. Rewritten \/ UNCHANGED rows
    <3>1. CASE IndexWrites(w)
      <4>1. /\ work[w].at = "embed"
            /\ Embedded(Conv(w), work[w].msg.row, work[w].copy)
        BY <3>1 DEF IndexWrites, Is, Embedded
      <4>2. work[w].copy \in Shown
        BY <1>1, <4>1 DEF TasksFit, TaskFits
      <4> QED
        BY <1>1, <1>3, <4>1, <4>2, VectorWritten DEF RowsFit, RowTypes
    <3>2. CASE IndexRaises(w)
      BY <3>2 DEF IndexRaises, nameVars
    <3> QED
      BY <1>5, <3>1, <3>2
  <2> QED
    BY <1>1, <1>2, <2>2, <2>3, TaskStays
<1> QED
  BY <1>4, <1>5

\* Every step, and a step that changes nothing, keeps the shapes.
LEMMA StepFits ==
  ASSUME IInv, TInv, [Next]_vars
  PROVE  TInv'
<1>1. CASE Request
  BY <1>1, RequestFits
<1>2. ASSUME NEW c \in Convs, Diarize(c) PROVE TInv'
  BY <1>2, DiarizeFits
<1>3. ASSUME NEW w \in Workers, Task(w) PROVE TInv'
  BY <1>3, MessageFits, IdentifyFits, SummaryKeepsFit, IndexKeepsFit DEF Task
<1>4. CASE UNCHANGED vars
  <2>1. UNCHANGED <<prev, deleted, rows, rerun, labels, req, queue, work, summary, lost>>
    BY <1>4 DEF vars, chainVars, nameVars, history
  <2>2. Links' /\ RowsFit' /\ MapsFit'
    BY <2>1 DEF TInv, Links, RowsFit, MapsFit
  <2>3. MessagesFit'
    BY <2>1 DEF TInv, MessagesFit, Active, Placed
  <2>4. QueueFits' /\ TasksFit' /\ SummaryFits' /\ LostFits'
    BY <2>1 DEF TInv, QueueFits, TasksFit, SummaryFits, LostFits
  <2> QED
    BY <2>2, <2>3, <2>4 DEF TInv
<1> QED
  BY <1>1, <1>2, <1>3, <1>4 DEF Next

\* At the start there is nothing.
LEMMA InitiallyFits == Init => TInv
<1> SUFFICES ASSUME Init PROVE TInv
  OBVIOUS
<1>1. MaxRows \in Nat /\ MaxCopies \in Nat
  BY SessionBounds
<1>2. Links
  BY DEF Init, Links
<1>3. RowsFit
  <2>1. rows = [c \in Convs |-> <<>>] /\ rerun = [c \in Convs |-> "no"]
    BY DEF Init
  <2>2. <<>> \in Seq(Row) /\ Len(<<>>) = 0
    OBVIOUS
  <2> QED
    BY <1>1, <2>1, <2>2 DEF RowsFit
<1>4. MapsFit
  BY IdleFits DEF Init, MapsFit
<1>5. MessagesFit
  <2>1. \A m \in Messages : Active(m) => m = Summarize
    BY IdleFields DEF Init, Active
  <2> QED
    BY <2>1, MessageFields DEF MessagesFit, Placed
<1>6. QueueFits
  BY <1>1 DEF Init, QueueFits
<1>7. TasksFit
  BY IdleFits DEF Init, TasksFit
<1>8. SummaryFits
  BY IdleFits DEF Init, SummaryFits
<1>9. LostFits
  BY DEF Init, LostFits
<1> QED
  BY <1>2, <1>3, <1>4, <1>5, <1>6, <1>7, <1>8, <1>9 DEF TInv

\* In every reachable state all that is stored has its shape.
THEOREM Shapes == Spec => [](IInv /\ TInv)
<1>1. Init => TInv
  BY InitiallyFits
<1>2. IInv /\ TInv /\ [Next]_vars => TInv'
  BY StepFits
<1> QED
  BY <1>1, <1>2, Invariance, PTL DEF Spec

\* The variables keep their types: rows stay within their bound, a request names a row
\* there is, and the text of the summary is made of segments.
THEOREM TypeCorrect == Spec => []TypeOK
<1>1. IInv /\ TInv => TypeOK
  <2> SUFFICES ASSUME IInv, TInv PROVE TypeOK
    OBVIOUS
  <2>1. length \in 1 .. MaxConvs /\ Len(prev) <= length
        /\ rerun \in [Convs -> {"no", "running", "index", "post"}]
        /\ ident \in [Convs -> {"idle", "pending", "running", "skipped", "success", "failed"}]
    BY DEF IInv, Types, ChainTypes, NameTypes
  <2>2. (\A c \in DOMAIN prev : prev[c] \in 0 .. c - 1) /\ deleted \subseteq DOMAIN prev
    BY DEF TInv, Links
  <2>3. ASSUME NEW c \in Convs
        PROVE  /\ Len(rows[c]) <= MaxRows
               /\ \A r \in DOMAIN rows[c] : rows[c][r].indexed \in BOOLEAN
                    /\ {rows[c][r].names, rows[c][r].vector} \subseteq Shown
    <3>1. rows[c] \in Seq(Row) /\ Len(rows[c]) <= MaxRows
      BY DEF TInv, RowsFit
    <3>2. \A r \in DOMAIN rows[c] : rows[c][r] \in Row
      BY <3>1
    <3> QED
      BY <3>1, <3>2 DEF Row
  <2>4. /\ labels \in [Convs -> [Speakers -> Sources]]
        /\ req = NoReq \/ req.row \in DOMAIN rows[req.conv]
    BY DEF TInv, MapsFit, Maps
  <2>5. /\ summary \in [status : {"absent", "running", "success", "failed"}, segs : Segments]
        /\ queue \in [Messages -> 0 .. MaxCopies] /\ lost \subseteq Messages
    BY DEF TInv, SummaryFits, QueueFits, LostFits
  <2>6. \A w \in Workers : work[w].msg \in Messages /\ work[w].segs \in Segments
                           /\ work[w].row \in 0 .. MaxRows
    BY DEF TInv, TasksFit, TaskFits, IInv, Types, WorkTypes
  <2> QED
    BY <2>1, <2>2, <2>3, <2>4, <2>5, <2>6 DEF TypeOK
<1> QED
  BY <1>1, Shapes, PTL

\* The summary is made from every conversation of the session once, each after the one it
\* continues: also when one was continued twice, began without the link, or was deleted in
\* the middle, and for a session of any length.
THEOREM ChainOrdered == Spec => []ChainInOrder
<1>1. IInv /\ TInv => ChainInOrder
  <2> SUFFICES ASSUME IInv, TInv, Live # {}, NEW order \in Orders(Live)
               PROVE  /\ Len(order) = Cardinality(Live) /\ {order[i] : i \in DOMAIN order} = Live
                      /\ \A i, j \in DOMAIN order : prev[order[i]] = order[j] => j < i
    BY DEF ChainInOrder
  <2>1. Live \in SUBSET (Nat \ {0}) /\ IsFiniteSet(Live) /\ Continues(Live)
    BY LiveFinite DEF TInv
  <2> QED
    BY <2>1, OrdersInOrder
<1> QED
  BY <1>1, Shapes, PTL

-----------------------------------------------------------------------------
\* The summary is made from what is shown

\* A summary that will read conversation c is still to be begun.
Later(c) ==
  \/ rerun[c] \in {"index", "post"} \/ queue[Identify(c)] > 0 \/ queue[Summarize] > 0
  \/ \E w \in Workers : work[w].msg = Identify(c) \/ Is(w, "summary", "start")

\* Segments list c, and show of it, unless its text was cut off, the newest row, under its
\* names unless the user has given others, which are those of its participants.
Current(seg, c) ==
  /\ seg.row = Newest(c)
  /\ c \in renamed \/ seg.names = rows[c][Newest(c)].names
  /\ c \in renamed \cup drifted \/ seg.people = seg.names
Covers(segs, c) == \E i \in DOMAIN segs : segs[i].conv = c /\ (segs[i].whole => Current(segs[i], c))

\* Unless a summary is missed there is one task of it at a time. What it has read, and what
\* has been stored, shows each conversation that no later summary will read.
Spoken == {c \in Live : rows[c] # <<>>}
Reading(w) == Summarizing(w) /\ work[w].at \in {"claim", "llm"}
OneSummary == \A v, w \in Workers : Summarizing(v) /\ Summarizing(w) => v = w
ReadShows ==
  \A w \in Workers : Reading(w) => \A c \in Spoken : Later(c) \/ Covers(work[w].segs, c)
Closing(w) == Summarizing(w) /\ work[w].at \in {"claim", "llm", "except"}
StoredShows ==
  \A c \in Spoken : \/ Later(c) \/ Covers(summary.segs, c) \/ summary.status = "failed"
                    \/ \E w \in Workers : Closing(w)

CInv == missed \/ (OneSummary /\ ReadShows /\ StoredShows)

\* The invariant implies the property.
LEMMA CurrentImplied == IInv /\ TInv /\ CInv => SummaryCurrent
<1> SUFFICES ASSUME IInv, TInv, CInv, Quiet("identify"), Quiet("summary"), ~missed,
                    summary.status # "failed",
                    \A c \in Live : rerun[c] \in {"no", "running"}, NEW c \in Live, rows[c] # <<>>
             PROVE  Covers(summary.segs, c)
  BY DEF SummaryCurrent, Covers, Current
<1>1. c \in Convs /\ c \in Spoken
  BY LiveFinite DEF TInv, Spoken
<1>2. \A w \in Workers : work[w] # Idle => work[w].msg.kind \notin {"identify", "summary"}
  BY DEF Quiet
<1>3. \A w \in Workers : ~Closing(w) /\ ~Is(w, "summary", "start")
  BY <1>2, IdleFields DEF Closing, Summarizing, Is
<1>4. \A w \in Workers : work[w].msg # Identify(c)
  BY <1>1, <1>2, IdleFields, MessageFields
<1>5. ~(queue[Identify(c)] > 0) /\ ~(queue[Summarize] > 0)
  <2>1. queue[Identify(c)] = 0 /\ queue[Summarize] = 0
    BY <1>1, MessageFields DEF Quiet
  <2> QED
    BY <2>1
<1>6. ~Later(c)
  BY <1>3, <1>4, <1>5 DEF Later
<1> QED
  BY <1>1, <1>3, <1>6 DEF CInv, StoredShows

\* A step that keeps the row and the names of a conversation, or has the user's names.
Kept(c) ==
  /\ Len(rows'[c]) = Len(rows[c]) /\ renamed \subseteq renamed'
  /\ \/ c \in renamed'
     \/ /\ rows'[c][Len(rows[c])].names = rows[c][Len(rows[c])].names
        /\ c \in drifted => c \in drifted'
LEMMA KeptCovers ==
  ASSUME NEW c, NEW segs, Covers(segs, c), Kept(c)
  PROVE  Covers(segs, c)'
<1>1. PICK i \in DOMAIN segs : segs[i].conv = c /\ (segs[i].whole => Current(segs[i], c))
  BY DEF Covers
<1>2. ASSUME NEW seg, Current(seg, c) PROVE Current(seg, c)'
  <2>1. /\ seg.row = Len(rows[c])
        /\ c \in renamed \/ seg.names = rows[c][Len(rows[c])].names
        /\ c \in renamed \cup drifted \/ seg.people = seg.names
    BY <1>2 DEF Current, Newest
  <2>2. /\ seg.row = Len(rows'[c])
        /\ c \in renamed' \/ seg.names = rows'[c][Len(rows'[c])].names
        /\ c \in renamed' \cup drifted' \/ seg.people = seg.names
    BY <2>1 DEF Kept
  <2> QED
    BY <2>2 DEF Current, Newest
<1>3. PICK seg : seg = segs[i]
  OBVIOUS
<1>4. segs[i].whole => Current(segs[i], c)'
  BY <1>1, <1>2, <1>3
<1> QED
  BY <1>1, <1>4 DEF Covers

\* A step of no summary's task keeps what is read and stored, when a conversation it
\* changes is read later, and what was to be read later still is.
LEMMA CurrentFrame ==
  ASSUME CInv, missed => missed', UNCHANGED summary,
         \A v \in Workers : Summarizing(v)' => work'[v] = work[v],
         \A v \in Workers : Summarizing(v) => work'[v] = work[v] \/ queue'[Summarize] > 0,
         \A c \in Spoken' : Later(c)' \/ (c \in Spoken /\ Kept(c)),
         \A c \in Spoken' : Later(c) => Later(c)' \/ missed'
  PROVE  CInv'
<1> SUFFICES ASSUME ~missed' PROVE OneSummary' /\ ReadShows' /\ StoredShows'
  BY DEF CInv
<1>1. OneSummary /\ ReadShows /\ StoredShows
  BY DEF CInv
<1>2. \A v \in Workers : Summarizing(v)' => Summarizing(v)
  BY DEF Summarizing
<1>3. OneSummary'
  BY <1>1, <1>2 DEF OneSummary
<1>4. ReadShows'
  <2> SUFFICES ASSUME NEW w \in Workers, Reading(w)', NEW c \in Spoken', ~Later(c)'
               PROVE  Covers(work[w].segs, c)'
    BY DEF ReadShows
  <2>1. work'[w] = work[w] /\ Reading(w)
    BY DEF Reading, Summarizing
  <2>2. c \in Spoken /\ Kept(c) /\ ~Later(c)
    OBVIOUS
  <2>3. PICK segs : segs = work[w].segs /\ segs = work'[w].segs
    BY <2>1
  <2>4. Covers(segs, c)
    BY <1>1, <2>1, <2>2, <2>3 DEF ReadShows
  <2>5. Covers(segs, c)'
    BY <2>2, <2>4, KeptCovers
  <2> QED
    BY <2>3, <2>5
<1>5. StoredShows'
  <2> SUFFICES ASSUME NEW c \in Spoken', ~Later(c)'
               PROVE  \/ Covers(summary.segs, c)' \/ summary'.status = "failed"
                      \/ \E w \in Workers : Closing(w)'
    BY DEF StoredShows
  <2>1. c \in Spoken /\ Kept(c) /\ ~Later(c)
    OBVIOUS
  <2>2. CASE Covers(summary.segs, c)
    <3>1. PICK segs : segs = summary.segs /\ segs = summary'.segs
      OBVIOUS
    <3>2. Covers(segs, c)
      BY <2>2, <3>1
    <3>3. Covers(segs, c)'
      BY <2>1, <3>2, KeptCovers
    <3> QED
      BY <3>1, <3>3
  <2>3. ASSUME NEW w \in Workers, Closing(w) PROVE Closing(w)'
    <3>1. ~(queue'[Summarize] > 0)
      BY DEF Later
    <3>2. work'[w] = work[w]
      BY <2>3, <3>1 DEF Closing
    <3> QED
      BY <2>3, <3>2 DEF Closing, Summarizing
  <2> QED
    BY <1>1, <2>1, <2>2, <2>3 DEF StoredShows
<1> QED
  BY <1>3, <1>4, <1>5

\* What is to be read later still is, after a step of no worker that loses no message.
LEMMA NoWorkerLater ==
  ASSUME Grows, UNCHANGED work, NEW c \in Convs, Later(c),
         rerun[c] \in {"index", "post"} =>
           rerun'[c] \in {"index", "post"} \/ queue'[Identify(c)] > 0
  PROVE  Later(c)'
<1>1. queue[Identify(c)] > 0 => queue'[Identify(c)] > 0
  BY MessageFields DEF Grows
<1>2. queue[Summarize] > 0 => queue'[Summarize] > 0
  BY MessageFields DEF Grows
<1>3. ASSUME NEW w \in Workers, work[w].msg = Identify(c) \/ Is(w, "summary", "start")
      PROVE  Later(c)'
  BY <1>3 DEF Later, Is, Identify
<1> QED
  BY <1>1, <1>2, <1>3 DEF Later, Identify, Summarize

\* So it is after a step of one worker, unless it was that worker's task.
LEMMA WorkerLater ==
  ASSUME Grows, NEW w \in Workers, \A v \in Workers \ {w} : work'[v] = work[v], UNCHANGED rerun,
         NEW c \in Convs, Later(c)
  PROVE  Later(c)' \/ work[w].msg = Identify(c) \/ Is(w, "summary", "start")
<1>1. queue[Identify(c)] > 0 => queue'[Identify(c)] > 0
  BY MessageFields DEF Grows
<1>2. queue[Summarize] > 0 => queue'[Summarize] > 0
  BY MessageFields DEF Grows
<1>3. ASSUME NEW v \in Workers \ {w}, work[v].msg = Identify(c) \/ Is(v, "summary", "start")
      PROVE  Later(c)'
  BY <1>3 DEF Later, Is, Identify
<1> QED
  BY <1>1, <1>2, <1>3 DEF Later, Identify, Summarize

\* What is shown of a conversation none of whose rows changes.
LEMMA Untouched ==
  ASSUME UNCHANGED <<prev, deleted, rows>>, renamed \subseteq renamed', drifted \subseteq drifted'
  PROVE  \A c \in Spoken' : c \in Spoken /\ Kept(c)
BY DEF Spoken, Live, Kept

\* What is shown after a step is that of a conversation of the session.
LEMMA SpokenAfter == ASSUME IInv' PROVE \A c \in Spoken' : c \in Convs
<1>1. prev' \in Seq(Nat) /\ Len(prev') <= length' /\ length' \in 1 .. MaxConvs
  BY DEF IInv, Types, ChainTypes
<1>2. DOMAIN prev' = 1 .. Len(prev') /\ Len(prev') \in Nat /\ MaxConvs \in Nat
  BY <1>1, SessionBounds
<1>3. Spoken' \subseteq DOMAIN prev'
  BY DEF Spoken, Live
<1> QED
  BY <1>1, <1>2, <1>3 DEF Convs

\* A request writes the names the user gives, and no row.
LEMMA RequestCurrent ==
  ASSUME IInv, TInv, TInv', IInv', CInv, Request
  PROVE  CInv'
<1>1. RowsFit /\ MapsFit /\ QueueTypes /\ \A c \in Spoken' : c \in Convs
  BY SpokenAfter DEF TInv, IInv, Types
<1>2. UNCHANGED <<work, summary, rerun, missed>> /\ renamed \subseteq renamed'
  BY DEF Request, CreateConversation, DeleteConversation, RequestIdentify, Reindex, PatchSpeaker,
     ApplySuggestions, CommitNames, RetrySummary, Resummary, ApiDies, history
<1>3. Grows
  <2>1. UNCHANGED queue \/ \E m : Send(m)
    BY DEF Request, CreateConversation, DeleteConversation, RequestIdentify, Reindex, PatchSpeaker,
       ApplySuggestions, CommitNames, RetrySummary, Resummary, ApiDies
  <2> QED
    BY <1>1, <2>1, Sent, NotSent
<1>4. \A c \in Spoken' : Later(c) => Later(c)'
  BY <1>1, <1>2, <1>3, NoWorkerLater
<1>5. ASSUME \A c \in Spoken' : c \in Spoken /\ Kept(c) PROVE CInv'
  BY <1>2, <1>4, <1>5, CurrentFrame
<1>6. ASSUME NEW p \in 0 .. MaxConvs, CreateConversation(p) PROVE CInv'
  <2>1. UNCHANGED <<deleted, rows, drifted>>
    BY <1>6 DEF CreateConversation, nameVars, history
  <2>2. \A c \in Spoken' : c \in Spoken /\ Kept(c)
    BY <1>1, <1>2, <2>1 DEF Spoken, Live, Kept, RowsFit
  <2> QED
    BY <1>5, <2>2
<1>7. ASSUME NEW c \in Convs, DeleteConversation(c) PROVE CInv'
  <2>1. UNCHANGED <<prev, rows, drifted>> /\ deleted \subseteq deleted'
    BY <1>7 DEF DeleteConversation, nameVars, history
  <2>2. \A d \in Spoken' : d \in Spoken /\ Kept(d)
    BY <1>2, <2>1 DEF Spoken, Live, Kept
  <2> QED
    BY <1>5, <2>2
<1>8. CASE CommitNames
  <2>1. /\ req # NoReq /\ rows' = Persist(req.conv, req.row, req.copy)
        /\ UNCHANGED <<prev, deleted>>
        /\ req.conv \in renamed' /\ \A c \in drifted : c # req.conv => c \in drifted'
    BY <1>8 DEF CommitNames, DriftAfter, chainVars
  <2>2. req.conv \in Convs /\ req.copy \in Maps /\ RowTypes
    BY <1>1, <2>1 DEF MapsFit, RowsFit, RowTypes
  <2>3. /\ Rewritten
        /\ \A d \in Convs : \A q \in DOMAIN rows[d] :
             ~(d = req.conv /\ q = req.row) => rows'[d][q] = rows[d][q]
    BY <2>1, <2>2, NamesWritten
  <2>4. ASSUME NEW c \in Spoken' PROVE c \in Spoken /\ Kept(c)
    <3>1. c \in Convs /\ c \in Spoken /\ Len(rows'[c]) = Len(rows[c])
      BY <1>1, <2>1, <2>3 DEF Spoken, Live, Rewritten
    <3>2. Len(rows[c]) \in DOMAIN rows[c]
      BY <1>1, <3>1, NewestRow DEF Spoken, Newest
    <3>3. c # req.conv => rows'[c][Len(rows[c])] = rows[c][Len(rows[c])]
      BY <2>3, <3>1, <3>2
    <3> QED
      BY <1>2, <2>1, <3>1, <3>3 DEF Kept
  <2> QED
    BY <1>5, <2>4
<1>9. CASE \/ RetrySummary \/ Resummary \/ ApiDies
           \/ \E c \in Convs : \/ RequestIdentify(c) \/ Reindex(c)
                               \/ \E s \in Speakers : PatchSpeaker(c, s)
                               \/ \E S \in SUBSET Speakers : ApplySuggestions(c, S)
  <2>1. UNCHANGED <<prev, deleted, rows, drifted>>
    BY <1>9 DEF RequestIdentify, Reindex, PatchSpeaker, ApplySuggestions, RetrySummary, Resummary,
       ApiDies, chainVars, nameVars, history
  <2> QED
    BY <1>2, <1>5, <2>1, Untouched
<1> QED
  BY <1>6, <1>7, <1>8, <1>9 DEF Request

\* A diarization that has made a row queues the identification, which queues the summary.
LEMMA DiarizeCurrent ==
  ASSUME IInv, TInv, TInv', IInv', CInv, NEW c \in Convs, Diarize(c)
  PROVE  CInv'
<1>1. /\ RowsFit /\ QueueTypes /\ rerun \in [Convs -> {"no", "running", "index", "post"}]
      /\ \A d \in Spoken' : d \in Convs
  BY SpokenAfter DEF TInv, IInv, Types, ChainTypes
<1>2. /\ UNCHANGED <<work, summary, prev, deleted>> /\ renamed \subseteq renamed'
      /\ missed => missed'
  <2>1. CASE DiarizerLost(c)
    BY <2>1 DEF DiarizerLost, chainVars
  <2>2. CASE ~DiarizerLost(c)
    BY <2>2 DEF Diarize, DiarizeBegin, DiarizeFails, DiarizeSucceeds, DiarizeSendsIndex,
       SchedulePostDiarization, chainVars, history
  <2> QED
    BY <2>1, <2>2
<1>3. Grows
  <2>1. UNCHANGED queue \/ (\E m : Send(m)) \/ \E r : SendIndex(c, r)
    BY DEF Diarize, DiarizeBegin, DiarizeFails, DiarizeSucceeds, DiarizeSendsIndex,
       SchedulePostDiarization, DiarizerLost
  <2> QED
    BY <1>1, <2>1, Sent, NotSent, IndexSent
<1>4. \A d \in Convs \ {c} : rerun'[d] = rerun[d]
  BY <1>1 DEF Diarize, DiarizeBegin, DiarizeFails, DiarizeSucceeds, DiarizeSendsIndex,
     SchedulePostDiarization, DiarizerLost
<1>5. \/ missed' \/ queue'[Identify(c)] > 0
      \/ rerun[c] \in {"index", "post"} => rerun'[c] \in {"index", "post"}
  <2>1. CASE DiarizeBegin(c) \/ DiarizeFails(c)
    BY <2>1 DEF DiarizeBegin, DiarizeFails
  <2>2. CASE DiarizeSucceeds(c) \/ DiarizeSendsIndex(c)
    BY <1>1, <2>2 DEF DiarizeSucceeds, DiarizeSendsIndex
  <2>3. CASE SchedulePostDiarization(c)
    BY <1>1, <2>3, Sent, MessageFields DEF SchedulePostDiarization
  <2>4. CASE DiarizerLost(c)
    BY <2>4 DEF DiarizerLost
  <2> QED
    BY <2>1, <2>2, <2>3, <2>4 DEF Diarize
<1>6. \A d \in Spoken' : Later(d) => Later(d)' \/ missed'
  <2>1. CASE missed'
    BY <2>1
  <2>2. CASE ~missed'
    <3>1. ASSUME NEW d \in Convs
          PROVE  rerun[d] \in {"index", "post"}
                   => rerun'[d] \in {"index", "post"} \/ queue'[Identify(d)] > 0
      BY <1>4, <1>5, <2>2
    <3> QED
      BY <1>1, <1>2, <1>3, <3>1, NoWorkerLater
  <2> QED
    BY <2>1, <2>2
<1>7. \A d \in Spoken' : Later(d)' \/ (d \in Spoken /\ Kept(d))
  <2>1. CASE UNCHANGED rows /\ drifted \subseteq drifted'
    BY <1>2, <2>1, Untouched
  <2>2. CASE DiarizeSucceeds(c)
    <3> DEFINE x == [names |-> NoNames, vector |-> NoNames, indexed |-> FALSE]
    <3>1. rerun' = [rerun EXCEPT ![c] = "index"] /\ rows' = [rows EXCEPT ![c] = Append(@, x)]
      BY <2>2 DEF DiarizeSucceeds
    <3> HIDE DEF x
    <3>2. /\ rerun'[c] = "index" /\ \A d \in Convs \ {c} : rows'[d] = rows[d]
          /\ \A d \in drifted : d # c => d \in drifted'
      BY <1>1, <2>2, <3>1 DEF RowsFit, DiarizeSucceeds
    <3>3. Later(c)'
      BY <3>2 DEF Later
    <3>4. ASSUME NEW d \in Spoken', d # c PROVE d \in Spoken /\ Kept(d)
      BY <1>1, <1>2, <3>2, <3>4 DEF Spoken, Live, Kept
    <3> QED
      BY <3>3, <3>4
  <2> QED
    BY <2>1, <2>2 DEF Diarize, DiarizeBegin, DiarizeFails, DiarizeSendsIndex,
       SchedulePostDiarization, DiarizerLost, nameVars, history
<1> QED
  BY <1>2, <1>6, <1>7, CurrentFrame DEF Summarizing

\* A message that is taken, or comes back, is at work or in the queue.
LEMMA MessageCurrent ==
  ASSUME IInv, TInv, IInv', CInv, NEW w \in Workers,
         (\E m \in Messages : Take(w, m)) \/ WorkerDies(w) \/ ChildLost(w) \/ Redeliver(w)
  PROVE  CInv'
<1>1. QueueTypes /\ WorkTypes /\ \A c \in Spoken' : c \in Convs
  BY SpokenAfter DEF IInv, Types
<1>2. UNCHANGED <<summary, prev, deleted, rows, rerun, renamed, drifted>> /\ (missed => missed')
  <2>1. CASE ChildLost(w)
    BY <2>1 DEF ChildLost, Lose, chainVars, nameVars
  <2>2. CASE ~ChildLost(w)
    <3>1. UNCHANGED <<summary, prev, deleted, rows, rerun, renamed, drifted, missed>>
      BY <2>2 DEF Take, WorkerDies, Redeliver, chainVars, nameVars, history
    <3> QED
      BY <3>1
  <2> QED
    BY <2>1, <2>2
<1>3. \A c \in Spoken' : c \in Spoken /\ Kept(c)
  BY <1>2, Untouched
<1>4. ASSUME NEW m \in Messages, Take(w, m) PROVE CInv'
  <2>1. /\ work[w] = Idle /\ queue' = [queue EXCEPT ![m] = @ - 1]
        /\ work' = [work EXCEPT ![w] = [Idle EXCEPT !.msg = m, !.at = "start"]]
    BY <1>4 DEF Take
  <2> DEFINE t == [Idle EXCEPT !.msg = m, !.at = "start"]
  <2>2. t.msg = m /\ t.at = "start"
    BY DEF Idle
  <2>3. work' = [work EXCEPT ![w] = t]
    BY <2>1
  <2> HIDE DEF t
  <2>4. work'[w] = t /\ \A v \in Workers \ {w} : work'[v] = work[v]
    BY <1>1, <2>3 DEF WorkTypes
  <2>5. \A q \in Messages \ {m} : queue'[q] = queue[q]
    BY <1>1, <2>1 DEF QueueTypes
  <2>6. ASSUME NEW c \in Convs, Later(c) PROVE Later(c)'
    <3>1. CASE m = Identify(c)
      BY <2>2, <2>4, <3>1 DEF Later, Identify
    <3>2. CASE m = Summarize
      BY <2>2, <2>4, <3>2, MessageFields DEF Later, Is
    <3>3. CASE m # Identify(c) /\ m # Summarize
      <4>1. queue'[Identify(c)] = queue[Identify(c)] /\ queue'[Summarize] = queue[Summarize]
        BY <2>5, <3>3, MessageFields
      <4>2. work[w].msg # Identify(c) /\ ~Is(w, "summary", "start")
        BY <2>1, IdleFields, MessageFields DEF Is
      <4>3. \A v \in Workers : work[v].msg = Identify(c) \/ Is(v, "summary", "start") => v # w
        BY <4>2
      <4> QED
        BY <1>2, <2>4, <2>6, <4>1, <4>3 DEF Later, Is, Identify, Summarize
    <3> QED
      BY <3>1, <3>2, <3>3
  <2>7. \A v \in Workers : Summarizing(v)' => work'[v] = work[v]
    BY <2>2, <2>4 DEF Summarizing
  <2>8. \A v \in Workers : Summarizing(v) => work'[v] = work[v]
    BY <2>1, <2>4, IdleFields DEF Summarizing
  <2> QED
    BY <1>1, <1>2, <1>3, <2>6, <2>7, <2>8, CurrentFrame
<1>5. CASE WorkerDies(w) \/ Redeliver(w)
  <2>1. PICK m \in Messages : m = work[w].msg
    BY <1>1 DEF WorkTypes
  <2>2. Send(m) /\ (Finish(w) \/ UNCHANGED work)
    BY <1>5, <2>1 DEF WorkerDies, Redeliver, PutBack
  <2>3. Grows /\ queue'[m] > 0
    BY <1>1, <2>2, Sent
  <2>4. (\A v \in Workers \ {w} : work'[v] = work[v]) /\ (work'[w] = Idle \/ work'[w] = work[w])
    BY <1>1, <2>2, FinishEnds DEF Ends
  <2>5. ASSUME NEW c \in Convs, Later(c) PROVE Later(c)'
    <3>1. Later(c)' \/ m = Identify(c) \/ m = Summarize
      <4>1. Is(w, "summary", "start") => m = Summarize
        BY <2>1, MessageFields DEF Is
      <4> QED
        BY <1>2, <2>1, <2>3, <2>4, <2>5, <4>1, WorkerLater
    <3> QED
      BY <2>3, <3>1 DEF Later, Identify, Summarize
  <2>6. \A v \in Workers : Summarizing(v)' => work'[v] = work[v]
    BY <2>4, IdleFields DEF Summarizing
  <2>7. Summarizing(w) => queue'[Summarize] > 0
    BY <2>1, <2>3, MessageFields DEF Summarizing
  <2> QED
    BY <1>1, <1>2, <1>3, <2>4, <2>5, <2>6, <2>7, CurrentFrame
<1>6. CASE ChildLost(w)
  <2>1. Finish(w) /\ UNCHANGED queue
    BY <1>6 DEF ChildLost
  <2>2. work[w].msg.kind # "index" => missed'
    BY <1>6 DEF ChildLost, Lose
  <2>3. CASE missed'
    BY <2>3 DEF CInv
  <2>4. CASE work[w].msg.kind = "index"
    <3>1. work'[w] = Idle /\ \A v \in Workers \ {w} : work'[v] = work[v]
      BY <1>1, <2>1, FinishEnds DEF Ends
    <3>2. Grows
      BY <1>1, <2>1, NotSent
    <3>3. ASSUME NEW c \in Convs, Later(c) PROVE Later(c)'
      BY <1>2, <2>4, <3>1, <3>2, <3>3, WorkerLater, MessageFields DEF Is
    <3>4. \A v \in Workers : /\ Summarizing(v)' => work'[v] = work[v]
                             /\ Summarizing(v) => work'[v] = work[v]
      BY <2>4, <3>1, IdleFields DEF Summarizing
    <3> QED
      BY <1>1, <1>2, <1>3, <3>3, <3>4, CurrentFrame
  <2> QED
    BY <2>2, <2>3, <2>4
<1> QED
  BY <1>4, <1>5, <1>6

\* A task of identification goes on until the summary is queued, or missed.
LEMMA IdentifyCurrent ==
  ASSUME IInv, TInv, IInv', CInv, NEW w \in Workers,
         \/ IdentifyBegin(w) \/ IdentifySkips(w) \/ (\E a \in Answers : IdentifyAnswered(w, a))
         \/ IdentifyCommits(w) \/ IdentifyRaises(w) \/ IdentifySchedules(w)
         \/ IdentifyHandler(w) \/ IdentifyLast(w)
  PROVE  CInv'
<1>1. QueueTypes /\ WorkTypes /\ TasksFit /\ RowsFit /\ \A c \in Spoken' : c \in Convs
  BY SpokenAfter DEF IInv, Types, TInv
<1>2. /\ UNCHANGED <<prev, deleted, rerun, renamed, summary>>
      /\ UNCHANGED rows \/ IdentifyCommits(w)
      /\ UNCHANGED drifted \/ IdentifyCommits(w)
      /\ missed => missed'
  <2>1. ~IndexWrites(w) \/ IdentifyCommits(w)
    BY DEF IdentifyBegin, IdentifySkips, IdentifyAnswered, IdentifyRaises, IdentifySchedules,
       IdentifyHandler, IdentifyLast, IndexWrites, Is
  <2>2. UNCHANGED summary
    BY DEF IdentifyBegin, IdentifySkips, IdentifyAnswered, IdentifyCommits, IdentifyRaises,
       IdentifySchedules, IdentifyHandler, IdentifyLast
  <2>3. CASE IdentifyCommits(w) \/ \E a \in Answers : IdentifyAnswered(w, a)
    <3>1. UNCHANGED missed
      BY <2>3 DEF IdentifyAnswered, IdentifyCommits
    <3> QED
      BY <2>1, <2>2, <2>3, <3>1, TaskLeaves DEF Task
  <2>4. CASE \/ IdentifyBegin(w) \/ IdentifySkips(w) \/ IdentifyRaises(w)
             \/ IdentifySchedules(w) \/ IdentifyHandler(w) \/ IdentifyLast(w)
    <3>1. missed => missed'
      BY <2>4 DEF IdentifyBegin, IdentifySkips, IdentifyRaises, IdentifySchedules,
         IdentifyHandler, Lose, IdentifyLast, history
    <3> QED
      BY <2>1, <2>2, <2>4, <3>1, TaskLeaves DEF Task
  <2> QED
    BY <2>3, <2>4
<1>3. work[w].msg.kind = "identify"
  <2>1. CASE IdentifyCommits(w)
    BY <2>1, Kinds DEF IdentifyCommits, PlacesOf, Before, Idle
  <2> QED
    BY <2>1 DEF IdentifyBegin, IdentifySkips, IdentifyAnswered, IdentifyRaises,
       IdentifySchedules, IdentifyHandler, IdentifyLast, Is
<1>4. Grows
  <2>1. UNCHANGED queue \/ Send(Summarize) \/ \E c, r : SendIndex(c, r)
    BY DEF IdentifyBegin, IdentifySkips, IdentifyAnswered, IdentifyCommits, IdentifyRaises,
       IdentifySchedules, IdentifyHandler, IdentifyLast
  <2> QED
    BY <1>1, <2>1, Sent, NotSent, IndexSent
<1>5. /\ \A v \in Workers \ {w} : work'[v] = work[v]
      /\ \/ work'[w].msg = work[w].msg
         \/ work'[w] = Idle /\ (queue'[Summarize] > 0 \/ missed')
  <2>1. ASSUME NEW a \in Answers, IdentifyAnswered(w, a)
        PROVE  (\A v \in Workers \ {w} : work'[v] = work[v]) /\ work'[w].msg = work[w].msg
    <3> DEFINE l == IF a = NoNames THEN "skip" ELSE
                    IF \E s \in Speakers : a[s] = "auto" THEN "persist" ELSE "suggest"
               t == [work[w] EXCEPT !.at = l, !.base = labels[Conv(w)],
                                    !.copy = Merge(labels[Conv(w)], a), !.row = Newest(Conv(w))]
    <3>1. work' = [work EXCEPT ![w] = t]
      BY <2>1 DEF IdentifyAnswered
    <3> HIDE DEF l
    <3>2. t.msg = work[w].msg
      OBVIOUS
    <3> HIDE DEF t
    <3> QED
      BY <1>1, <3>1, <3>2 DEF WorkTypes
  <2>2. ASSUME NEW l, Goto(w, l) \/ Continue(w, l)
        PROVE  (\A v \in Workers \ {w} : work'[v] = work[v]) /\ work'[w].msg = work[w].msg
    BY <1>1, <2>2, GoneTo, Continued
  <2>3. ASSUME Finish(w), Send(Summarize) \/ missed'
        PROVE  /\ \A v \in Workers \ {w} : work'[v] = work[v]
               /\ work'[w] = Idle /\ (queue'[Summarize] > 0 \/ missed')
    BY <1>1, <2>3, FinishEnds, Sent, MessageFields DEF Ends
  <2>4. CASE \/ IdentifyBegin(w) \/ IdentifySkips(w) \/ IdentifyCommits(w) \/ IdentifyRaises(w)
             \/ IdentifySchedules(w) \/ IdentifyHandler(w) \/ IdentifyLast(w)
    <3>1. \/ \E l : Goto(w, l) \/ Continue(w, l)
          \/ Finish(w) /\ (Send(Summarize) \/ missed')
      BY <1>3, <2>4 DEF IdentifyBegin, IdentifySkips, IdentifyCommits, IdentifyRaises,
         IdentifySchedules, IdentifyHandler, Lose, IdentifyLast
    <3> QED
      BY <2>2, <2>3, <3>1
  <2> QED
    BY <2>1, <2>4
<1>6. ASSUME NEW c \in Convs, Later(c) PROVE Later(c)' \/ missed'
  <2>1. ~Is(w, "summary", "start")
    BY <1>3 DEF Is
  <2>2. Later(c)' \/ work[w].msg = Identify(c)
    BY <1>2, <1>4, <1>5, <1>6, <2>1, WorkerLater
  <2> QED
    BY <1>5, <2>2 DEF Later, Identify, Summarize
<1>7. \A v \in Workers : Summarizing(v)' => work'[v] = work[v]
  BY <1>3, <1>5, IdleFields DEF Summarizing
<1>8. \A v \in Workers : Summarizing(v) => work'[v] = work[v]
  BY <1>3, <1>5 DEF Summarizing
<1>9. \A c \in Spoken' : Later(c)' \/ (c \in Spoken /\ Kept(c))
  <2>1. CASE UNCHANGED <<rows, drifted>>
    BY <1>2, <2>1, Untouched
  <2>2. CASE IdentifyCommits(w)
    <3>1. PICK d \in Convs : work[w].msg = Identify(d) /\ Conv(w) = d
      BY <1>3, Kinds, MessageFields DEF Conv
    <3>2. Later(d)'
      <4>1. Continue(w, "post")
        BY <2>2 DEF IdentifyCommits
      <4>2. work'[w].msg = Identify(d)
        BY <1>1, <3>1, <4>1, Continued
      <4> QED
        BY <4>2 DEF Later, Identify
    <3>3. rows' = rows \/ rows' = Persist(d, work[w].row, work[w].copy)
      BY <2>2, <3>1 DEF IdentifyCommits
    <3>4. \A c \in Convs \ {d} : rows'[c] = rows[c] /\ (c \in drifted => c \in drifted')
      <4>1. \A c \in Convs \ {d} : rows'[c] = rows[c]
        BY <1>1, <3>3 DEF Persist, RowsFit
      <4>2. drifted \ {d} \subseteq drifted'
        BY <2>2, <3>1 DEF IdentifyCommits, DriftAfter
      <4> QED
        BY <4>1, <4>2
    <3>5. ASSUME NEW c \in Spoken', c # d PROVE c \in Spoken /\ Kept(c)
      BY <1>1, <1>2, <3>4, <3>5 DEF Spoken, Live, Kept
    <3> QED
      BY <3>2, <3>5
  <2> QED
    BY <1>2, <2>1, <2>2
<1> QED
  BY <1>1, <1>2, <1>6, <1>7, <1>8, <1>9, CurrentFrame

\* The index is no summary: it writes no names.
LEMMA IndexCurrent ==
  ASSUME IInv, TInv, IInv', CInv, NEW w \in Workers,
         IndexReads(w) \/ IndexWrites(w) \/ IndexRaises(w)
  PROVE  CInv'
<1>1. /\ QueueTypes /\ WorkTypes /\ TasksFit /\ RowsFit /\ MessagesFit
      /\ \A c \in Spoken' : c \in Convs
  BY SpokenAfter DEF IInv, Types, TInv
<1>2. /\ UNCHANGED <<prev, deleted, rerun, renamed, drifted, summary, missed, queue>>
      /\ UNCHANGED rows \/ IndexWrites(w)
  BY DEF IndexReads, IndexWrites, IndexRaises, chainVars, nameVars, history
<1>3. work[w].msg.kind = "index"
  BY DEF IndexReads, IndexWrites, IndexRaises, Is
<1>4. Grows
  BY <1>1, <1>2, NotSent
<1>5. /\ \A v \in Workers \ {w} : work'[v] = work[v]
      /\ work'[w].msg = work[w].msg \/ work'[w] = Idle
  <2>1. CASE IndexReads(w)
    <3> DEFINE t == [work[w] EXCEPT !.at = "embed", !.copy = rows[Conv(w)][work[w].msg.row].names]
    <3>1. work' = [work EXCEPT ![w] = t]
      BY <2>1 DEF IndexReads
    <3>2. t.msg = work[w].msg
      OBVIOUS
    <3> HIDE DEF t
    <3> QED
      BY <1>1, <3>1, <3>2 DEF WorkTypes
  <2>2. CASE IndexWrites(w) \/ IndexRaises(w)
    BY <1>1, <2>2, FinishEnds DEF Ends, IndexWrites, IndexRaises
  <2> QED
    BY <2>1, <2>2
<1>6. ASSUME NEW c \in Convs, Later(c) PROVE Later(c)'
  BY <1>2, <1>3, <1>4, <1>5, <1>6, WorkerLater, MessageFields DEF Is
<1>7. \A v \in Workers : /\ Summarizing(v)' => work'[v] = work[v]
                         /\ Summarizing(v) => work'[v] = work[v]
  BY <1>3, <1>5, IdleFields DEF Summarizing
<1>8. \A c \in Spoken' : c \in Spoken /\ Kept(c)
  <2>1. CASE UNCHANGED rows
    BY <1>2, <2>1, Untouched
  <2>2. CASE IndexWrites(w)
    <3>1. /\ Is(w, "index", "embed") /\ Embedded(Conv(w), work[w].msg.row, work[w].copy)
      BY <2>2 DEF IndexWrites, Embedded
    <3>2. Conv(w) \in Convs /\ work[w].msg.row \in DOMAIN rows[Conv(w)]
      BY <1>1, <1>3, Kinds, MessageFields DEF Conv, MessagesFit, Active, Placed
    <3>3. work[w].copy \in Shown
      BY <1>1, <3>1 DEF TasksFit, TaskFits, Is
    <3>4. /\ Rewritten
          /\ \A d \in Convs : \A q \in DOMAIN rows[d] : rows'[d][q].names = rows[d][q].names
      BY <1>1, <3>1, <3>2, <3>3, VectorWritten DEF RowsFit, RowTypes
    <3>5. ASSUME NEW c \in Spoken' PROVE c \in Spoken /\ Kept(c)
      <4>1. c \in Convs /\ c \in Spoken /\ Len(rows'[c]) = Len(rows[c])
        BY <1>1, <1>2, <3>4 DEF Spoken, Live, Rewritten
      <4>2. Len(rows[c]) \in DOMAIN rows[c]
        BY <1>1, <4>1, NewestRow DEF Spoken, Newest
      <4> QED
        BY <1>2, <3>4, <4>1, <4>2 DEF Kept
    <3> QED
      BY <3>5
  <2> QED
    BY <1>2, <2>1, <2>2
<1> QED
  BY <1>1, <1>2, <1>6, <1>7, <1>8, CurrentFrame

\* A summary that begins alone reads every conversation that is shown.
LEMMA ReadsCurrent ==
  ASSUME IInv, TInv, IInv', NamesShown, NEW w \in Workers, SummaryReads(w)
  PROVE  CInv'
<1>1. /\ WorkTypes /\ Links /\ RowsFit /\ Live \subseteq Convs
      /\ labels \in [Convs -> Maps]
  BY LiveFinite DEF IInv, Types, TInv, MapsFit
<1>2. PICK order \in IF Live = {} THEN {<<>>} ELSE Orders(Live), fit \in Fits :
        work' = [work EXCEPT ![w].at = "claim", ![w].segs = Bundle(order, fit),
                             ![w].seen = summary.status # "absent"]
  BY DEF SummaryReads
<1>3. /\ UNCHANGED <<prev, deleted, rows, renamed, drifted>>
      /\ missed' = \E v \in Workers \ {w} : Summarizing(v)
  BY DEF SummaryReads, chainVars, nameVars
<1> DEFINE t == [work[w] EXCEPT !.at = "claim", !.segs = Bundle(order, fit),
                                !.seen = summary.status # "absent"]
<1>4. t.msg = work[w].msg /\ t.at = "claim" /\ t.segs = Bundle(order, fit)
  <2>1. work[w] = [f \in Fields |-> work[w][f]]
    BY <1>1 DEF WorkTypes
  <2> QED
    BY <2>1 DEF Fields
<1>5. work' = [work EXCEPT ![w] = t]
  BY <1>2
<1> HIDE DEF t
<1>6. work'[w] = t /\ \A v \in Workers \ {w} : work'[v] = work[v]
  BY <1>1, <1>5 DEF WorkTypes
<1> SUFFICES ASSUME ~missed' PROVE OneSummary' /\ ReadShows' /\ StoredShows'
  BY DEF CInv
<1>7. \A v \in Workers : Summarizing(v)' => v = w
  BY <1>3, <1>6 DEF Summarizing
<1>8. Closing(w)'
  <2>1. work[w].msg.kind = "summary"
    BY DEF SummaryReads, Is
  <2> QED
    BY <1>4, <1>6, <2>1 DEF Closing, Summarizing
<1>9. ASSUME NEW c \in Spoken' PROVE Covers(work[w].segs, c)'
  <2>1. c \in Live /\ rows[c] # <<>> /\ Live # {}
    BY <1>3 DEF Spoken, Live
  <2>2. order \in Seq(Live) /\ {order[i] : i \in DOMAIN order} = Live
    <3>1. order \in Orders(Live)
      BY <1>2, <2>1
    <3>2. Live \in SUBSET (Nat \ {0}) /\ IsFiniteSet(Live) /\ Continues(Live)
      BY <1>1, LiveFinite
    <3> QED
      BY <3>1, <3>2, OrdersInOrder
  <2>3. PICK i \in DOMAIN order : order[i] = c
    BY <2>1, <2>2
  <2>4. order \in Seq(Convs)
    BY <1>1, <2>2
  <2>5. PICK j \in DOMAIN Bundle(order, fit), whole \in BOOLEAN :
          Bundle(order, fit)[j] = Segment(c, whole)
    BY <1>1, <2>1, <2>3, <2>4, BundleFits
  <2>6. PICK segs : segs = Bundle(order, fit) /\ segs = work'[w].segs
    BY <1>4, <1>6
  <2>7. c \in drifted \/ rows[c][Newest(c)].names = Names(labels[c])
    BY <1>1, <2>1 DEF NamesShown
  <2>8. /\ j \in DOMAIN segs /\ segs[j].conv = c /\ segs[j].row = Newest(c)
        /\ segs[j].names = rows[c][Newest(c)].names
        /\ segs[j].people = Names(labels[c])
    BY <2>5, <2>6 DEF Segment
  <2>9. Current(segs[j], c)
    BY <2>7, <2>8 DEF Current
  <2>10. Covers(segs, c)
    BY <2>8, <2>9 DEF Covers
  <2>11. Kept(c)
    BY <1>3 DEF Kept
  <2>12. Covers(segs, c)'
    BY <2>10, <2>11, KeptCovers
  <2> QED
    BY <2>6, <2>12
<1>10. OneSummary'
  BY <1>7 DEF OneSummary
<1>11. ReadShows'
  BY <1>7, <1>9 DEF ReadShows, Reading
<1> QED
  BY <1>8, <1>10, <1>11 DEF StoredShows

\* What the one summary has read is what it stores; and it fails, or is missed, otherwise.
LEMMA SummaryKeepsCurrent ==
  ASSUME IInv, TInv, IInv', CInv, NEW w \in Workers,
         \/ SummaryClaims(w) \/ SummaryAnswered(w) \/ SummaryStored(w) \/ SummaryRaises(w)
         \/ SummaryHandler(w)
  PROVE  CInv'
<1>1. WorkTypes /\ SummaryFits
  BY DEF IInv, Types, TInv
<1>2. UNCHANGED <<prev, deleted, rows, rerun, queue, renamed, drifted>> /\ (missed => missed')
  BY DEF SummaryClaims, SummaryAnswered, SummaryStored, SummaryRaises, SummaryHandler, Lose,
     chainVars, nameVars, history
<1>3. Summarizing(w)
  BY DEF SummaryClaims, SummaryAnswered, SummaryStored, SummaryRaises, SummaryHandler, Is,
     Summarizing
<1>4. \A v \in Workers \ {w} : work'[v] = work[v]
  <2>1. (\E l : Goto(w, l) \/ Continue(w, l)) \/ Finish(w)
    BY DEF SummaryClaims, SummaryAnswered, SummaryStored, SummaryRaises, SummaryHandler
  <2> QED
    BY <1>1, <2>1, GoneTo, Continued, FinishEnds DEF Ends
<1> SUFFICES ASSUME ~missed' PROVE OneSummary' /\ ReadShows' /\ StoredShows'
  BY DEF CInv
<1>5. OneSummary /\ ReadShows /\ StoredShows
  BY <1>2 DEF CInv
<1>6. \A v \in Workers \ {w} : ~Summarizing(v) /\ ~Summarizing(v)'
  <2>1. \A v \in Workers \ {w} : ~Summarizing(v)
    BY <1>3, <1>5 DEF OneSummary
  <2> QED
    BY <1>4, <2>1 DEF Summarizing
<1>7. OneSummary'
  BY <1>6 DEF OneSummary
<1>8. \A c \in Spoken' : c \in Spoken /\ Kept(c)
  BY <1>2, Untouched
<1>9. ASSUME NEW c, Later(c) PROVE Later(c)'
  <2>1. ASSUME NEW v \in Workers, work[v].msg = Identify(c) \/ Is(v, "summary", "start")
        PROVE  work'[v] = work[v]
    <3>1. v # w
      BY <1>3, <2>1, MessageFields DEF Summarizing, Is, Identify, Msg
    <3> QED
      BY <1>4, <3>1
  <2> QED
    BY <1>2, <1>9, <2>1 DEF Later, Is, Identify, Summarize
<1>10. ASSUME NEW c \in Spoken', ~Later(c)', NEW segs, Covers(segs, c) PROVE Covers(segs, c)'
  BY <1>8, <1>10, KeptCovers
<1>11. ReadShows'
  <2> SUFFICES ASSUME Reading(w)', NEW c \in Spoken', ~Later(c)' PROVE Covers(work[w].segs, c)'
    BY <1>6 DEF ReadShows, Reading
  <2>1. SummaryClaims(w) /\ Goto(w, "llm")
    <3>1. CASE \/ SummaryAnswered(w) \/ SummaryRaises(w)
               \/ SummaryClaims(w) /\ Continue(w, "except")
      <4>1. \E l \in {"store", "except"} : Continue(w, l)
        BY <3>1 DEF SummaryAnswered, SummaryRaises
      <4> QED
        BY <1>1, <4>1, Continued DEF Reading
    <3>2. CASE SummaryStored(w) \/ SummaryHandler(w)
      <4>1. work'[w] = Idle
        BY <1>1, <3>2, FinishEnds DEF SummaryStored, SummaryHandler, Ends
      <4> QED
        BY <4>1, IdleFields DEF Reading
    <3> QED
      BY <3>1, <3>2 DEF SummaryClaims
  <2>2. work'[w].segs = work[w].segs
    BY <1>1, <2>1, GoneTo
  <2>3. PICK segs : segs = work[w].segs /\ segs = work'[w].segs
    BY <2>2
  <2>4. Reading(w)
    BY <1>3, <2>1 DEF SummaryClaims, Is, Reading
  <2>5. Covers(segs, c)
    BY <1>5, <1>8, <1>9, <2>3, <2>4 DEF ReadShows
  <2>6. Covers(segs, c)'
    BY <1>10, <2>5
  <2> QED
    BY <2>3, <2>6
<1>12. StoredShows'
  <2> SUFFICES ASSUME NEW c \in Spoken', ~Later(c)'
               PROVE  \/ Covers(summary.segs, c)' \/ summary'.status = "failed"
                      \/ \E v \in Workers : Closing(v)'
    BY DEF StoredShows
  <2>1. c \in Spoken /\ ~Later(c)
    BY <1>8, <1>9
  <2>2. CASE SummaryClaims(w) \/ SummaryRaises(w)
    <3>1. PICK l \in {"llm", "except"} : Goto(w, l) \/ Continue(w, l)
      BY <2>2 DEF SummaryClaims, SummaryRaises
    <3>2. work'[w].msg = work[w].msg /\ work'[w].at = l
      BY <1>1, <3>1, GoneTo, Continued
    <3>3. Closing(w)'
      BY <1>3, <3>2 DEF Closing, Summarizing
    <3> QED
      BY <3>3
  <2>3. CASE SummaryAnswered(w)
    <3>1. summary' = [status |-> "success", segs |-> work[w].segs] /\ work[w].at = "llm"
      BY <2>3 DEF SummaryAnswered, Is
    <3>2. PICK segs : segs = work[w].segs /\ segs = summary'.segs
      BY <3>1
    <3>3. Covers(segs, c)
      BY <1>3, <1>5, <2>1, <3>1, <3>2 DEF ReadShows, Reading
    <3>4. Covers(segs, c)'
      BY <1>10, <3>3
    <3> QED
      BY <3>2, <3>4
  <2>4. CASE SummaryStored(w)
    <3>1. UNCHANGED summary /\ work[w].at = "store"
      BY <2>4 DEF SummaryStored, Is
    <3>2. \A v \in Workers : ~Closing(v)
      BY <1>6, <3>1 DEF Closing
    <3>3. CASE Covers(summary.segs, c)
      <4>1. PICK segs : segs = summary.segs /\ segs = summary'.segs
        BY <3>1
      <4>2. Covers(segs, c)
        BY <3>3, <4>1
      <4>3. Covers(segs, c)'
        BY <1>10, <4>2
      <4> QED
        BY <4>1, <4>3
    <3> QED
      BY <1>5, <2>1, <3>1, <3>2, <3>3 DEF StoredShows
  <2>5. CASE SummaryHandler(w)
    <3>1. summary' = [summary EXCEPT !.status = "failed"]
      BY <2>5, MessageFields DEF SummaryHandler, Lose
    <3> QED
      BY <1>1, <3>1 DEF SummaryFits
  <2> QED
    BY <2>2, <2>3, <2>4, <2>5
<1> QED
  BY <1>7, <1>11, <1>12

\* Every step, and a step that changes nothing, keeps what is read and stored.
LEMMA StepCurrent ==
  ASSUME IInv, TInv, IInv', TInv', NamesShown, CInv, [Next]_vars
  PROVE  CInv'
<1>1. CASE Request
  BY <1>1, RequestCurrent
<1>2. ASSUME NEW c \in Convs, Diarize(c) PROVE CInv'
  BY <1>2, DiarizeCurrent
<1>3. ASSUME NEW w \in Workers, Task(w) PROVE CInv'
  BY <1>3, MessageCurrent, IdentifyCurrent, ReadsCurrent, SummaryKeepsCurrent, IndexCurrent DEF Task
<1>4. CASE UNCHANGED vars
  <2>1. UNCHANGED <<prev, deleted, rows, rerun, queue, work, summary, renamed, drifted, missed>>
    BY <1>4 DEF vars, chainVars, nameVars, history
  <2>2. Grows /\ \A c \in Spoken' : c \in Convs
    BY <2>1, NotSent, SpokenAfter DEF IInv, Types
  <2>3. \A c \in Spoken' : Later(c) => Later(c)'
    BY <2>1, <2>2, NoWorkerLater
  <2> QED
    BY <2>1, <2>3, Untouched, CurrentFrame
<1> QED
  BY <1>1, <1>2, <1>3, <1>4 DEF Next

\* Once nothing is left to do, the summary, unless it says it failed, lists every segment;
\* and what was not cut off for its length was made from the newest transcript, under the
\* names identification has given, which are those of the participants. Unless a task or
\* its message was lost, two summaries overlapped, or the user gave other names: for any
\* number of workers, conversations, reruns, crashes and deliveries of a message, and
\* however much of the chain fits.
THEOREM SummaryIsCurrent == Spec => []SummaryCurrent
<1>1. Init => CInv
  <2> SUFFICES ASSUME Init PROVE CInv
    OBVIOUS
  <2>1. Spoken = {} /\ \A w \in Workers : ~Summarizing(w)
    BY IdleFields DEF Init, Spoken, Live, Summarizing
  <2> QED
    BY <2>1 DEF CInv, OneSummary, ReadShows, StoredShows, Reading
<1>2. IInv /\ TInv /\ IInv' /\ TInv' /\ NamesShown /\ CInv /\ [Next]_vars => CInv'
  BY StepCurrent
<1>3. IInv /\ TInv /\ CInv => SummaryCurrent
  BY CurrentImplied
<1> QED
  BY <1>1, <1>2, <1>3, Shapes, NamesSafe, PTL DEF Spec

-----------------------------------------------------------------------------
\* Once nothing is left to do, the vector of a transcript is that of its text

\* A task will read the text of the row, or is excepted; otherwise nobody is writing names,
\* and those at work on the vector, or the vector itself, have the names of the text.
Will(c, r) == \/ queue[Index(c, r)] > 0
              \/ \E w \in Workers : work[w].msg = Index(c, r) /\ work[w].at = "start"
Out(c, r) == Will(c, r) \/ <<c, r>> \in stale
Due(c, r) == rerun[c] = "index" /\ r = Newest(c)
Fresh(c, r) == rows[c][r].indexed /\ rows[c][r].vector = rows[c][r].names
Settled(c, r) ==
  /\ ~Writing(c, r)
  /\ r \in DOMAIN rows[c] =>
       /\ \A w \in Indexing(c, r) : work[w].copy = rows[c][r].names
       /\ Indexing(c, r) = {} => Due(c, r) \/ Fresh(c, r)
InStep(c, r) == Out(c, r) \/ Settled(c, r)
XInv == \A c \in Convs, r \in 1 .. MaxRows : InStep(c, r)

\* When nothing waits or is at work, that is what the property says.
LEMMA FitsImplied == IInv /\ TInv /\ XInv => IndexFits
<1> SUFFICES ASSUME IInv, TInv, XInv, Quiet("index"), NEW c \in Convs, rerun[c] # "index",
                    NEW r \in DOMAIN rows[c]
             PROVE  \/ <<c, r>> \in stale
                    \/ rows[c][r].indexed /\ rows[c][r].vector = rows[c][r].names
  BY DEF IndexFits
<1>1. r \in 1 .. MaxRows
  BY SessionBounds DEF TInv, RowsFit
<1>2. Index(c, r) \in Messages /\ Index(c, r).kind = "index"
  BY <1>1, IndexFields DEF Messages
<1>3. \A w \in Workers : work[w].msg # Index(c, r)
  BY <1>2, IdleFields, MessageFields DEF Quiet
<1>4. ~Will(c, r) /\ Indexing(c, r) = {}
  BY <1>2, <1>3 DEF Will, Indexing, Quiet
<1>5. InStep(c, r)
  BY <1>1 DEF XInv
<1> QED
  BY <1>4, <1>5 DEF InStep, Out, Settled, Due, Fresh

\* What a row's agreement depends on.
LEMMA InStepFrame ==
  ASSUME NEW c \in Convs, NEW r \in 1 .. MaxRows, InStep(c, r),
         queue[Index(c, r)] > 0 => queue'[Index(c, r)] > 0,
         <<c, r>> \in stale => <<c, r>> \in stale',
         \A v \in Workers : \/ work'[v] = work[v]
                            \/ work[v].msg # Index(c, r) /\ work'[v].msg # Index(c, r),
         Writing(c, r)' => Writing(c, r),
         r \in DOMAIN rows'[c] => r \in DOMAIN rows[c] /\ rows'[c][r] = rows[c][r],
         Due(c, r) => Due(c, r)'
  PROVE  InStep(c, r)'
<1>1. CASE Out(c, r)
  BY <1>1 DEF InStep, Out, Will
<1>2. CASE Settled(c, r)
  <2>1. \A v \in Workers : /\ v \in Indexing(c, r)' <=> v \in Indexing(c, r)
                           /\ v \in Indexing(c, r) => work'[v] = work[v]
    BY DEF Indexing
  <2>2. Indexing(c, r)' = Indexing(c, r) /\ \A v \in Indexing(c, r) : work'[v] = work[v]
    BY <2>1 DEF Indexing
  <2>3. CASE r \in DOMAIN rows'[c]
    <3>1. r \in DOMAIN rows[c] /\ rows'[c][r] = rows[c][r]
      BY <2>3
    <3>2. \A w \in Indexing(c, r)' : work'[w].copy = rows'[c][r].names
      BY <1>2, <2>2, <3>1 DEF Settled
    <3>3. Indexing(c, r)' = {} => Due(c, r)' \/ Fresh(c, r)'
      BY <1>2, <2>2, <3>1 DEF Settled, Fresh
    <3> QED
      BY <1>2, <3>2, <3>3 DEF InStep, Settled
  <2>4. CASE r \notin DOMAIN rows'[c]
    BY <1>2, <2>4 DEF InStep, Settled
  <2> QED
    BY <2>3, <2>4
<1> QED
  BY <1>1, <1>2 DEF InStep

\* A message sent to the index is there, unless the row is excepted; the others stay.
LEMMA IndexSentInStep ==
  ASSUME QueueTypes, NEW c \in Convs, NEW r \in 1 .. MaxRows, SendIndex(c, r)
  PROVE  Out(c, r)' /\ Grows /\ stale \subseteq stale'
<1>1. Index(c, r) \in Messages
  BY DEF Messages
<1> QED
  BY <1>1, Sent, NotSent DEF SendIndex, Out, Will

\* A request queues the index before it writes the names.
LEMMA RequestInStep ==
  ASSUME IInv, TInv, XInv, Request
  PROVE  XInv'
<1>1. /\ RowsFit /\ MapsFit /\ QueueTypes
      /\ \A c \in Convs, r \in 1 .. MaxRows : Index(c, r) \in Messages
  BY DEF TInv, IInv, Types, Messages
<1>2. UNCHANGED <<work, rerun, stale>>
  BY DEF Request, CreateConversation, DeleteConversation, RequestIdentify, Reindex, PatchSpeaker,
     ApplySuggestions, CommitNames, RetrySummary, Resummary, ApiDies, history
<1>3. Grows
  <2>1. UNCHANGED queue \/ \E m : Send(m)
    BY DEF Request, CreateConversation, DeleteConversation, RequestIdentify, Reindex, PatchSpeaker,
       ApplySuggestions, CommitNames, RetrySummary, Resummary, ApiDies
  <2> QED
    BY <1>1, <2>1, Sent, NotSent
<1> SUFFICES ASSUME NEW c \in Convs, NEW r \in 1 .. MaxRows PROVE InStep(c, r)'
  BY DEF XInv
<1>4. /\ queue[Index(c, r)] > 0 => queue'[Index(c, r)] > 0
      /\ InStep(c, r)
  BY <1>1, <1>3 DEF Grows, XInv
<1>5. ASSUME Out(c, r) PROVE InStep(c, r)'
  BY <1>2, <1>4, <1>5 DEF InStep, Out, Will
<1>6. ASSUME UNCHANGED rows, Writing(c, r)' => Writing(c, r) PROVE InStep(c, r)'
  <2>1. Due(c, r) => Due(c, r)'
    BY <1>2, <1>6 DEF Due, Newest
  <2> QED
    BY <1>2, <1>4, <1>6, <2>1, InStepFrame
<1>7. CASE \E d \in Convs : \/ \E s \in Speakers : PatchSpeaker(d, s)
                            \/ \E S \in SUBSET Speakers : ApplySuggestions(d, S)
  <2>1. PICK d \in Convs : /\ rows[d] # <<>> /\ Send(Index(d, Newest(d)))
                           /\ req'.conv = d /\ req'.row = Newest(d) /\ UNCHANGED rows
    <3>1. ASSUME NEW d \in Convs, NEW s \in Speakers, PatchSpeaker(d, s)
          PROVE  /\ rows[d] # <<>> /\ Send(Index(d, Newest(d)))
                 /\ req'.conv = d /\ req'.row = Newest(d) /\ UNCHANGED rows
      BY <3>1 DEF PatchSpeaker, nameVars
    <3>2. ASSUME NEW d \in Convs, NEW S \in SUBSET Speakers, ApplySuggestions(d, S)
          PROVE  /\ rows[d] # <<>> /\ Send(Index(d, Newest(d)))
                 /\ req'.conv = d /\ req'.row = Newest(d) /\ UNCHANGED rows
      BY <3>2 DEF ApplySuggestions, nameVars
    <3> QED
      BY <1>7, <3>1, <3>2
  <2>2. CASE d = c /\ Newest(d) = r
    <3>1. queue'[Index(c, r)] > 0
      BY <1>1, <2>1, <2>2, Sent
    <3> QED
      BY <3>1 DEF InStep, Out, Will
  <2>3. CASE ~(d = c /\ Newest(d) = r)
    <3>1. Writing(c, r)' => Writing(c, r)
      BY <1>2, <2>1, <2>3 DEF Writing, Is, Conv
    <3> QED
      BY <1>6, <2>1, <3>1
  <2> QED
    BY <2>2, <2>3
<1>8. CASE CommitNames
  <2>1. /\ req # NoReq /\ req' = NoReq /\ rows' = Persist(req.conv, req.row, req.copy)
    BY <1>8 DEF CommitNames
  <2>2. req.conv \in Convs /\ req.copy \in Maps /\ RowTypes
    BY <1>1, <2>1 DEF MapsFit, RowsFit, RowTypes
  <2>3. /\ Rewritten
        /\ \A d \in Convs : \A q \in DOMAIN rows[d] :
             ~(d = req.conv /\ q = req.row) => rows'[d][q] = rows[d][q]
    BY <2>1, <2>2, NamesWritten
  <2>4. CASE Settled(c, r)
    <3>1. ~Writing(c, r) /\ ~(c = req.conv /\ r = req.row)
      BY <2>4 DEF Settled, Writing
    <3>2. NoReq.conv # c
      BY SessionBounds DEF NoReq, Convs
    <3>3. ~Writing(c, r)'
      BY <1>2, <2>1, <3>1, <3>2 DEF Writing, Is, Conv
    <3>4. r \in DOMAIN rows'[c] => r \in DOMAIN rows[c] /\ rows'[c][r] = rows[c][r]
      BY <2>3, <3>1 DEF Rewritten
    <3>5. Due(c, r) => Due(c, r)'
      BY <1>2, <2>3 DEF Due, Newest, Rewritten
    <3> QED
      BY <1>2, <1>4, <3>3, <3>4, <3>5, InStepFrame
  <2> QED
    BY <1>4, <1>5, <2>4 DEF InStep
<1>9. CASE \/ RetrySummary \/ Resummary \/ ApiDies
           \/ \E p \in 0 .. MaxConvs : CreateConversation(p)
           \/ \E d \in Convs : DeleteConversation(d) \/ RequestIdentify(d) \/ Reindex(d)
  <2>1. UNCHANGED rows /\ (UNCHANGED req \/ req' = NoReq)
    BY <1>9 DEF CreateConversation, DeleteConversation, RequestIdentify, Reindex, RetrySummary,
       Resummary, ApiDies, nameVars
  <2>2. NoReq.conv # c
    BY SessionBounds DEF NoReq, Convs
  <2>3. Writing(c, r)' => Writing(c, r)
    BY <1>2, <2>1, <2>2 DEF Writing, Is, Conv
  <2> QED
    BY <1>6, <2>1, <2>3
<1> QED
  BY <1>7, <1>8, <1>9 DEF Request

\* A new row is due to be indexed, and is queued.
LEMMA DiarizeInStep ==
  ASSUME IInv, TInv, XInv, NEW d \in Convs, Diarize(d)
  PROVE  XInv'
<1>1. /\ RowsFit /\ MessagesFit /\ QueueTypes
      /\ rerun \in [Convs -> {"no", "running", "index", "post"}]
      /\ \A c \in Convs, r \in 1 .. MaxRows : Index(c, r) \in Messages
  BY DEF TInv, IInv, Types, ChainTypes, Messages
<1>2. UNCHANGED <<work, req>> /\ stale \subseteq stale'
  BY DEF Diarize, DiarizeBegin, DiarizeFails, DiarizeSucceeds, DiarizeSendsIndex,
     SchedulePostDiarization, DiarizerLost, SendIndex, history
<1>3. Grows
  <2>1. UNCHANGED queue \/ (\E m : Send(m)) \/ \E r : SendIndex(d, r)
    BY DEF Diarize, DiarizeBegin, DiarizeFails, DiarizeSucceeds, DiarizeSendsIndex,
       SchedulePostDiarization, DiarizerLost
  <2> QED
    BY <1>1, <2>1, Sent, NotSent, IndexSent
<1> SUFFICES ASSUME NEW c \in Convs, NEW r \in 1 .. MaxRows PROVE InStep(c, r)'
  BY DEF XInv
<1>4. /\ queue[Index(c, r)] > 0 => queue'[Index(c, r)] > 0
      /\ InStep(c, r)
  BY <1>1, <1>3 DEF Grows, XInv
<1>5. Writing(c, r)' => Writing(c, r)
  BY <1>2 DEF Writing, Is, Conv
<1>6. rerun'[c] = rerun[c] \/ c = d
  BY <1>1 DEF Diarize, DiarizeBegin, DiarizeFails, DiarizeSucceeds, DiarizeSendsIndex,
     SchedulePostDiarization, DiarizerLost
<1>7. ASSUME UNCHANGED rows, Due(c, r) => rerun'[c] = rerun[c] PROVE InStep(c, r)'
  <2>1. Due(c, r) => Due(c, r)'
    BY <1>7 DEF Due, Newest
  <2> QED
    BY <1>2, <1>4, <1>5, <1>7, <2>1, InStepFrame
<1>8. CASE DiarizeBegin(d) \/ DiarizeFails(d) \/ SchedulePostDiarization(d)
  <2>1. UNCHANGED rows /\ rerun[d] # "index"
    BY <1>8 DEF DiarizeBegin, DiarizeFails, SchedulePostDiarization, nameVars
  <2> QED
    BY <1>6, <1>7, <2>1 DEF Due
<1>9. CASE DiarizeSendsIndex(d)
  <2>1. UNCHANGED rows /\ SendIndex(d, Newest(d))
    BY <1>9 DEF DiarizeSendsIndex, nameVars
  <2>2. CASE c = d /\ r = Newest(d)
    BY <1>1, <2>1, <2>2, IndexSentInStep DEF InStep
  <2>3. CASE ~(c = d /\ r = Newest(d))
    BY <1>6, <1>7, <2>1, <2>3 DEF Due
  <2> QED
    BY <2>2, <2>3
<1>10. CASE DiarizeSucceeds(d)
  <2> DEFINE x == [names |-> NoNames, vector |-> NoNames, indexed |-> FALSE]
  <2>1. /\ rerun[d] = "running" /\ rerun' = [rerun EXCEPT ![d] = "index"]
        /\ rows' = [rows EXCEPT ![d] = Append(@, x)] /\ UNCHANGED queue
    BY <1>10 DEF DiarizeSucceeds
  <2>2. RowTypes /\ x \in Row
    BY <1>1, IdleFits DEF RowsFit, RowTypes, Row
  <2> HIDE DEF x
  <2>3. /\ \A e \in Convs \ {d} : rows'[e] = rows[e]
        /\ DOMAIN rows'[d] = DOMAIN rows[d] \cup {Len(rows'[d])}
        /\ \A q \in DOMAIN rows[d] : rows'[d][q] = rows[d][q]
    BY <2>1, <2>2, RowAdded
  <2>4. rerun'[d] = "index" /\ (Due(c, r) => Due(c, r)')
    BY <1>1, <2>1, <2>3 DEF Due, Newest
  <2>5. CASE c = d /\ r \notin DOMAIN rows[d]
    <3>1. \A w \in Workers : work[w].msg # Index(c, r)
      BY <1>1, <2>5, IndexFields DEF MessagesFit, Active, Placed
    <3>2. Indexing(c, r)' = {}
      BY <1>2, <3>1 DEF Indexing
    <3>3. r \in DOMAIN rows'[c] => Due(c, r)'
      BY <2>3, <2>4, <2>5 DEF Due, Newest
    <3>4. CASE Out(c, r)
      BY <1>2, <1>4, <3>4 DEF InStep, Out, Will
    <3>5. CASE Settled(c, r)
      BY <1>5, <3>2, <3>3, <3>5 DEF InStep, Settled
    <3> QED
      BY <1>4, <3>4, <3>5 DEF InStep
  <2>6. CASE c # d \/ r \in DOMAIN rows[d]
    <3>1. r \in DOMAIN rows'[c] => r \in DOMAIN rows[c] /\ rows'[c][r] = rows[c][r]
      BY <2>3, <2>6
    <3> QED
      BY <1>2, <1>4, <1>5, <2>4, <3>1, InStepFrame
  <2> QED
    BY <2>5, <2>6
<1>11. CASE DiarizerLost(d)
  <2>1. UNCHANGED rows /\ (rerun[d] = "index" => <<d, Newest(d)>> \in stale')
    BY <1>11 DEF DiarizerLost, nameVars
  <2>2. CASE Due(c, r) /\ c = d
    BY <2>1, <2>2 DEF Due, InStep, Out
  <2>3. CASE ~(Due(c, r) /\ c = d)
    BY <1>6, <1>7, <2>1, <2>3
  <2> QED
    BY <2>2, <2>3
<1> QED
  BY <1>8, <1>9, <1>10, <1>11 DEF Diarize

\* What another worker does to a row it does not index, and whose names it does not write.
LEMMA WorkerInStep ==
  ASSUME XInv, NEW w \in Workers, NEW c \in Convs, NEW r \in 1 .. MaxRows,
         UNCHANGED <<req, rerun>>, \A v \in Workers \ {w} : work'[v] = work[v],
         queue[Index(c, r)] > 0 => queue'[Index(c, r)] > 0,
         <<c, r>> \in stale => <<c, r>> \in stale',
         work[w].msg # Index(c, r) /\ work'[w].msg # Index(c, r),
         (Is(w, "identify", "persist") /\ Conv(w) = c /\ work[w].row = r)' => Writing(c, r),
         /\ DOMAIN rows'[c] = DOMAIN rows[c] /\ Len(rows'[c]) = Len(rows[c])
         /\ Out(c, r) \/ (r \in DOMAIN rows[c] => rows'[c][r] = rows[c][r])
  PROVE  InStep(c, r)'
<1>1. InStep(c, r)
  BY DEF XInv
<1>2. CASE Out(c, r)
  BY <1>2 DEF InStep, Out, Will
<1>3. CASE ~Out(c, r)
  <2>1. Writing(c, r)' => Writing(c, r)
    <3>1. ASSUME NEW v \in Workers, v # w,
                 (Is(v, "identify", "persist") /\ Conv(v) = c /\ work[v].row = r)'
          PROVE  Writing(c, r)
      BY <3>1 DEF Writing, Is, Conv
    <3> QED
      BY <3>1 DEF Writing
  <2>2. r \in DOMAIN rows'[c] => r \in DOMAIN rows[c] /\ rows'[c][r] = rows[c][r]
    BY <1>3
  <2>3. Due(c, r) => Due(c, r)'
    BY DEF Due, Newest
  <2> QED
    BY <1>1, <2>1, <2>2, <2>3, InStepFrame
<1> QED
  BY <1>2, <1>3

\* A message that is taken, or comes back.
LEMMA MessageInStep ==
  ASSUME IInv, TInv, XInv, NEW w \in Workers,
         (\E m \in Messages : Take(w, m)) \/ WorkerDies(w) \/ ChildLost(w) \/ Redeliver(w)
  PROVE  XInv'
<1>1. /\ QueueTypes /\ WorkTypes /\ \A c \in Convs, r \in 1 .. MaxRows : Index(c, r) \in Messages
  BY DEF IInv, Types, Messages
<1>2. UNCHANGED <<req, rerun, rows>> /\ stale \subseteq stale'
  BY DEF Take, WorkerDies, ChildLost, Lose, Redeliver, nameVars, history
<1> SUFFICES ASSUME NEW c \in Convs, NEW r \in 1 .. MaxRows PROVE InStep(c, r)'
  BY DEF XInv
<1>3. Index(c, r) \in Messages /\ Index(c, r) # Summarize
  BY <1>1, IndexFields, MessageFields
<1>4. CASE \E m \in Messages : Take(w, m)
  <2> DEFINE t(m) == [Idle EXCEPT !.msg = m, !.at = "start"]
  <2>1. PICK m \in Messages :
          /\ work[w] = Idle /\ queue[m] > 0 /\ queue' = [queue EXCEPT ![m] = @ - 1]
          /\ work' = [work EXCEPT ![w] = t(m)]
    BY <1>4 DEF Take
  <2>2. t(m).msg = m /\ t(m).at = "start"
    BY DEF Idle
  <2> HIDE DEF t
  <2>3. work'[w] = t(m) /\ \A v \in Workers \ {w} : work'[v] = work[v]
    BY <1>1, <2>1 DEF WorkTypes
  <2>4. CASE m = Index(c, r)
    BY <2>2, <2>3, <2>4 DEF InStep, Out, Will
  <2>5. CASE m # Index(c, r)
    <3>1. queue'[Index(c, r)] = queue[Index(c, r)]
      BY <1>1, <1>3, <2>1, <2>5 DEF QueueTypes
    <3>2. work[w].msg # Index(c, r) /\ work'[w].msg # Index(c, r) /\ ~Is(w, "identify", "persist")'
      BY <1>3, <2>1, <2>2, <2>3, <2>5, IdleFields DEF Is
    <3> QED
      BY <1>2, <2>3, <3>1, <3>2, WorkerInStep
  <2> QED
    BY <2>4, <2>5
<1>5. CASE WorkerDies(w) \/ Redeliver(w)
  <2>1. PICK m \in Messages : m = work[w].msg
    BY <1>1 DEF WorkTypes
  <2>2. Send(m) /\ (Finish(w) \/ UNCHANGED work)
    BY <1>5, <2>1 DEF WorkerDies, Redeliver, PutBack
  <2>3. Grows /\ queue'[m] > 0
    BY <1>1, <2>2, Sent
  <2>4. (\A v \in Workers \ {w} : work'[v] = work[v]) /\ (work'[w] = Idle \/ work'[w] = work[w])
    BY <1>1, <2>2, FinishEnds DEF Ends
  <2>5. CASE m = Index(c, r)
    BY <2>3, <2>5 DEF InStep, Out, Will
  <2>6. CASE m # Index(c, r)
    <3>1. queue[Index(c, r)] > 0 => queue'[Index(c, r)] > 0
      BY <1>3, <2>3 DEF Grows
    <3>2. work[w].msg # Index(c, r) /\ work'[w].msg # Index(c, r)
      BY <1>3, <2>1, <2>4, <2>6, IdleFields
    <3>3. (Is(w, "identify", "persist") /\ Conv(w) = c /\ work[w].row = r)' => Writing(c, r)
      <4>1. CASE work'[w] = Idle
        BY <4>1, IdleFields DEF Is
      <4>2. CASE work'[w] = work[w]
        BY <4>2 DEF Is, Conv, Writing
      <4> QED
        BY <2>4, <4>1, <4>2
    <3> QED
      BY <1>2, <2>4, <3>1, <3>2, <3>3, WorkerInStep
  <2> QED
    BY <2>5, <2>6
<1>6. CASE ChildLost(w)
  <2>1. Finish(w) /\ UNCHANGED queue /\ Lose(work[w].msg)
    BY <1>6 DEF ChildLost
  <2>2. work'[w] = Idle /\ \A v \in Workers \ {w} : work'[v] = work[v]
    BY <1>1, <2>1, FinishEnds DEF Ends
  <2>3. CASE work[w].msg = Index(c, r)
    <3>1. <<c, r>> \in stale'
      BY <2>1, <2>3, IndexFields DEF Lose
    <3> QED
      BY <3>1 DEF InStep, Out
  <2>4. CASE work[w].msg # Index(c, r)
    <3>1. work'[w].msg # Index(c, r) /\ ~Is(w, "identify", "persist")'
      BY <1>3, <2>2, IdleFields DEF Is
    <3> QED
      BY <1>2, <2>1, <2>2, <2>4, <3>1, WorkerInStep
  <2> QED
    BY <2>3, <2>4
<1> QED
  BY <1>4, <1>5, <1>6

\* Identification queues the index before it writes the names.
LEMMA IdentifyInStep ==
  ASSUME IInv, TInv, XInv, NEW w \in Workers,
         \/ IdentifyBegin(w) \/ IdentifySkips(w) \/ (\E a \in Answers : IdentifyAnswered(w, a))
         \/ IdentifyCommits(w) \/ IdentifyRaises(w) \/ IdentifySchedules(w)
         \/ IdentifyHandler(w) \/ IdentifyLast(w)
  PROVE  XInv'
<1>1. /\ QueueTypes /\ WorkTypes /\ TasksFit /\ RowsFit /\ MessagesFit
      /\ \A c \in Convs, r \in 1 .. MaxRows : Index(c, r) \in Messages
  BY DEF IInv, Types, TInv, Messages
<1>2. work[w].msg.kind = "identify"
  <2>1. CASE IdentifyCommits(w)
    BY <2>1, Kinds DEF IdentifyCommits, PlacesOf, Before, Idle
  <2> QED
    BY <2>1 DEF IdentifyBegin, IdentifySkips, IdentifyAnswered, IdentifyRaises,
       IdentifySchedules, IdentifyHandler, IdentifyLast, Is
<1>3. PICK d \in Convs : work[w].msg = Identify(d) /\ Conv(w) = d
  BY <1>2, Kinds, MessageFields DEF Conv
<1> SUFFICES ASSUME NEW c \in Convs, NEW r \in 1 .. MaxRows PROVE InStep(c, r)'
  BY DEF XInv
<1>4. Index(c, r) \in Messages /\ work[w].msg # Index(c, r) /\ Idle.msg # Index(c, r)
  BY <1>1, <1>2, IndexFields, MessageFields, IdleFields
<1>5. UNCHANGED <<req, rerun>>
  BY TaskLeaves DEF Task
<1>6. ASSUME NEW a \in Answers, IdentifyAnswered(w, a) PROVE InStep(c, r)'
  <2> DEFINE auto == \E s \in Speakers : a[s] = "auto"
             l == IF a = NoNames THEN "skip" ELSE IF auto THEN "persist" ELSE "suggest"
             t == [work[w] EXCEPT !.at = l, !.base = labels[d], !.copy = Merge(labels[d], a),
                                  !.row = Newest(d)]
  <2>1. work' = [work EXCEPT ![w] = t] /\ UNCHANGED rows
    BY <1>3, <1>6 DEF IdentifyAnswered, nameVars
  <2>2. IF auto THEN SendIndex(d, Newest(d)) ELSE UNCHANGED <<queue, stale>>
    BY <1>3, <1>6 DEF IdentifyAnswered
  <2>3. l = "persist" => auto
    OBVIOUS
  <2>4. t.msg = work[w].msg /\ t.at = l /\ t.row = Newest(d)
    <3>1. work[w] = [f \in Fields |-> work[w][f]]
      BY <1>1 DEF WorkTypes
    <3> HIDE DEF l
    <3> QED
      BY <3>1 DEF Fields
  <2> HIDE DEF t, l, auto
  <2>5. work'[w] = t /\ \A v \in Workers \ {w} : work'[v] = work[v]
    BY <1>1, <2>1 DEF WorkTypes
  <2>6. CASE auto /\ c = d /\ r = Newest(d)
    BY <1>1, <2>2, <2>6, IndexSentInStep DEF InStep
  <2>7. CASE ~(auto /\ c = d /\ r = Newest(d))
    <3>1. Grows /\ stale \subseteq stale'
      BY <1>1, <2>2, NotSent, IndexSent DEF SendIndex
    <3>2. work'[w].msg = Identify(d)
      BY <1>3, <2>4, <2>5
    <3>3. ~(Is(w, "identify", "persist") /\ Conv(w) = c /\ work[w].row = r)'
      BY <2>3, <2>4, <2>5, <2>7, <3>2, MessageFields DEF Is, Conv
    <3>4. queue[Index(c, r)] > 0 => queue'[Index(c, r)] > 0
      BY <1>4, <3>1 DEF Grows
    <3>5. work'[w].msg # Index(c, r)
      BY <1>3, <1>4, <3>2
    <3> QED
      BY <1>4, <1>5, <2>1, <2>5, <3>1, <3>3, <3>4, <3>5, WorkerInStep
  <2> QED
    BY <2>6, <2>7
<1>7. CASE \/ IdentifyBegin(w) \/ IdentifySkips(w) \/ IdentifyCommits(w) \/ IdentifyRaises(w)
           \/ IdentifySchedules(w) \/ IdentifyHandler(w) \/ IdentifyLast(w)
  <2>1. /\ (\E l \in {"llm", "post", "except", "last"} : Goto(w, l) \/ Continue(w, l)) \/ Finish(w)
        /\ UNCHANGED queue \/ Send(Summarize)
        /\ UNCHANGED stale
    BY <1>2, <1>7 DEF IdentifyBegin, IdentifySkips, IdentifyCommits, IdentifyRaises,
       IdentifySchedules, IdentifyHandler, Lose, IdentifyLast, history
  <2>2. /\ \A v \in Workers \ {w} : work'[v] = work[v]
        /\ work'[w].msg \in {work[w].msg, Idle.msg} /\ work'[w].at # "persist"
    BY <1>1, <2>1, GoneTo, Continued, FinishEnds, IdleFields DEF Ends
  <2>3. Grows
    BY <1>1, <2>1, Sent, NotSent
  <2>4. /\ DOMAIN rows'[c] = DOMAIN rows[c] /\ Len(rows'[c]) = Len(rows[c])
        /\ Out(c, r) \/ (r \in DOMAIN rows[c] => rows'[c][r] = rows[c][r])
    <3>1. CASE UNCHANGED rows
      BY <3>1
    <3>2. CASE IdentifyCommits(w) /\ ~UNCHANGED rows
      <4>1. work[w].at = "persist" /\ rows' = Persist(d, work[w].row, work[w].copy)
        BY <1>3, <3>2 DEF IdentifyCommits
      <4>2. RowTypes /\ work[w].copy \in Maps
        BY <1>1 DEF RowsFit, RowTypes, TasksFit, TaskFits
      <4>3. /\ Rewritten
            /\ \A e \in Convs : \A q \in DOMAIN rows[e] :
                 ~(e = d /\ q = work[w].row) => rows'[e][q] = rows[e][q]
        BY <4>1, <4>2, NamesWritten
      <4>4. d = c /\ work[w].row = r => Out(c, r)
        <5>1. d = c /\ work[w].row = r => Writing(c, r)
          BY <1>2, <1>3, <4>1 DEF Writing, Is
        <5> QED
          BY <5>1 DEF XInv, InStep, Settled
      <4> QED
        BY <4>3, <4>4 DEF Rewritten
    <3>3. Task(w) /\ ~IndexWrites(w)
      BY <1>2, <1>7 DEF Task, IndexWrites, Is
    <3> QED
      BY <3>1, <3>2, <3>3, TaskLeaves
  <2>5. queue[Index(c, r)] > 0 => queue'[Index(c, r)] > 0
    BY <1>4, <2>3 DEF Grows
  <2> QED
    BY <1>4, <1>5, <2>1, <2>2, <2>4, <2>5, WorkerInStep DEF Is
<1> QED
  BY <1>6, <1>7

\* A summary writes no names, and no vector.
LEMMA SummaryInStep ==
  ASSUME IInv, TInv, XInv, NEW w \in Workers,
         \/ SummaryReads(w) \/ SummaryClaims(w) \/ SummaryAnswered(w) \/ SummaryStored(w)
         \/ SummaryRaises(w) \/ SummaryHandler(w)
  PROVE  XInv'
<1>1. WorkTypes
  BY DEF IInv, Types
<1>2. UNCHANGED <<req, rerun, rows, queue, stale>> /\ work[w].msg.kind = "summary"
  BY MessageFields DEF SummaryReads, SummaryClaims, SummaryAnswered, SummaryStored, SummaryRaises,
     SummaryHandler, Lose, Is, nameVars, history
<1>3. /\ \A v \in Workers \ {w} : work'[v] = work[v]
      /\ work'[w].msg \in {work[w].msg, Idle.msg}
  <2>1. CASE SummaryReads(w)
    <3>1. PICK segs, seen :
            work' = [work EXCEPT ![w].at = "claim", ![w].segs = segs, ![w].seen = seen]
      BY <2>1 DEF SummaryReads
    <3> DEFINE t == [work[w] EXCEPT !.at = "claim", !.segs = segs, !.seen = seen]
    <3>2. work' = [work EXCEPT ![w] = t]
      BY <3>1
    <3>3. t.msg = work[w].msg
      OBVIOUS
    <3> HIDE DEF t
    <3> QED
      BY <1>1, <3>2, <3>3 DEF WorkTypes
  <2>2. CASE \/ SummaryClaims(w) \/ SummaryAnswered(w) \/ SummaryStored(w) \/ SummaryRaises(w)
             \/ SummaryHandler(w)
    <3>1. (\E l : Goto(w, l) \/ Continue(w, l)) \/ Finish(w)
      BY <2>2 DEF SummaryClaims, SummaryAnswered, SummaryStored, SummaryRaises, SummaryHandler
    <3> QED
      BY <1>1, <3>1, GoneTo, Continued, FinishEnds DEF Ends
  <2> QED
    BY <2>1, <2>2
<1> SUFFICES ASSUME NEW c \in Convs, NEW r \in 1 .. MaxRows PROVE InStep(c, r)'
  BY DEF XInv
<1>4. work[w].msg # Index(c, r) /\ work'[w].msg # Index(c, r)
  BY <1>2, <1>3, IndexFields, IdleFields, MessageFields
<1>5. ~Is(w, "identify", "persist")'
  BY <1>2, <1>3, IdleFields, MessageFields DEF Is
<1> QED
  BY <1>2, <1>3, <1>4, <1>5, WorkerInStep

\* The index reads the names, unless somebody is writing them, and writes the vector.
LEMMA IndexInStep ==
  ASSUME IInv, TInv, XInv, NEW w \in Workers, IndexReads(w) \/ IndexWrites(w) \/ IndexRaises(w)
  PROVE  XInv'
<1>1. /\ WorkTypes /\ TasksFit /\ RowsFit /\ MessagesFit /\ work[w].msg \in Messages
  BY DEF IInv, Types, TInv, WorkTypes
<1>2. UNCHANGED <<req, rerun, queue>> /\ work[w].msg.kind = "index"
  BY DEF IndexReads, IndexWrites, IndexRaises, Is, nameVars, history
<1>3. PICK d \in Convs, q \in 1 .. MaxRows : work[w].msg = Index(d, q)
  BY <1>1, <1>2, IdleFields, MessageFields DEF Messages, Identify, Summarize, Msg
<1>4. Conv(w) = d /\ work[w].msg.row = q /\ q \in DOMAIN rows[d]
  BY <1>1, <1>3, IndexFields DEF Conv, MessagesFit, Active, Placed
<1>5. CASE IndexReads(w)
  <2> DEFINE t == [work[w] EXCEPT !.at = "embed", !.copy = rows[d][q].names]
  <2>1. /\ work' = [work EXCEPT ![w] = t] /\ UNCHANGED rows /\ work[w].at = "start"
        /\ stale' = IF Writing(d, q) \/ Indexing(d, q) # {}
                    THEN stale \cup {<<d, q>>} ELSE stale \ {<<d, q>>}
    BY <1>4, <1>5 DEF IndexReads, nameVars, Is
  <2>2. t.msg = Index(d, q) /\ t.at = "embed" /\ t.copy = rows[d][q].names
    <3>1. work[w] = [f \in Fields |-> work[w][f]]
      BY <1>1 DEF WorkTypes
    <3> QED
      BY <1>3, <3>1 DEF Fields
  <2> HIDE DEF t
  <2>3. work'[w] = t /\ \A v \in Workers \ {w} : work'[v] = work[v]
    BY <1>1, <2>1 DEF WorkTypes
  <2>4. ~Is(w, "identify", "persist")'
    BY <2>2, <2>3 DEF Is
  <2> SUFFICES ASSUME NEW c \in Convs, NEW r \in 1 .. MaxRows PROVE InStep(c, r)'
    BY DEF XInv
  <2>5. CASE c = d /\ r = q
    <3>1. CASE Writing(d, q) \/ Indexing(d, q) # {}
      BY <2>1, <2>5, <3>1 DEF InStep, Out
    <3>2. CASE ~(Writing(d, q) \/ Indexing(d, q) # {})
      <4>1. ~Writing(d, q)'
        BY <1>2, <2>3, <2>4, <3>2 DEF Writing, Is, Conv
      <4>2. \A v \in Workers : v \in Indexing(d, q)' => v = w
        BY <2>3, <3>2 DEF Indexing
      <4>3. w \in Indexing(d, q)'
        BY <2>2, <2>3 DEF Indexing
      <4>4. work'[w].copy = rows'[d][q].names
        BY <2>1, <2>2, <2>3
      <4>5. \A v \in Indexing(d, q)' : v \in Workers /\ v = w
        BY <4>2 DEF Indexing
      <4>6. Settled(d, q)'
        BY <4>1, <4>3, <4>4, <4>5 DEF Settled
      <4> QED
        BY <2>5, <4>6 DEF InStep
    <3> QED
      BY <3>1, <3>2
  <2>6. CASE ~(c = d /\ r = q)
    <3>1. work[w].msg # Index(c, r) /\ work'[w].msg # Index(c, r)
      BY <1>3, <2>2, <2>3, <2>6, IndexFields
    <3>2. <<c, r>> \in stale => <<c, r>> \in stale'
      BY <2>1, <2>6
    <3> QED
      BY <1>2, <2>1, <2>3, <2>4, <3>1, <3>2, WorkerInStep
  <2> QED
    BY <2>5, <2>6
<1>6. CASE IndexWrites(w)
  <2>1. /\ work[w].at = "embed" /\ Embedded(d, q, work[w].copy) /\ Finish(w) /\ UNCHANGED stale
    BY <1>4, <1>6 DEF IndexWrites, Embedded, Is, history
  <2>2. work[w].copy \in Shown /\ RowTypes
    BY <1>1, <2>1 DEF TasksFit, TaskFits, RowsFit, RowTypes
  <2>3. /\ Rewritten
        /\ \A e \in Convs : \A p \in DOMAIN rows[e] :
             /\ rows'[e][p].names = rows[e][p].names
             /\ ~(e = d /\ p = q) => rows'[e][p] = rows[e][p]
        /\ rows'[d][q].vector = work[w].copy /\ rows'[d][q].indexed
    BY <1>4, <2>1, <2>2, VectorWritten
  <2>4. work'[w] = Idle /\ \A v \in Workers \ {w} : work'[v] = work[v]
    BY <1>1, <2>1, FinishEnds DEF Ends
  <2>5. ~Is(w, "identify", "persist")'
    BY <2>4, IdleFields DEF Is
  <2> SUFFICES ASSUME NEW c \in Convs, NEW r \in 1 .. MaxRows PROVE InStep(c, r)'
    BY DEF XInv
  <2>6. CASE c = d /\ r = q
    <3>1. InStep(c, r)
      BY DEF XInv
    <3>2. CASE Out(c, r)
      <4>1. \A v \in Workers : work[v].at = "start" => work'[v] = work[v]
        BY <2>1, <2>4
      <4> QED
        BY <1>2, <2>1, <3>2, <4>1 DEF InStep, Out, Will
    <3>3. CASE Settled(d, q)
      <4>1. w \in Indexing(d, q)
        BY <1>3, <2>1 DEF Indexing
      <4>2. \A v \in Indexing(d, q) : work[v].copy = rows[d][q].names
        BY <1>4, <3>3 DEF Settled
      <4>3. Fresh(d, q)'
        BY <1>4, <2>3, <4>1, <4>2 DEF Fresh
      <4>4. ~Writing(d, q)'
        BY <1>2, <2>4, <2>5, <3>3 DEF Settled, Writing, Is, Conv
      <4>5. \A v \in Workers : work'[v].msg = Index(d, q) => v # w
        BY <1>3, <2>4, IdleFields, IndexFields, MessageFields
      <4>6. \A v \in Indexing(d, q)' : v \in Indexing(d, q) /\ work'[v] = work[v]
        BY <2>4, <4>5 DEF Indexing
      <4>7. \A v \in Indexing(d, q)' : work'[v].copy = rows'[d][q].names
        BY <1>4, <2>3, <4>2, <4>6
      <4>8. Settled(d, q)'
        BY <4>3, <4>4, <4>7 DEF Settled
      <4> QED
        BY <2>6, <4>8 DEF InStep
    <3> QED
      BY <2>6, <3>1, <3>2, <3>3 DEF InStep
  <2>7. CASE ~(c = d /\ r = q)
    <3>1. work[w].msg # Index(c, r) /\ work'[w].msg # Index(c, r)
      BY <1>3, <2>4, <2>7, IndexFields, IdleFields, MessageFields
    <3>2. /\ DOMAIN rows'[c] = DOMAIN rows[c] /\ Len(rows'[c]) = Len(rows[c])
          /\ r \in DOMAIN rows[c] => rows'[c][r] = rows[c][r]
      BY <2>3, <2>7 DEF Rewritten
    <3> QED
      BY <1>2, <2>1, <2>4, <2>5, <3>1, <3>2, WorkerInStep
  <2> QED
    BY <2>6, <2>7
<1>7. CASE IndexRaises(w)
  <2>1. Finish(w) /\ stale' = stale \cup {<<d, q>>} /\ UNCHANGED rows
    BY <1>4, <1>7 DEF IndexRaises, nameVars
  <2>2. work'[w] = Idle /\ \A v \in Workers \ {w} : work'[v] = work[v]
    BY <1>1, <2>1, FinishEnds DEF Ends
  <2>3. ~Is(w, "identify", "persist")'
    BY <2>2, IdleFields DEF Is
  <2> SUFFICES ASSUME NEW c \in Convs, NEW r \in 1 .. MaxRows PROVE InStep(c, r)'
    BY DEF XInv
  <2>4. CASE c = d /\ r = q
    BY <2>1, <2>4 DEF InStep, Out
  <2>5. CASE ~(c = d /\ r = q)
    <3>1. work[w].msg # Index(c, r) /\ work'[w].msg # Index(c, r)
      BY <1>3, <2>2, <2>5, IndexFields, IdleFields, MessageFields
    <3> QED
      BY <1>2, <2>1, <2>2, <2>3, <3>1, WorkerInStep
  <2> QED
    BY <2>4, <2>5
<1> QED
  BY <1>5, <1>6, <1>7

\* Every step, and a step that changes nothing, keeps the rows and the index in step.
LEMMA StepInStep ==
  ASSUME IInv, TInv, XInv, [Next]_vars
  PROVE  XInv'
<1>1. CASE Request
  BY <1>1, RequestInStep
<1>2. ASSUME NEW c \in Convs, Diarize(c) PROVE XInv'
  BY <1>2, DiarizeInStep
<1>3. ASSUME NEW w \in Workers, Task(w) PROVE XInv'
  BY <1>3, MessageInStep, IdentifyInStep, SummaryInStep, IndexInStep DEF Task
<1>4. CASE UNCHANGED vars
  <2>1. UNCHANGED <<rows, rerun, queue, work, req, stale>>
    BY <1>4 DEF vars, nameVars, history
  <2> SUFFICES ASSUME NEW c \in Convs, NEW r \in 1 .. MaxRows PROVE InStep(c, r)'
    BY DEF XInv
  <2>2. (Writing(c, r)' => Writing(c, r)) /\ (Due(c, r) => Due(c, r)')
    BY <2>1 DEF Writing, Is, Conv, Due, Newest
  <2>3. InStep(c, r)
    BY DEF XInv
  <2> QED
    BY <2>1, <2>2, <2>3, InStepFrame
<1> QED
  BY <1>1, <1>2, <1>3, <1>4 DEF Next

\* Once no index task is waiting or at work, the vector of a transcript is that of its text,
\* unless the task read the text before the commit that had queued it, two of them
\* overlapped, a call failed, or the child process of a task died: for any number of
\* workers, conversations, reruns, crashes and deliveries of a message.
THEOREM VectorsFitTexts == Spec => []IndexFits
<1>1. Init => XInv
  <2> SUFFICES ASSUME Init, NEW c \in Convs, NEW r \in 1 .. MaxRows PROVE InStep(c, r)
    BY DEF XInv
  <2>1. rows[c] = <<>> /\ req = NoReq /\ \A w \in Workers : work[w] = Idle
    BY DEF Init
  <2>2. NoReq.conv # c
    BY SessionBounds DEF NoReq, Convs
  <2>3. ~Writing(c, r)
    BY <2>1, <2>2, IdleFields DEF Writing, Is
  <2> QED
    BY <2>1, <2>3 DEF InStep, Settled
<1>2. IInv /\ TInv /\ XInv /\ [Next]_vars => XInv'
  BY StepInStep
<1>3. IInv /\ TInv /\ XInv => IndexFits
  BY FitsImplied
<1> QED
  BY <1>1, <1>2, <1>3, Shapes, PTL DEF Spec

=============================================================================
