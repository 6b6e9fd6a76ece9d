--------------------------- MODULE ItemsApiProofs ---------------------------
(***************************************************************************)
(* Proofs about ItemsApi, for any number of requests and ids, any names    *)
(* and descriptions, and pages of any size.                                *)
(***************************************************************************)
EXTENDS ItemsApi, TLAPS, FiniteSetTheorems

(***************************************************************************)
(* Pages.  The rank of a row is a bijection between the rows and the       *)
(* positions of the list, and grows with the list.                         *)
(***************************************************************************)
Upto(S, i)    == {j \in S : j <= i}
RankIn(S, i)  == Cardinality(Upto(S, i))
PageOf(S, o)  == {i \in S : RankIn(S, i) \in (o + 1)..(o + Limit)}

LEMMA RankIs ==
  /\ \A i : Rank(i) = RankIn(DOMAIN items, i)
  /\ \A o : Page(o) = PageOf(DOMAIN items, o)
BY DEF Rank, RankIn, Upto, Page, PageOf

LEMMA RankGrows ==
  ASSUME NEW S, NEW T, IsFiniteSet(T), S \subseteq T, NEW i
  PROVE  RankIn(S, i) \in Nat /\ RankIn(T, i) \in Nat /\ RankIn(S, i) <= RankIn(T, i)
<1>1. Upto(S, i) \subseteq Upto(T, i) /\ Upto(T, i) \subseteq T
  BY DEF Upto
<1>2. IsFiniteSet(Upto(T, i))
  BY <1>1, FS_Subset
<1>3. /\ IsFiniteSet(Upto(S, i))
      /\ Cardinality(Upto(S, i)) <= Cardinality(Upto(T, i))
  BY <1>1, <1>2, FS_Subset
<1>4. Cardinality(Upto(S, i)) \in Nat /\ Cardinality(Upto(T, i)) \in Nat
  BY <1>2, <1>3, FS_CardinalityType
<1> QED
  BY <1>3, <1>4 DEF RankIn

LEMMA RankFits ==
  ASSUME NEW S \in SUBSET Nat, IsFiniteSet(S), NEW i \in S
  PROVE  RankIn(S, i) \in 1..Cardinality(S)
<1>1. Upto(S, i) \in SUBSET S /\ i \in Upto(S, i)
  BY DEF Upto
<1>2. /\ IsFiniteSet(Upto(S, i))
      /\ Cardinality(Upto(S, i)) <= Cardinality(S)
  BY <1>1, FS_Subset
<1>3. Cardinality(Upto(S, i)) \in Nat /\ Cardinality(S) \in Nat
  BY <1>2, FS_CardinalityType
<1>4. Cardinality(Upto(S, i)) # 0
  BY <1>1, <1>2, FS_EmptySet
<1> QED
  BY <1>2, <1>3, <1>4 DEF RankIn

LEMMA RankOrders ==
  ASSUME NEW S \in SUBSET Nat, IsFiniteSet(S), NEW i \in S, NEW j \in S, i < j
  PROVE  RankIn(S, i) # RankIn(S, j)
<1>0. \A k \in S : k \in Nat /\ (k <= i => k <= j)
  OBVIOUS
<1>1. Upto(S, j) \in SUBSET S /\ Upto(S, i) \in SUBSET Upto(S, j)
  BY <1>0 DEF Upto
<1>2. j \in Upto(S, j) /\ j \notin Upto(S, i)
  BY DEF Upto
<1>3. IsFiniteSet(Upto(S, j))
  BY <1>1, FS_Subset
<1>4. Cardinality(Upto(S, j)) = Cardinality(Upto(S, i)) => Upto(S, j) = Upto(S, i)
  BY <1>1, <1>3, FS_Subset
<1> QED
  BY <1>2, <1>4 DEF RankIn

LEMMA RankApart ==
  ASSUME NEW S \in SUBSET Nat, IsFiniteSet(S), NEW i \in S, NEW j \in S,
         RankIn(S, i) = RankIn(S, j)
  PROVE  i = j
<1>1. ~(i < j) /\ ~(j < i)
  BY RankOrders
<1> QED
  BY <1>1

\* Every position of the list has a row.
LEMMA EveryRank ==
  ASSUME NEW S \in SUBSET Nat, IsFiniteSet(S), NEW k \in 1..Cardinality(S)
  PROVE  \E i \in S : RankIn(S, i) = k
<1> DEFINE f == [i \in S |-> RankIn(S, i)]
           N == Cardinality(S)
<1>0. N \in Nat
  BY FS_CardinalityType
<1>1. f \in [S -> 1..N]
  BY RankFits
<1>2. \A i, j \in S : f[i] = f[j] => i = j
  BY RankApart
<1>3. IsFiniteSet(1..N) /\ Cardinality(1..N) = N
  <2>1. 1 \in Int /\ N \in Int
    BY <1>0
  <2>2. /\ IsFiniteSet(1..N)
        /\ Cardinality(1..N) = IF 1 > N THEN 0 ELSE N - 1 + 1
    BY <2>1, FS_Interval
  <2> HIDE DEF N
  <2> QED
    BY <1>0, <2>2
<1>4. \A i \in S : f[i] = RankIn(S, i)
  OBVIOUS
<1> HIDE DEF f
<1>5. f \in Injection(S, 1..N)
  BY <1>1, <1>2 DEF Injection, IsInjective
<1>6. f \in Surjection(S, 1..N)
  BY <1>3, <1>5, FS_Injection
<1> QED
  BY <1>4, <1>6 DEF Surjection

\* A page is full exactly when the list goes on to its end.
LEMMA FullPage ==
  ASSUME NEW S \in SUBSET Nat, IsFiniteSet(S), NEW o \in Nat
  PROVE  /\ Cardinality(PageOf(S, o)) \in Nat
         /\ Cardinality(PageOf(S, o)) < Limit <=> Cardinality(S) < o + Limit
<1> DEFINE N == Cardinality(S)
           P == PageOf(S, o)
           R == (o + 1)..(o + Limit)
           M == (o + 1)..N
<1>0. N \in Nat /\ Limit \in Nat /\ Limit > 0
  BY FS_CardinalityType, ApiAssumption
<1>1. P \in SUBSET S
  BY DEF PageOf
<1>2. IsFiniteSet(P)
  BY <1>1, FS_Subset
<1>3. Cardinality(P) \in Nat
  BY <1>2, FS_CardinalityType
<1>4. ASSUME N >= o + Limit PROVE Cardinality(P) >= Limit
  <2> DEFINE g == [k \in R |-> CHOOSE i \in S : RankIn(S, i) = k]
  <2>1. \A k \in R : k \in 1..N
    BY <1>0, <1>4
  <2>2. \A k \in R : g[k] \in S /\ RankIn(S, g[k]) = k
    BY <2>1, EveryRank
  <2>3. \A k \in R : g[k] \in P
    BY <2>2 DEF PageOf
  <2>4. g \in [R -> P]
    BY <2>3
  <2> HIDE DEF g
  <2>5. g \in Injection(R, P)
    BY <2>2, <2>4 DEF Injection, IsInjective
  <2>6. Cardinality(R) <= Cardinality(P)
    BY <1>2, <2>5, FS_Injection
  <2>7. o + 1 \in Int /\ o + Limit \in Int
    BY <1>0
  <2>8. Cardinality(R) = IF o + 1 > o + Limit THEN 0 ELSE (o + Limit) - (o + 1) + 1
    BY <2>7, FS_Interval
  <2>9. Cardinality(R) = Limit
    BY <1>0, <2>8
  <2> QED
    BY <2>6, <2>9
<1>5. ASSUME N < o + Limit PROVE Cardinality(P) < Limit
  <2> DEFINE h == [i \in P |-> RankIn(S, i)]
  <2>1. \A i \in P : h[i] \in M
    <3> SUFFICES ASSUME NEW i \in P PROVE h[i] \in M
      OBVIOUS
    <3>1. RankIn(S, i) \in 1..N /\ RankIn(S, i) \in R
      BY <1>1, RankFits DEF PageOf
    <3> QED
      BY <1>0, <3>1
  <2>2. \A i, j \in P : h[i] = h[j] => i = j
    BY <1>1, RankApart
  <2>3. h \in [P -> M]
    BY <2>1
  <2> HIDE DEF h
  <2>4. h \in Injection(P, M)
    BY <2>2, <2>3 DEF Injection, IsInjective
  <2>5. o + 1 \in Int /\ N \in Int
    BY <1>0
  <2>6. /\ IsFiniteSet(M)
        /\ Cardinality(M) = IF o + 1 > N THEN 0 ELSE N - (o + 1) + 1
    BY <2>5, FS_Interval
  <2>7. Cardinality(P) <= Cardinality(M)
    BY <2>4, <2>6, FS_Injection
  <2>8. Cardinality(M) < Limit
    <3> HIDE DEF N, M
    <3> QED
      BY <1>0, <1>5, <2>6
  <2>9. Cardinality(M) \in Nat
    BY <2>6, FS_CardinalityType
  <2> HIDE DEF M, P
  <2> QED
    BY <1>0, <1>3, <2>7, <2>8, <2>9
<1> HIDE DEF N, P
<1>6. Cardinality(P) < Limit <=> N < o + Limit
  BY <1>0, <1>3, <1>4, <1>5
<1> QED
  BY <1>3, <1>6 DEF N, P

LEMMA ListFits ==
  ASSUME NEW S \in SUBSET (1..MaxId)
  PROVE  /\ S \in SUBSET Nat /\ IsFiniteSet(S)
         /\ Cardinality(S) \in 0..MaxId
<1>1. MaxId \in Nat
  BY ApiAssumption
<1>2. IsFiniteSet(1..MaxId) /\ Cardinality(1..MaxId) = MaxId
  <2>1. 1 \in Int /\ MaxId \in Int
    BY <1>1
  <2>2. /\ IsFiniteSet(1..MaxId)
        /\ Cardinality(1..MaxId) = IF 1 > MaxId THEN 0 ELSE MaxId - 1 + 1
    BY <2>1, FS_Interval
  <2> QED
    BY <1>1, <2>2
<1>3. /\ IsFiniteSet(S)
      /\ Cardinality(S) <= MaxId
  BY <1>2, FS_Subset
<1>4. Cardinality(S) \in Nat
  BY <1>3, FS_CardinalityType
<1>5. S \in SUBSET Nat
  BY <1>1
<1> QED
  BY <1>1, <1>3, <1>4, <1>5

(***************************************************************************)
(* Ids.  An id that was given out and is not committed belongs to one      *)
(* request; one a request has met in the table, or committed itself, will  *)
(* not be committed again, so a row that is gone stays gone.               *)
(***************************************************************************)
Uncommitted ==
  /\ DOMAIN items \subseteq 1..lastId
  /\ \A r \in Requests : req[r].pc = "flushed" =>
       /\ req[r].id \in 1..lastId /\ req[r].id \notin DOMAIN items /\ req[r].sent \in Rows
       /\ \A q \in Requests : req[q].pc = "flushed" /\ req[q].id = req[r].id => q = r

Known ==
  \A r \in Requests : req[r].pc \in {"refresh", "patch", "delete"} \/ req[r].answer = 500 =>
    /\ req[r].id \in 1..lastId
    /\ \A q \in Requests : req[q].pc = "flushed" => req[q].id # req[r].id

Patching == \A r \in Requests : req[r].pc = "patch" => req[r].sent \in Patches /\ req[r].read \in Rows

\* Between a COUNT and its page the reader has an offset.
Counting == total # Null => scan.offset \notin {Null, AllRead}

IdsHold == /\ RequestsTypeOK /\ Uncommitted /\ Known /\ Patching
           /\ ErrorMeansGone /\ Counting

LEMMA ApiNumbers ==
  /\ MaxId \in Nat /\ Limit \in Nat /\ Limit > 0 /\ AllRead \in Nat /\ MaxId < AllRead
  /\ \A c \in {0, 200, 204, 404, 409, 500} : c # Null
BY ApiAssumption DEF AllRead

\* What Go and Answer make of a request, and leave of the others.
LEMMA Went ==
  ASSUME RequestsTypeOK, NEW r \in Requests, NEW pc, NEW id, NEW sent, NEW read,
         Go(r, pc, id, sent, read)
  PROVE  /\ DOMAIN req' = Requests
         /\ req'[r] = [pc |-> pc, id |-> id, sent |-> sent, read |-> read, answer |-> Null]
         /\ \A q \in Requests \ {r} : req'[q] = req[q]
         /\ req' = [q \in Requests |-> req'[q]]
BY DEF RequestsTypeOK, Go, Become

LEMMA Answered ==
  ASSUME RequestsTypeOK, NEW r \in Requests, NEW code, Answer(r, code)
  PROVE  /\ DOMAIN req' = Requests
         /\ req'[r] = [pc |-> "over", id |-> req[r].id, sent |-> req[r].sent,
                       read |-> req[r].read, answer |-> code]
         /\ \A q \in Requests \ {r} : req'[q] = req[q]
         /\ req' = [q \in Requests |-> req'[q]]
BY DEF RequestsTypeOK, Answer, Become

\* The requests' part of the type invariant, when one of them moves.
LEMMA SessionKept ==
  ASSUME RequestsTypeOK, NEW r \in Requests, DOMAIN req' = Requests, req'[r] \in Session,
         \A q \in Requests \ {r} : req'[q] = req[q], req' = [q \in Requests |-> req'[q]]
  PROVE  req' \in [Requests -> Session]
<1>1. \A q \in Requests : req'[q] \in Session
  BY DEF RequestsTypeOK
<1> QED
  BY <1>1

LEMMA IdsInit == ASSUME ApiInit PROVE IdsHold
<1>1. PICK n \in 0..MaxId : items \in [1..n -> Rows]
  BY DEF ApiInit
<1>2. n \in Nat /\ n <= MaxId /\ DOMAIN items = 1..n
  BY <1>1, ApiNumbers
<1>3. Cardinality(DOMAIN items) = n
  <2>1. 1 \in Int /\ n \in Int
    BY <1>2
  <2>2. Cardinality(1..n) = IF 1 > n THEN 0 ELSE n - 1 + 1
    BY <2>1, FS_Interval
  <2> QED
    BY <1>2, <2>2
<1>4. lastId = n /\ lastId \in 0..MaxId
  BY <1>2, <1>3, ApiNumbers DEF ApiInit
<1>5. \A r \in Requests : req[r] = Fresh
  BY DEF ApiInit
<1>6. Fresh \in Session
  BY ApiNumbers DEF Fresh, Session
<1>7. Fresh.pc = "idle" /\ Fresh.answer = Null
  BY DEF Fresh
<1>8. RequestsTypeOK
  <2>1. req \in [Requests -> Session]
    BY <1>6 DEF ApiInit
  <2>2. DOMAIN items \subseteq 1..MaxId /\ \A i \in DOMAIN items : items[i] \in Rows
    BY <1>1, <1>2, ApiNumbers
  <2>3. /\ scan \in Reader
        /\ total \in {Null} \cup 0..MaxId
    BY DEF ApiInit, Reader
  <2> QED
    BY <1>4, <2>1, <2>2, <2>3 DEF RequestsTypeOK
<1>9. Uncommitted /\ Patching /\ Counting
  BY <1>2, <1>4, <1>5, <1>7 DEF Uncommitted, Patching, Counting, ApiInit
<1>10. \A r \in Requests : req[r].answer # 500
  BY <1>5, <1>7, ApiNumbers
<1> QED
  BY <1>5, <1>7, <1>8, <1>9, <1>10 DEF IdsHold, Known, ErrorMeansGone

LEMMA IdsFlush ==
  ASSUME IdsHold, NEW r \in Requests, NEW row \in Rows, CreateFlush(r, row)
  PROVE  IdsHold'
<1>0. /\ lastId \in Nat /\ lastId' = lastId + 1 /\ lastId' \in 0..MaxId
      /\ UNCHANGED <<items, scan, total>> /\ DOMAIN items \subseteq 1..lastId
  BY ApiNumbers DEF CreateFlush, IdsHold, RequestsTypeOK, Uncommitted
<1>1. /\ req[r] \in Session /\ req[r].pc = "idle" /\ req' = [q \in Requests |-> req'[q]]
      /\ \A q \in Requests \ {r} : req'[q] = req[q]
      /\ \/ req'[r] = [pc |-> "flushed", id |-> lastId + 1, sent |-> row, read |-> << >>,
                       answer |-> Null]
         \/ req'[r] = [pc |-> "over", id |-> req[r].id, sent |-> req[r].sent,
                       read |-> req[r].read, answer |-> 409]
  BY Went, Answered DEF CreateFlush, IdsHold, RequestsTypeOK
<1>2. row \in Patches
  BY DEF Patches
<1>3. req'[r] \in Session
  BY <1>0, <1>1, <1>2, ApiNumbers DEF Session
<1>4. RequestsTypeOK'
  <2>1. req' \in [Requests -> Session]
    BY <1>1, <1>3, SessionKept DEF IdsHold
  <2> QED
    BY <1>0, <2>1 DEF IdsHold, RequestsTypeOK
<1>5. \A q \in Requests : req[q].pc = "flushed" => req[q].id \in 1..lastId
  BY DEF IdsHold, Uncommitted
<1>6. Uncommitted'
  BY <1>0, <1>1, <1>5 DEF IdsHold, Uncommitted
<1>7. Known'
  BY <1>0, <1>1, ApiNumbers DEF IdsHold, Known
<1>8. Patching' /\ ErrorMeansGone' /\ Counting'
  BY <1>0, <1>1, ApiNumbers DEF IdsHold, Patching, ErrorMeansGone, Counting, AllRead
<1> QED
  BY <1>4, <1>6, <1>7, <1>8 DEF IdsHold

LEMMA IdsCommit ==
  ASSUME IdsHold, NEW r \in Requests, CreateCommit(r)
  PROVE  IdsHold'
<1>0. /\ req[r].pc = "flushed" /\ UNCHANGED <<lastId, scan, total>>
      /\ req[r].id \in 1..lastId /\ req[r].id \notin DOMAIN items /\ req[r].sent \in Rows
      /\ lastId \in Nat /\ lastId <= MaxId
  BY ApiNumbers DEF CreateCommit, IdsHold, Uncommitted, RequestsTypeOK
<1>1. /\ DOMAIN items' = DOMAIN items \cup {req[r].id} /\ items'[req[r].id] = req[r].sent
      /\ \A i \in DOMAIN items : items'[i] = items[i]
  BY <1>0 DEF CreateCommit
<1>2. /\ req' = [q \in Requests |-> req'[q]] /\ \A q \in Requests \ {r} : req'[q] = req[q]
      /\ req'[r] = [pc |-> "refresh", id |-> req[r].id, sent |-> req[r].sent,
                    read |-> << >>, answer |-> Null]
  BY Went DEF CreateCommit, IdsHold
<1>3. req'[r] \in Session
  BY <1>0, <1>2, ApiNumbers DEF Session, Patches
<1>4. RequestsTypeOK'
  <2>1. req' \in [Requests -> Session]
    BY <1>2, <1>3, SessionKept DEF IdsHold
  <2>2. req[r].id \in 1..MaxId
    BY <1>0, ApiNumbers
  <2>3. DOMAIN items' \subseteq 1..MaxId
    BY <1>1, <2>2 DEF IdsHold, RequestsTypeOK
  <2>4. \A i \in DOMAIN items' : items'[i] \in Rows
    BY <1>0, <1>1 DEF IdsHold, RequestsTypeOK
  <2> QED
    BY <1>0, <2>1, <2>3, <2>4 DEF IdsHold, RequestsTypeOK
<1>5. \A q \in Requests \ {r} : req[q].pc = "flushed" => req[q].id # req[r].id
  BY <1>0 DEF IdsHold, Uncommitted
<1>6. Uncommitted'
  BY <1>0, <1>1, <1>2, <1>5 DEF IdsHold, Uncommitted
<1>7. Known'
  BY <1>0, <1>2, <1>5, ApiNumbers DEF IdsHold, Known
<1>8. ErrorMeansGone'
  <2>1. \A q \in Requests : req[q].answer = 500 => req[q].id # req[r].id
    BY <1>0 DEF IdsHold, Known
  <2> QED
    BY <1>1, <1>2, <2>1, ApiNumbers DEF IdsHold, ErrorMeansGone
<1>9. Patching' /\ Counting'
  BY <1>0, <1>2 DEF IdsHold, Patching, Counting, AllRead
<1> QED
  BY <1>4, <1>6, <1>7, <1>8, <1>9 DEF IdsHold

\* Nothing becomes uncommitted, and the table's rows keep their types.
LEMMA IdsOther ==
  ASSUME IdsHold, NEW r \in Requests,
         UNCHANGED <<lastId, total>>, scan' \in Reader,
         scan'.offset = scan.offset,
         DOMAIN items' \subseteq DOMAIN items, \A i \in DOMAIN items' : items'[i] \in Rows,
         req' = [q \in Requests |-> req'[q]], \A q \in Requests \ {r} : req'[q] = req[q],
         req'[r] \in Session, req[r].pc # "flushed", req'[r].pc # "flushed",
         req'[r].pc \in {"refresh", "patch", "delete"} \/ req'[r].answer = 500 =>
           \/ req'[r].id \in DOMAIN items
           \/ req'[r].id = req[r].id /\ req[r].pc \in {"refresh", "patch", "delete"},
         req'[r].pc = "patch" => req'[r].sent \in Patches /\ req'[r].read \in Rows,
         req'[r].answer = 500 => req'[r].id \notin DOMAIN items'
  PROVE  IdsHold'
<1>1. RequestsTypeOK'
  <2>1. req' \in [Requests -> Session]
    BY SessionKept DEF IdsHold
  <2>2. DOMAIN items' \subseteq 1..MaxId
    BY DEF IdsHold, RequestsTypeOK
  <2> QED
    BY <2>1, <2>2 DEF IdsHold, RequestsTypeOK
<1>2. \A q \in Requests : req'[q].pc = "flushed" => q # r /\ req'[q] = req[q]
  OBVIOUS
<1>3. Uncommitted'
  BY <1>2 DEF IdsHold, Uncommitted
<1>4. \A i \in DOMAIN items : i \in 1..lastId /\ \A q \in Requests : req[q].pc = "flushed" => req[q].id # i
  BY DEF IdsHold, Uncommitted
<1>5. Known'
  BY <1>2, <1>4 DEF IdsHold, Known
<1>6. Patching' /\ ErrorMeansGone' /\ Counting'
  BY DEF IdsHold, Patching, ErrorMeansGone, Counting, AllRead
<1> QED
  BY <1>1, <1>3, <1>5, <1>6 DEF IdsHold

LEMMA IdsRefresh ==
  ASSUME IdsHold, NEW r \in Requests, RefreshItem(r)
  PROVE  IdsHold'
<1>0. req[r].pc = "refresh" /\ UNCHANGED <<items, lastId, scan, total>> /\ req[r] \in Session
  BY DEF RefreshItem, IdsHold, RequestsTypeOK
<1>1. PICK code \in {200, 500} : /\ Answer(r, code)
                                 /\ code = 500 => req[r].id \notin DOMAIN items
  BY DEF RefreshItem
<1>2. /\ req' = [q \in Requests |-> req'[q]] /\ \A q \in Requests \ {r} : req'[q] = req[q]
      /\ req'[r] = [pc |-> "over", id |-> req[r].id, sent |-> req[r].sent,
                    read |-> req[r].read, answer |-> code]
  BY <1>1, Answered DEF IdsHold
<1>3. req'[r] \in Session
  BY <1>0, <1>2 DEF Session
<1> QED
  BY <1>0, <1>1, <1>2, <1>3, IdsOther DEF IdsHold, RequestsTypeOK

LEMMA IdsRead ==
  ASSUME IdsHold, NEW r \in Requests, NEW id \in 1..MaxId,
         NEW pc \in {"patch", "delete"}, NEW sent \in {<< >>} \cup Patches,
         pc = "patch" => sent \in Patches, Read(r, id, pc, sent)
  PROVE  IdsHold'
<1>0. req[r].pc = "idle" /\ UNCHANGED <<items, lastId, scan, total>> /\ req[r] \in Session
  BY DEF Read, IdsHold, RequestsTypeOK
<1>1. CASE id \in DOMAIN items
  <2>1. /\ req' = [q \in Requests |-> req'[q]] /\ \A q \in Requests \ {r} : req'[q] = req[q]
        /\ req'[r] = [pc |-> pc, id |-> id, sent |-> sent, read |-> items[id], answer |-> Null]
    BY <1>1, Went DEF Read, IdsHold
  <2>2. items[id] \in Rows /\ id \in 0..MaxId
    BY <1>1, ApiNumbers DEF IdsHold, RequestsTypeOK
  <2>3. req'[r] \in Session
    BY <2>1, <2>2 DEF Session
  <2> QED
    BY <1>0, <1>1, <2>1, <2>2, <2>3, ApiNumbers, IdsOther DEF IdsHold, RequestsTypeOK
<1>2. CASE id \notin DOMAIN items
  <2>1. /\ req' = [q \in Requests |-> req'[q]] /\ \A q \in Requests \ {r} : req'[q] = req[q]
        /\ req'[r] = [pc |-> "over", id |-> req[r].id, sent |-> req[r].sent,
                      read |-> req[r].read, answer |-> 404]
    BY <1>2, Answered DEF Read, IdsHold
  <2>2. req'[r] \in Session
    BY <1>0, <2>1 DEF Session
  <2> QED
    BY <1>0, <2>1, <2>2, IdsOther DEF IdsHold, RequestsTypeOK
<1> QED
  BY <1>1, <1>2

\* What an UPDATE names was sent, and is of its field's type.
LEMMA ChangedIs ==
  ASSUME IdsHold, NEW r \in Requests, req[r].pc = "patch"
  PROVE  /\ DOMAIN Changed(r) \subseteq Fields
         /\ \A f \in DOMAIN Changed(r) : f \in DOMAIN req[r].sent /\ Changed(r)[f] = req[r].sent[f]
         /\ "name" \in DOMAIN Changed(r) => Changed(r)["name"] \in Names
         /\ "description" \in DOMAIN Changed(r) => Changed(r)["description"] \in Texts \cup {Null}
<1>1. req[r].sent \in Patches
  BY DEF IdsHold, Patching
<1>2. \A p \in Patches : /\ DOMAIN p \subseteq Fields
                         /\ "name" \in DOMAIN p => p["name"] \in Names
                         /\ "description" \in DOMAIN p => p["description"] \in Texts \cup {Null}
  BY DEF Patches, Fields, Rows
<1> QED
  BY <1>1, <1>2 DEF Changed

LEMMA UpdatedType ==
  ASSUME IdsHold, NEW r \in Requests, req[r].pc = "patch", NEW row \in Rows
  PROVE  Updated(row, Changed(r)) \in Rows
<1>1. row.name \in Names /\ row.description \in Texts \cup {Null}
  BY DEF Rows
<1> QED
  BY <1>1, ChangedIs DEF Updated, Rows

LEMMA IdsPatch ==
  ASSUME IdsHold, NEW r \in Requests, PatchCommit(r)
  PROVE  IdsHold'
<1> DEFINE changed == Changed(r)
           id == req[r].id
<1>0. /\ req[r].pc = "patch" /\ UNCHANGED <<lastId, scan, total>> /\ req[r] \in Session
      /\ scan \in Reader
  BY DEF PatchCommit, IdsHold, RequestsTypeOK
<1>1. \/ id \notin DOMAIN items /\ Answer(r, 500) /\ UNCHANGED items
      \/ Answer(r, 409) /\ UNCHANGED items
      \/ /\ Go(r, "refresh", id, req[r].sent, req[r].read)
         /\ items' = [i \in DOMAIN items |-> IF i = id THEN Updated(items[i], changed) ELSE items[i]]
  BY DEF PatchCommit, Refused
<1> HIDE DEF changed
<1>2. \A i \in DOMAIN items : items[i] \in Rows /\ Updated(items[i], changed) \in Rows
  BY <1>0, UpdatedType DEF IdsHold, RequestsTypeOK, changed
<1>3. DOMAIN items' = DOMAIN items /\ \A i \in DOMAIN items' : items'[i] \in Rows
  BY <1>1, <1>2
<1>4. /\ req' = [q \in Requests |-> req'[q]] /\ \A q \in Requests \ {r} : req'[q] = req[q]
      /\ \/ /\ id \notin DOMAIN items
            /\ req'[r] = [pc |-> "over", id |-> req[r].id, sent |-> req[r].sent,
                          read |-> req[r].read, answer |-> 500]
         \/ req'[r] = [pc |-> "over", id |-> req[r].id, sent |-> req[r].sent,
                       read |-> req[r].read, answer |-> 409]
         \/ req'[r] = [pc |-> "refresh", id |-> req[r].id, sent |-> req[r].sent,
                       read |-> req[r].read, answer |-> Null]
  BY <1>1, Went, Answered DEF IdsHold
<1>5. req'[r] \in Session
  BY <1>0, <1>4 DEF Session
<1>6. req'[r].answer = 500 => req'[r].id \notin DOMAIN items'
  BY <1>3, <1>4, ApiNumbers
<1>7. req'[r].id = req[r].id /\ req'[r].pc \in {"over", "refresh"}
  BY <1>4
<1> QED
  BY <1>0, <1>3, <1>4, <1>5, <1>6, <1>7, IdsOther

LEMMA IdsDelete ==
  ASSUME IdsHold, NEW r \in Requests, DeleteCommit(r)
  PROVE  IdsHold'
<1>0. /\ req[r].pc = "delete" /\ UNCHANGED <<lastId, total>> /\ req[r] \in Session
      /\ DOMAIN items' = DOMAIN items \ {req[r].id}
      /\ \A i \in DOMAIN items' : items'[i] = items[i]
      /\ Answer(r, 204)
  BY DEF DeleteCommit, IdsHold, RequestsTypeOK
<1>1. /\ req' = [q \in Requests |-> req'[q]] /\ \A q \in Requests \ {r} : req'[q] = req[q]
      /\ req'[r] = [pc |-> "over", id |-> req[r].id, sent |-> req[r].sent,
                    read |-> req[r].read, answer |-> 204]
  BY <1>0, Answered DEF IdsHold
<1>2. req'[r] \in Session
  BY <1>0, <1>1 DEF Session
<1>3. /\ scan' \in Reader
      /\ scan'.offset = scan.offset
  BY DEF DeleteCommit, IdsHold, RequestsTypeOK, Reader
<1>4. \A i \in DOMAIN items' : items'[i] \in Rows
  BY <1>0 DEF IdsHold, RequestsTypeOK
<1> QED
  BY <1>0, <1>1, <1>2, <1>3, <1>4, ApiNumbers, IdsOther

(***************************************************************************)
(* The reader.  What it owes itself to see has been seen as far as its     *)
(* offset; a row that is committed late only moves the others further.     *)
(***************************************************************************)
Follows ==
  scan.calm /\ scan.offset # Null =>
    /\ scan.owed \subseteq DOMAIN items
    /\ \A i \in scan.owed : scan.offset = AllRead \/ Rank(i) <= scan.offset => i \in scan.seen

LEMMA RequestsKept ==
  ASSUME IdsHold, UNCHANGED <<items, lastId, req>>, scan' \in Reader,
         total' \in {Null} \cup 0..MaxId, Counting'
  PROVE  IdsHold'
<1>1. RequestsTypeOK'
  BY DEF IdsHold, RequestsTypeOK
<1>2. Uncommitted' /\ Known' /\ Patching' /\ ErrorMeansGone'
  BY DEF IdsHold, Uncommitted, Known, Patching, ErrorMeansGone
<1> QED
  BY <1>1, <1>2 DEF IdsHold

LEMMA ReadScan ==
  ASSUME IdsHold, Scan
  PROVE  IdsHold' /\ Follows'
<1>0. /\ UNCHANGED <<items, lastId, req, total>> /\ total = Null
      /\ scan' = [offset |-> 0, seen |-> {}, owed |-> DOMAIN items, calm |-> TRUE]
      /\ DOMAIN items \subseteq 1..MaxId
  BY DEF Scan, IdsHold, Counting, RequestsTypeOK
<1>1. scan' \in Reader
  BY <1>0, ApiNumbers DEF Reader
<1>2. IdsHold'
  BY <1>0, <1>1, RequestsKept DEF Counting
<1>3. \A i \in DOMAIN items : RankIn(DOMAIN items, i) \in 1..Cardinality(DOMAIN items)
  BY <1>0, ListFits, RankFits
<1>4. Cardinality(DOMAIN items) \in Nat
  BY <1>0, ListFits
<1>5. \A i \in DOMAIN items : Rank(i)' = RankIn(DOMAIN items, i)
  BY <1>0 DEF Rank, RankIn, Upto
<1>6. \A i \in DOMAIN items : ~(Rank(i)' <= 0)
  BY <1>3, <1>4, <1>5
<1>7. scan'.offset = 0 /\ scan'.owed = DOMAIN items' /\ 0 # AllRead
  BY <1>0, ApiNumbers
<1>8. Follows'
  BY <1>0, <1>6, <1>7 DEF Follows, AllRead
<1> QED
  BY <1>2, <1>8

LEMMA ReadCount ==
  ASSUME IdsHold, Follows, CountRows
  PROVE  IdsHold' /\ Follows'
<1>0. /\ UNCHANGED <<items, lastId, req, scan>> /\ scan \in Reader
      /\ scan.offset \notin {Null, AllRead} /\ total' = Cardinality(DOMAIN items)
  BY DEF CountRows, IdsHold, RequestsTypeOK
<1>1. total' \in 0..MaxId
  BY <1>0, ListFits DEF IdsHold, RequestsTypeOK
<1>2. Counting'
  BY <1>0 DEF Counting, AllRead
<1>3. Follows'
  BY <1>0 DEF Follows, Rank, AllRead
<1> QED
  BY <1>0, <1>1, <1>2, <1>3, RequestsKept

LEMMA ReadNext ==
  ASSUME IdsHold, Follows, ReadPage
  PROVE  IdsHold' /\ Follows'
<1> DEFINE S == DOMAIN items
           o == scan.offset
           page == Page(o)
           far == IF Cardinality(page) < Limit THEN AllRead ELSE o + Limit
<1>0. /\ UNCHANGED <<items, lastId, req>> /\ total' = Null /\ scan \in Reader
      /\ o \in Nat /\ o # AllRead /\ o # Null
      /\ S \subseteq 1..MaxId
      /\ scan' = [scan EXCEPT !.seen = scan.seen \cup page, !.offset = far]
  BY ApiNumbers DEF ReadPage, IdsHold, Counting, RequestsTypeOK, Reader
<1>1. S \in SUBSET Nat /\ IsFiniteSet(S) /\ Cardinality(S) \in Nat /\ Cardinality(S) <= MaxId
  BY <1>0, ListFits, ApiNumbers
<1>2. Cardinality(page) \in Nat /\ (Cardinality(page) < Limit <=> Cardinality(S) < o + Limit)
  BY <1>0, <1>1, FullPage, RankIs
<1>3. far \in 0..AllRead /\ far # Null
  BY <1>0, <1>1, <1>2, ApiNumbers, ApiAssumption
<1>4. page \subseteq S
  BY DEF Page
<1>5. /\ scan'.seen = scan.seen \cup page /\ scan'.offset = far
      /\ scan'.owed = scan.owed /\ scan'.calm = scan.calm
  BY <1>0 DEF Reader
<1>6. scan' \in Reader
  <2> HIDE DEF far, page
  <2>1. scan.seen \cup page \in SUBSET (1..MaxId)
    BY <1>0, <1>4 DEF Reader
  <2> QED
    BY <1>0, <1>3, <2>1 DEF Reader
<1>7. IdsHold'
  BY <1>0, <1>6, RequestsKept DEF Counting
<1>8. ASSUME scan.calm, NEW i \in scan.owed, far = AllRead \/ Rank(i) <= far
      PROVE  i \in scan.seen \cup page
  <2>1. i \in S
    BY <1>0, <1>8 DEF Follows
  <2>2. Rank(i) \in 1..Cardinality(S)
    BY <1>1, <2>1, RankIs, RankFits
  <2>3. Rank(i) <= o => i \in scan.seen
    BY <1>0, <1>8 DEF Follows
  <2>4. Rank(i) <= o + Limit
    <3>1. CASE Cardinality(page) < Limit
      BY <1>0, <1>1, <1>2, <2>2, <3>1, ApiNumbers
    <3>2. CASE ~(Cardinality(page) < Limit)
      <4>1. far = o + Limit
        BY <3>2
      <4>2. far # AllRead
        BY <1>0, <1>1, <1>2, <3>2, <4>1, ApiNumbers DEF AllRead
      <4> QED
        BY <1>8, <4>1, <4>2
    <3> QED
      BY <3>1, <3>2
  <2>5. Rank(i) > o => i \in page
    BY <1>0, <1>1, <2>1, <2>2, <2>4, ApiNumbers DEF Page
  <2> QED
    BY <1>0, <1>1, <2>2, <2>3, <2>5
<1>9. Follows'
  <2>1. \A i : Rank(i)' = Rank(i)
    BY <1>0 DEF Rank
  <2>2. AllRead' = AllRead
    BY DEF AllRead
  <2> HIDE DEF far, page
  <2> QED
    BY <1>0, <1>5, <1>8, <2>1, <2>2 DEF Follows
<1> QED
  BY <1>7, <1>9

LEMMA FollowsKept ==
  ASSUME IdsHold, IdsHold', Follows, UNCHANGED scan, DOMAIN items \subseteq DOMAIN items'
  PROVE  Follows'
<1>1. IsFiniteSet(DOMAIN items')
  <2>1. DOMAIN items' \in SUBSET (1..MaxId)
    BY DEF IdsHold, RequestsTypeOK
  <2> QED
    BY <2>1, ListFits
<1>2. \A i : Rank(i) \in Nat /\ Rank(i)' \in Nat /\ Rank(i) <= Rank(i)'
  <2>1. \A i : Rank(i) = RankIn(DOMAIN items, i) /\ Rank(i)' = RankIn(DOMAIN items', i)
    BY DEF Rank, RankIn, Upto
  <2> QED
    BY <1>1, <2>1, RankGrows
<1>3. scan \in Reader
  BY DEF IdsHold, RequestsTypeOK
<1>4. scan.offset # Null => scan.offset \in Nat
  BY <1>3, ApiNumbers DEF Reader
<1>5. AllRead' = AllRead
  BY DEF AllRead
<1> SUFFICES ASSUME scan.calm, scan.offset # Null,
                    NEW i \in scan.owed, scan.offset = AllRead \/ Rank(i)' <= scan.offset
             PROVE  i \in scan.seen
  BY <1>5 DEF Follows
<1>6. scan.offset = AllRead \/ Rank(i) <= scan.offset
  BY <1>2, <1>4
<1> QED
  BY <1>6 DEF Follows

\* Writers do not move the reader, and one that deletes ends its calm.
LEMMA FollowsWriters ==
  ASSUME IdsHold, IdsHold', Follows, NEW r \in Requests,
         \/ \E row \in Rows : CreateFlush(r, row)
         \/ CreateCommit(r) \/ RefreshItem(r) \/ PatchCommit(r) \/ DeleteCommit(r)
         \/ \E id \in 1..MaxId : \/ \E sent \in Patches : Read(r, id, "patch", sent)
                                 \/ Read(r, id, "delete", << >>)
  PROVE  Follows'
<1>1. CASE DeleteCommit(r)
  <2>1. scan'.calm = FALSE
    BY <1>1 DEF DeleteCommit, IdsHold, RequestsTypeOK, Reader
  <2> QED
    BY <2>1 DEF Follows
<1>2. CASE ~DeleteCommit(r)
  <2>1. UNCHANGED scan
    BY <1>2 DEF CreateFlush, CreateCommit, RefreshItem, PatchCommit, Read
  <2>2. DOMAIN items \subseteq DOMAIN items'
    BY <1>2 DEF CreateFlush, CreateCommit, RefreshItem, PatchCommit, Read
  <2> QED
    BY <2>1, <2>2, FollowsKept
<1> QED
  BY <1>1, <1>2

LEMMA RequestsStep ==
  ASSUME IdsHold, Follows, [ApiNext]_apiVars
  PROVE  IdsHold' /\ Follows'
<1>1. CASE UNCHANGED apiVars
  <2>1. IdsHold'
    BY <1>1, RequestsKept DEF apiVars, IdsHold, RequestsTypeOK, Counting, AllRead
  <2>2. UNCHANGED scan /\ DOMAIN items \subseteq DOMAIN items'
    BY <1>1 DEF apiVars
  <2> QED
    BY <2>1, <2>2, FollowsKept
<1>2. ASSUME NEW r \in Requests, NEW row \in Rows, CreateFlush(r, row) PROVE IdsHold' /\ Follows'
  BY <1>2, IdsFlush, FollowsWriters
<1>3. ASSUME NEW r \in Requests, CreateCommit(r) PROVE IdsHold' /\ Follows'
  BY <1>3, IdsCommit, FollowsWriters
<1>4. ASSUME NEW r \in Requests, RefreshItem(r) PROVE IdsHold' /\ Follows'
  BY <1>4, IdsRefresh, FollowsWriters
<1>5. ASSUME NEW r \in Requests, PatchCommit(r) PROVE IdsHold' /\ Follows'
  BY <1>5, IdsPatch, FollowsWriters
<1>6. ASSUME NEW r \in Requests, DeleteCommit(r) PROVE IdsHold' /\ Follows'
  BY <1>6, IdsDelete, FollowsWriters
<1>7. ASSUME NEW r \in Requests, NEW id \in 1..MaxId, NEW sent \in Patches,
             Read(r, id, "patch", sent)
      PROVE  IdsHold' /\ Follows'
  <2>1. IdsHold'
    BY <1>7, IdsRead
  <2> QED
    BY <1>7, <2>1, FollowsWriters
<1>8. ASSUME NEW r \in Requests, NEW id \in 1..MaxId, Read(r, id, "delete", << >>)
      PROVE  IdsHold' /\ Follows'
  <2>1. IdsHold'
    BY <1>8, IdsRead
  <2> QED
    BY <1>8, <2>1, FollowsWriters
<1> QED
  BY <1>1, <1>2, <1>3, <1>4, <1>5, <1>6, <1>7, <1>8, ReadScan, ReadCount, ReadNext DEF ApiNext

LEMMA RequestsHold == ApiSpec => [](IdsHold /\ Follows)
<1>1. ApiInit => IdsHold /\ Follows
  BY IdsInit DEF ApiInit, Follows
<1>2. IdsHold /\ Follows /\ [ApiNext]_apiVars => (IdsHold /\ Follows)'
  BY RequestsStep
<1> QED
  BY <1>1, <1>2, PTL DEF ApiSpec

\* Every variable of the requests and their reader keeps its type.
THEOREM TypeCorrect == ApiSpec => []RequestsTypeOK
<1>1. IdsHold => RequestsTypeOK
  BY DEF IdsHold
<1> QED
  BY <1>1, RequestsHold, PTL

\* A request that is answered with a 500 has met an item that is gone, and stays
\* gone: no duplicate is answered with one, however the requests meet.
THEOREM ErrorsAreOfGoneItems == ApiSpec => []ErrorMeansGone
<1>1. IdsHold => ErrorMeansGone
  BY DEF IdsHold
<1> QED
  BY <1>1, RequestsHold, PTL

\* A client that reads page after page misses no item that was there when it
\* began, as long as nothing is deleted, for pages of any size.
THEOREM ReaderSeesAll == ApiSpec => []ScanMissesNothing
<1>1. IdsHold /\ Follows => ScanMissesNothing
  BY ApiNumbers, ApiAssumption DEF Follows, ScanMissesNothing
<1> QED
  BY <1>1, RequestsHold, PTL

LEMMA SentOnly ==
  ASSUME IdsHold, NEW r \in Requests, PatchCommit(r)
  PROVE  OnlySentStep
<1> DEFINE changed == Changed(r)
<1>0. req[r].pc = "patch"
  BY DEF PatchCommit
<1>1. \/ items' = items
      \/ /\ Go(r, "refresh", req[r].id, req[r].sent, req[r].read)
         /\ items' = [i \in DOMAIN items |->
                        IF i = req[r].id THEN Updated(items[i], changed) ELSE items[i]]
  BY DEF PatchCommit
<1> HIDE DEF changed
<1>2. CASE items' = items
  BY <1>2 DEF OnlySentStep
<1>3. ASSUME Go(r, "refresh", req[r].id, req[r].sent, req[r].read),
             NEW id \in DOMAIN items, items'[id] # items[id],
             items'[id] = Updated(items[id], changed),
             NEW f \in Fields, items'[id][f] # items[id][f]
      PROVE  req[r] # req'[r] /\ f \in DOMAIN req[r].sent /\ req[r].sent[f] = items'[id][f]
  <2>1. req'[r].pc = "refresh"
    BY <1>3 DEF Go, Become, IdsHold, RequestsTypeOK
  <2>2. f \in DOMAIN changed /\ items'[id][f] = changed[f]
    BY <1>3 DEF Updated, Fields
  <2> QED
    BY <1>0, <2>1, <2>2, ChangedIs DEF changed
<1> QED
  BY <1>1, <1>2, <1>3 DEF OnlySentStep

\* No commit puts a value into a row that its request was not sent, by a PATCH
\* that another one overtakes too.
THEOREM OnlyTheSentIsWritten == ApiSpec => OnlySentFields
<1>1. ASSUME IdsHold, [ApiNext]_apiVars PROVE [OnlySentStep]_apiVars
  <2>1. CASE UNCHANGED items
    BY <2>1 DEF OnlySentStep
  <2>2. ASSUME NEW r \in Requests, CreateCommit(r) PROVE OnlySentStep
    <3>1. req[r].id \notin DOMAIN items
      BY <1>1, <2>2 DEF CreateCommit, IdsHold, Uncommitted
    <3>2. \A i \in DOMAIN items : items'[i] = items[i]
      BY <2>2, <3>1 DEF CreateCommit
    <3> QED
      BY <3>2 DEF OnlySentStep
  <2>3. ASSUME NEW r \in Requests, DeleteCommit(r) PROVE OnlySentStep
    <3>1. \A i \in DOMAIN items' : items'[i] = items[i]
      BY <2>3 DEF DeleteCommit
    <3> QED
      BY <3>1 DEF OnlySentStep
  <2>4. ASSUME NEW r \in Requests, PatchCommit(r) PROVE OnlySentStep
    BY <1>1, <2>4, SentOnly
  <2> QED
    BY <1>1, <2>1, <2>2, <2>3, <2>4
       DEF ApiNext, apiVars, CreateFlush, RefreshItem, Read, Scan, CountRows, ReadPage
<1>2. IdsHold /\ [ApiNext]_apiVars => [OnlySentStep]_apiVars
  BY <1>1
<1> QED
  BY <1>2, RequestsHold, PTL DEF ApiSpec, OnlySentFields
=============================================================================
