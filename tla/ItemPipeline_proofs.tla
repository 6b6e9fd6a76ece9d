------------------------ MODULE ItemPipeline_proofs ------------------------
(***************************************************************************)
(* Proofs about ItemPipeline, for any number of items, replicas, workers,  *)
(* messages, deliveries and faults.                                        *)
(***************************************************************************)
EXTENDS ItemPipeline, FiniteSetTheorems, TLAPS

LEMMA NoneOutside ==
  /\ None \notin Deliveries
  /\ \A d \in Deliveries : MessageOf(d) \in Messages /\ MessageOf(d).id = d.id /\ d.id \in Ids
  /\ Items \subseteq Ids /\ Junk \cap Items = {}
<1>1. None \notin Deliveries
  BY PipelineAssumption DEF None, Deliveries, Copies
<1> QED
  BY <1>1, PipelineAssumption DEF MessageOf, Messages, Deliveries, Ids

(***************************************************************************)
(* Types                                                                   *)
(***************************************************************************)
LEMMA InitType == ASSUME Init PROVE TypeOK
BY PipelineAssumption DEF Init, TypeOK, MessageState

LEMMA FaultType == ASSUME TypeOK, Fault PROVE faults' \in 0..MaxFaults
BY PipelineAssumption DEF TypeOK, Fault

\* What the operations on a queue leave in it.
LEMMA QueueTypes ==
  ASSUME NEW q \in [Messages -> MessageState], NEW t \in [Messages -> 0..MaxReceive]
  PROVE  /\ \A b \in Batches(q, t) :
              /\ Fly(q, b) \in [Messages -> MessageState]
              /\ Count(t, b) \in [Messages -> 0..MaxReceive]
              /\ Handles(t, b) \in SUBSET Deliveries
              /\ b \subseteq Messages /\ \A m \in b : q[m] = "visible"
         /\ \A d \in Deliveries : Removed(q, t, d) \subseteq [Messages -> MessageState]
<1>1. ASSUME NEW b \in Batches(q, t)
      PROVE  /\ Fly(q, b) \in [Messages -> MessageState]
             /\ Count(t, b) \in [Messages -> 0..MaxReceive]
             /\ Handles(t, b) \in SUBSET Deliveries
             /\ b \subseteq Messages /\ \A m \in b : q[m] = "visible"
  <2>1. \A m \in b : m \in Messages /\ q[m] = "visible" /\ t[m] \in 0..MaxReceive /\ t[m] < MaxReceive
    BY <1>1 DEF Batches, Receivable
  <2>2. Fly(q, b) \in [Messages -> MessageState]
    BY DEF Fly, MessageState
  <2>3. \A m \in b : t[m] + 1 \in 0..MaxReceive /\ t[m] + 1 \in 1..MaxReceive
    BY <2>1, PipelineAssumption
  <2>4. Count(t, b) \in [Messages -> 0..MaxReceive]
    BY <2>3 DEF Count
  <2>5. Handles(t, b) \in SUBSET Deliveries
    BY <2>1, <2>3 DEF Handles, Deliveries, Messages
  <2> QED
    BY <2>1, <2>2, <2>4, <2>5
<1>2. ASSUME NEW d \in Deliveries
      PROVE  Removed(q, t, d) \subseteq [Messages -> MessageState]
  <2>1. MessageOf(d) \in Messages
    BY NoneOutside
  <2> QED
    BY <2>1 DEF Removed, MessageState
<1> QED
  BY <1>1, <1>2

LEMMA PostTypes ==
  ASSUME TypeOK, NEW i, NEW r \in Deliveries \cup {None}
  PROVE  /\ PostMail(i) => mail' \in [Messages -> MessageState]
         /\ PostReport(i, r) => /\ report' \in [Messages -> MessageState]
                                /\ told' \in [Messages -> Deliveries \cup {None}]
<1>0. "visible" \in MessageState
  BY DEF MessageState
<1>1. PostMail(i) => mail' \in [Messages -> MessageState]
  BY <1>0 DEF PostMail, TypeOK
<1>2. PostReport(i, r) => /\ report' \in [Messages -> MessageState]
                          /\ told' \in [Messages -> Deliveries \cup {None}]
  BY <1>0 DEF PostReport, TypeOK
<1> QED
  BY <1>1, <1>2

LEMMA RequestType == ASSUME TypeOK, NEW i \in Items, Request(i) PROVE TypeOK'
<1> USE DEF mails, reports, relay, worker, consumer
<1>1. CASE CreateItem(i)
  BY <1>1 DEF CreateItem, TypeOK
<1>2. CASE DeleteItem(i)
  <2>1. shown' \in [Items -> Deliveries \cup {None}]
    BY <1>2 DEF DeleteItem, TypeOK
  <2>2. row' \in [Items -> {"none", "stored", "deleted"}]
    BY <1>2 DEF DeleteItem, TypeOK
  <2> QED
    BY <1>2, <2>1, <2>2 DEF DeleteItem, TypeOK
<1> QED
  BY <1>1, <1>2 DEF Request

LEMMA QueueType ==
  ASSUME TypeOK, NEW m \in Messages,
         QueueStep(m) \/ MailOvertakes(m) \/ ReportOvertakes(m)
  PROVE  TypeOK'
<1> USE DEF database, mails, reports, relay, worker, consumer, MessageState
<1>1. CASE MailReturns(m) \/ MailDies(m)
  BY <1>1 DEF MailReturns, MailDies, TypeOK
<1>2. CASE ReportReturns(m) \/ ReportDies(m)
  BY <1>2 DEF ReportReturns, ReportDies, TypeOK
<1>3. CASE MailOvertakes(m)
  BY <1>3, FaultType DEF MailOvertakes, TypeOK
<1>4. CASE ReportOvertakes(m)
  BY <1>4, FaultType DEF ReportOvertakes, TypeOK
<1> QED
  BY <1>1, <1>2, <1>3, <1>4 DEF QueueStep

LEMMA MisfireType == ASSUME TypeOK, NEW j \in Junk, Misfire(j) PROVE TypeOK'
BY PostTypes DEF Misfire, TypeOK, database, relay, worker, consumer

LEMMA RollbackType ==
  ASSUME TypeOK, NEW a \in Apis, Rollback(a)
  PROVE  /\ rows' \in [Apis -> SUBSET Items] /\ todo' \in [Apis -> SUBSET Items]
         /\ marked' \in [Apis -> SUBSET Items]
BY DEF Rollback, TypeOK

LEMMA RelayType ==
  ASSUME TypeOK, NEW a \in Apis, RelayStep(a) \/ PassFails(a) \/ ApiDies(a)
  PROVE  TypeOK'
<1> USE DEF database, mails, reports, worker, consumer
<1>1. CASE TakeRows(a)
  <2>1. Oldest(Unlocked, RelayBatch) \subseteq Items
    BY DEF Oldest, Unlocked
  <2> QED
    BY <1>1, <2>1 DEF TakeRows, TypeOK
<1>2. ASSUME NEW i \in Items, SendRow(a, i)
      PROVE  TypeOK'
  <2>1. mail' \in [Messages -> MessageState] /\ faults' \in 0..MaxFaults
    BY <1>2, PostTypes, FaultType DEF SendRow, TypeOK
  <2>2. todo' \in [Apis -> SUBSET Items] /\ marked' \in [Apis -> SUBSET Items]
    BY <1>2 DEF SendRow, TypeOK
  <2> QED
    BY <1>2, <2>1, <2>2 DEF SendRow, TypeOK
<1>3. CASE Commit(a)
  BY <1>3, RollbackType DEF Commit, TypeOK
<1>4. CASE PassFails(a)
  BY <1>4, RollbackType, FaultType DEF PassFails, TypeOK
<1>5. CASE ApiDies(a)
  BY <1>5, RollbackType, FaultType DEF ApiDies, TypeOK
<1> QED
  BY <1>1, <1>2, <1>3, <1>4, <1>5 DEF RelayStep

LEMMA StampType ==
  ASSUME TypeOK, NEW d \in Deliveries, Stamp(d)
  PROVE  receipt' \in [Items -> Deliveries \cup {None}]
BY DEF Stamp, TypeOK

LEMMA LetGoType ==
  ASSUME TypeOK, NEW w \in Workers, LetGo(w)
  PROVE  /\ hand' \in [Workers -> Deliveries \cup {None}]
         /\ step' \in [Workers -> {"poll", "report", "delete"}]
         /\ slip' \in [Workers -> Deliveries \cup {None}]
BY DEF LetGo, TypeOK

\* While a worker reports or deletes, it has a delivery in hand.
Busy == \A w \in Workers : step[w] # "poll" => hand[w] \in Deliveries

LEMMA WorkerType ==
  ASSUME TypeOK, Busy, NEW w \in Workers, WorkerStep(w) \/ WorkerDies(w)
  PROVE  TypeOK'
<1> USE DEF database, mails, reports, relay, consumer
<1>1. CASE ReceiveMail(w)
  <2>1. PICK b \in Batches(mail, mailTries) :
          /\ mail' = Fly(mail, b)
          /\ mailTries' = Count(mailTries, b)
          /\ batch' = [batch EXCEPT ![w] = Handles(mailTries, b)]
    BY <1>1 DEF ReceiveMail
  <2>2. /\ mail' \in [Messages -> MessageState]
        /\ mailTries' \in [Messages -> 0..MaxReceive]
        /\ Handles(mailTries, b) \in SUBSET Deliveries
    BY <2>1, QueueTypes DEF TypeOK
  <2> QED
    BY <1>1, <2>1, <2>2 DEF ReceiveMail, TypeOK
<1>2. ASSUME NEW d \in Deliveries, LeavePoison(w, d)
      PROVE  TypeOK'
  BY <1>2 DEF LeavePoison, TypeOK
<1>3. ASSUME NEW d \in Deliveries, WriteReceipt(w, d)
      PROVE  TypeOK'
  <2>1. receipt' \in [Items -> Deliveries \cup {None}] /\ d.id \in Items
    BY <1>3, StampType DEF WriteReceipt, TypeOK
  <2>2. batch' \in [Workers -> SUBSET Deliveries] /\ faults' \in 0..MaxFaults
    BY <1>3, FaultType DEF WriteReceipt, TypeOK
  <2>3. /\ hand' \in [Workers -> Deliveries \cup {None}]
        /\ step' \in [Workers -> {"poll", "report", "delete"}]
        /\ slip' \in [Workers -> Deliveries \cup {None}]
    <3>1. receipt'[d.id] \in Deliveries \cup {None}
      BY <2>1
    <3>2. \/ /\ step' = [step EXCEPT ![w] = "report"]
             /\ hand' = [hand EXCEPT ![w] = d]
             /\ slip' = [slip EXCEPT ![w] = receipt'[d.id]]
          \/ UNCHANGED <<hand, step, slip>>
      BY <1>3 DEF WriteReceipt
    <3> QED
      BY <3>1, <3>2 DEF TypeOK
  <2> QED
    BY <1>3, <2>1, <2>2, <2>3 DEF WriteReceipt, TypeOK
<1>4. CASE SendReport(w)
  <2>1. /\ report' \in [Messages -> MessageState]
        /\ told' \in [Messages -> Deliveries \cup {None}]
    BY <1>4, PostTypes DEF SendReport, TypeOK
  <2>2. /\ hand' \in [Workers -> Deliveries \cup {None}]
        /\ step' \in [Workers -> {"poll", "report", "delete"}]
        /\ slip' \in [Workers -> Deliveries \cup {None}]
        /\ faults' \in 0..MaxFaults
    BY <1>4, LetGoType, FaultType DEF SendReport, TypeOK
  <2> QED
    BY <1>4, <2>1, <2>2 DEF SendReport, TypeOK
<1>5. CASE DeleteMail(w)
  <2>1. mail' \in [Messages -> MessageState]
    BY <1>5, QueueTypes DEF DeleteMail, TypeOK, Busy
  <2> QED
    BY <1>5, <2>1, LetGoType DEF DeleteMail, TypeOK
<1>6. CASE WorkerDies(w)
  <2>1. mail' \in [Messages -> MessageState]
    BY <1>6, QueueTypes DEF WorkerDies, TypeOK, Busy
  <2> QED
    BY <1>6, <2>1, LetGoType, FaultType DEF WorkerDies, TypeOK
<1> QED
  BY <1>1, <1>2, <1>3, <1>4, <1>5, <1>6 DEF WorkerStep

LEMMA ConsumerType ==
  ASSUME TypeOK, NEW a \in Apis, ConsumerStep(a)
  PROVE  TypeOK'
<1> USE DEF database, mails, reports, relay, worker
<1>1. CASE ReceiveReports(a)
  <2>1. PICK b \in Batches(report, reportTries) :
          /\ report' = Fly(report, b)
          /\ reportTries' = Count(reportTries, b)
          /\ inbox' = [inbox EXCEPT ![a] = Handles(reportTries, b)]
    BY <1>1 DEF ReceiveReports
  <2>2. /\ report' \in [Messages -> MessageState]
        /\ reportTries' \in [Messages -> 0..MaxReceive]
        /\ Handles(reportTries, b) \in SUBSET Deliveries
    BY <2>1, QueueTypes DEF TypeOK
  <2> QED
    BY <1>1, <2>1, <2>2 DEF ReceiveReports, TypeOK
<1>2. ASSUME NEW d \in Deliveries, LeavePoisonReport(a, d)
      PROVE  TypeOK'
  BY <1>2 DEF LeavePoisonReport, TypeOK
<1>3. ASSUME NEW d \in Deliveries, Record(a, d)
      PROVE  TypeOK'
  <2>1. told[MessageOf(d)] \in Deliveries \cup {None}
    BY NoneOutside DEF TypeOK
  <2>2. shown' \in [Items -> Deliveries \cup {None}]
    BY <1>3, <2>1 DEF Record, Project, TypeOK
  <2>3. inbox' \in [Apis -> SUBSET Deliveries]
    BY <1>3 DEF Record, ThreadEnds, TypeOK
  <2>4. up' \in [Apis -> BOOLEAN]
    BY <1>3 DEF Record, ThreadEnds, TypeOK
  <2>5. done' \in [Apis -> Deliveries \cup {None}]
    BY <1>3 DEF Record, ThreadEnds, TypeOK
  <2>6. faults' \in 0..MaxFaults
    BY <1>3, FaultType DEF Record, TypeOK
  <2> QED
    BY <1>3, <2>2, <2>3, <2>4, <2>5, <2>6 DEF Record, TypeOK
<1>4. CASE DeleteReport(a)
  <2>1. done[a] \in Deliveries
    BY <1>4 DEF DeleteReport, TypeOK
  <2>2. report' \in [Messages -> MessageState]
    BY <1>4, <2>1, QueueTypes DEF DeleteReport, TypeOK
  <2>3. /\ inbox' \in [Apis -> SUBSET Deliveries] /\ up' \in [Apis -> BOOLEAN]
        /\ done' \in [Apis -> Deliveries \cup {None}] /\ faults' \in 0..MaxFaults
    BY <1>4, FaultType DEF DeleteReport, ThreadEnds, TypeOK
  <2> QED
    BY <1>4, <2>2, <2>3 DEF DeleteReport, TypeOK
<1> QED
  BY <1>1, <1>2, <1>3, <1>4 DEF ConsumerStep

LEMMA BusyStep == ASSUME TypeOK, Busy, [Next]_vars PROVE Busy'
<1>1. ASSUME NEW w \in Workers, WorkerStep(w) \/ WorkerDies(w)
      PROVE  Busy'
  <2>1. \A v \in Workers \ {w} : step'[v] = step[v] /\ hand'[v] = hand[v]
    BY <1>1 DEF WorkerStep, WorkerDies, ReceiveMail, LeavePoison, WriteReceipt, SendReport,
                DeleteMail, LetGo, TypeOK
  <2>2. step'[w] # "poll" => hand'[w] \in Deliveries
    BY <1>1 DEF WorkerStep, WorkerDies, ReceiveMail, LeavePoison, WriteReceipt, SendReport,
                DeleteMail, LetGo, TypeOK, Busy
  <2> QED
    BY <2>1, <2>2 DEF Busy
<1>2. CASE UNCHANGED <<hand, step>>
  BY <1>2 DEF Busy
<1>3. CASE ~\E w \in Workers : WorkerStep(w) \/ WorkerDies(w)
  BY <1>2, <1>3 DEF Next, Trouble, Request, CreateItem, DeleteItem, RelayStep, TakeRows,
     SendRow, Commit, PassFails, ApiDies, ConsumerStep, ReceiveReports, LeavePoisonReport,
     Record, DeleteReport, QueueStep, MailReturns, MailDies, ReportReturns, ReportDies,
     MailOvertakes, ReportOvertakes, Misfire, vars, worker
<1> QED
  BY <1>1, <1>3

\* Every variable keeps its type whatever fails, dies or is delivered again.
THEOREM TypeCorrect == Spec => [](TypeOK /\ Busy)
<1>1. Init => TypeOK /\ Busy
  BY InitType DEF Init, Busy
<1>2. TypeOK /\ Busy /\ [Next]_vars => (TypeOK /\ Busy)'
  <2>1. TypeOK /\ UNCHANGED vars => TypeOK'
    BY DEF vars, database, mails, reports, relay, worker, consumer, TypeOK
  <2>2. TypeOK /\ Busy /\ Next => TypeOK'
    BY RequestType, QueueType, MisfireType, RelayType, WorkerType, ConsumerType
       DEF Next, Trouble
  <2> QED
    BY <2>1, <2>2, BusyStep
<1> QED
  BY <1>1, <1>2, PTL DEF Spec

(***************************************************************************)
(* Duplicates.  DuplicatesNeedFaults counts what was sent; the invariant   *)
(* Books counts with it what is still going to be sent without any fault:  *)
(* the row a relay will send, the copies that will be delivered (again),   *)
(* the deliveries that will be reported.  No step lets the sum grow but    *)
(* for a fault.  It rests on the row locks (a row is in one relay's hands) *)
(* and on the handles (a delivery is in one worker's hands).               *)
(***************************************************************************)
Marked(i) == \E a \in Apis : i \in marked[a]
Due(i)    == IF outbox[i] = "published" \/ Marked(i) THEN 0 ELSE 1

Coming(m)  == mail[m] = "visible" \/ (mail[m] = "flying" /\ ~HeldMail(m))
Waiting(i) == {m \in Messages : m.id = i /\ Coming(m)}

Unreported(d) == \E w \in Workers : d \in batch[w] \/ (step[w] = "report" /\ d = hand[w])
Owed(i)    == {d \in Deliveries : d.id = i /\ Unreported(d)}

Book(i) ==
  /\ Cardinality(Sent(mail, i)) + Due(i) <= 1 + faults
  /\ Cardinality(Sent(report, i)) + Cardinality(Owed(i)) + Cardinality(Waiting(i)) + Due(i)
       <= 1 + faults
Books == \A i \in Items : Book(i)

RowLocks ==
  /\ \A a \in Apis :
       /\ todo[a] \subseteq rows[a] \ marked[a] /\ marked[a] \subseteq rows[a]
       /\ \A i \in rows[a] : outbox[i] = "pending"
       /\ \A b \in Apis \ {a} : rows[a] \cap rows[b] = {}
  /\ \A i \in Items : row[i] = "none" => outbox[i] = "none"

Held(w) == (batch[w] \cup {hand[w]}) \ {None}
OneHolder == \A w \in Workers :
  /\ step[w] = "poll" => hand[w] = None
  /\ hand[w] \notin batch[w]
  /\ \A d \in Held(w) : d.nth <= mailTries[MessageOf(d)]
  /\ \A v \in Workers \ {w} : Held(v) \cap Held(w) = {}

Accounts == RowLocks /\ OneHolder /\ Books

(* Counting *)

LEMMA CardSub ==
  ASSUME NEW S, IsFiniteSet(S), NEW T, T \subseteq S
  PROVE  /\ IsFiniteSet(T) /\ Cardinality(S) \in Nat /\ Cardinality(T) \in Nat
         /\ Cardinality(T) <= Cardinality(S)
BY FS_Subset, FS_CardinalityType

LEMMA CardAdd ==
  ASSUME NEW S, IsFiniteSet(S), NEW x, NEW T, T \subseteq S \cup {x}
  PROVE  /\ IsFiniteSet(S \cup {x}) /\ Cardinality(S \cup {x}) <= Cardinality(S) + 1
         /\ Cardinality(T) <= Cardinality(S) + 1
<1>1. IsFiniteSet(S \cup {x}) /\ Cardinality(S \cup {x}) <= Cardinality(S) + 1
  <2>1. Cardinality(S) \in Nat
    BY FS_CardinalityType
  <2>2. /\ IsFiniteSet(S \cup {x})
        /\ Cardinality(S \cup {x}) = IF x \in S THEN Cardinality(S) ELSE Cardinality(S) + 1
    BY FS_AddElement, Zenon
  <2> QED
    BY <2>1, <2>2
<1>2. Cardinality(T) <= Cardinality(S \cup {x}) /\ Cardinality(T) \in Nat
      /\ Cardinality(S \cup {x}) \in Nat /\ Cardinality(S) \in Nat
  BY <1>1, CardSub
<1> QED
  BY <1>1, <1>2

LEMMA CardDrop ==
  ASSUME NEW S, IsFiniteSet(S), NEW x \in S, NEW T, T \subseteq S \ {x}
  PROVE  Cardinality(T) + 1 <= Cardinality(S)
<1>1. IsFiniteSet(S \ {x}) /\ Cardinality(S \ {x}) = Cardinality(S) - 1
  BY FS_RemoveElement
<1>2. Cardinality(T) <= Cardinality(S \ {x}) /\ Cardinality(T) \in Nat
      /\ Cardinality(S) \in Nat
  BY <1>1, CardSub
<1> QED
  BY <1>1, <1>2

\* Some elements leave A, and at most their images come to B.
LEMMA CardMoves ==
  ASSUME NEW A, IsFiniteSet(A), NEW B, IsFiniteSet(B), NEW f, NEW M, M \subseteq A,
         NEW A1, A1 \subseteq A \ M, NEW B1, B1 \subseteq B \cup {f[x] : x \in M}
  PROVE  Cardinality(A1) + Cardinality(B1) <= Cardinality(A) + Cardinality(B)
<1> DEFINE F == {f[x] : x \in M}
           g == [x \in M |-> f[x]]
<1>1. IsFiniteSet(M) /\ IsFiniteSet(A \ M)
  BY CardSub
<1>2. IsFiniteSet(F) /\ Cardinality(F) <= Cardinality(M)
  <2>1. g \in Surjection(M, F)
    BY DEF Surjection
  <2> HIDE DEF g, F
  <2> QED
    BY <1>1, <2>1, FS_Surjection
<1>3. Cardinality(A \ M) = Cardinality(A) - Cardinality(M)
  <2>1. A \cap M = M
    OBVIOUS
  <2> QED
    BY <2>1, FS_Difference
<1> HIDE DEF F
<1>4. /\ IsFiniteSet(B \cup F)
      /\ Cardinality(B \cup F) = Cardinality(B) + Cardinality(F) - Cardinality(B \cap F)
  BY <1>2, FS_Union
<1>5. Cardinality(B \cap F) \in Nat
  BY <1>2, CardSub
<1>6. Cardinality(A1) <= Cardinality(A \ M) /\ Cardinality(A1) \in Nat
  BY <1>1, CardSub
<1>7. Cardinality(B1) <= Cardinality(B \cup F) /\ Cardinality(B1) \in Nat
  BY <1>4, CardSub DEF F
<1>8. /\ Cardinality(A) \in Nat /\ Cardinality(B) \in Nat /\ Cardinality(M) \in Nat
      /\ Cardinality(F) \in Nat
  BY <1>1, <1>2, FS_CardinalityType
<1> QED
  BY <1>2, <1>3, <1>4, <1>5, <1>6, <1>7, <1>8

\* About one item there are finitely many messages and deliveries.
LEMMA FinitelyMany ==
  ASSUME NEW i
  PROVE  /\ IsFiniteSet({m \in Messages : m.id = i})
         /\ IsFiniteSet({d \in Deliveries : d.id = i})
<1>0. MaxCopies \in Int /\ MaxReceive \in Int /\ 1 \in Int
  BY PipelineAssumption
<1>1. IsFiniteSet(Copies) /\ IsFiniteSet(1..MaxReceive)
  BY <1>0, FS_Interval DEF Copies
<1>2. IsFiniteSet({m \in Messages : m.id = i})
  <2> DEFINE g == [m \in {m \in Messages : m.id = i} |-> m.copy]
  <2>1. g \in Injection({m \in Messages : m.id = i}, Copies)
    BY DEF Injection, IsInjective, Messages
  <2> HIDE DEF g
  <2> QED
    BY <1>1, <2>1, FS_Injection
<1>3. IsFiniteSet({d \in Deliveries : d.id = i})
  <2> DEFINE g == [d \in {d \in Deliveries : d.id = i} |-> <<d.copy, d.nth>>]
  <2>1. g \in Injection({d \in Deliveries : d.id = i}, Copies \X (1..MaxReceive))
    BY DEF Injection, IsInjective, Deliveries
  <2>2. IsFiniteSet(Copies \X (1..MaxReceive))
    BY <1>1, FS_Product
  <2> HIDE DEF g
  <2> QED
    BY <2>1, <2>2, FS_Injection
<1> QED
  BY <1>2, <1>3

LEMMA BookFinite ==
  ASSUME NEW i
  PROVE  /\ \A q : IsFiniteSet(Sent(q, i)) /\ Cardinality(Sent(q, i)) \in Nat
         /\ IsFiniteSet(Owed(i)) /\ IsFiniteSet(Owed(i)')
         /\ Cardinality(Owed(i)) \in Nat /\ Cardinality(Owed(i)') \in Nat
         /\ IsFiniteSet(Waiting(i)) /\ IsFiniteSet(Waiting(i)')
         /\ Cardinality(Waiting(i)) \in Nat /\ Cardinality(Waiting(i)') \in Nat
         /\ Due(i) \in {0, 1} /\ Due(i)' \in {0, 1}
<1> DEFINE Ms == {m \in Messages : m.id = i}
           Ds == {d \in Deliveries : d.id = i}
<1>1. IsFiniteSet(Ms) /\ IsFiniteSet(Ds)
  BY FinitelyMany
<1>2. /\ \A q : Sent(q, i) \subseteq Ms
      /\ Waiting(i) \subseteq Ms /\ Waiting(i)' \subseteq Ms
      /\ Owed(i) \subseteq Ds /\ Owed(i)' \subseteq Ds
  BY DEF Sent, Waiting, Owed
<1> HIDE DEF Ms, Ds
<1>3. Due(i) \in {0, 1} /\ Due(i)' \in {0, 1}
  BY DEF Due
<1> QED
  BY <1>1, <1>2, <1>3, CardSub

LEMMA AccountsInit == ASSUME Init PROVE Accounts
<1>1. RowLocks
  BY DEF Init, RowLocks
<1>2. OneHolder
  BY DEF Init, OneHolder, Held
<1>3. Books
  <2> SUFFICES ASSUME NEW i \in Items
               PROVE  Book(i)
    BY DEF Books
  <2>1. /\ Sent(mail, i) = {} /\ Sent(report, i) = {} /\ Waiting(i) = {} /\ Owed(i) = {}
        /\ faults = 0
    BY NoneOutside DEF Init, Sent, Waiting, Coming, Owed, Unreported
  <2> QED
    BY <2>1, FS_EmptySet, BookFinite DEF Book
<1> QED
  BY <1>1, <1>2, <1>3 DEF Accounts

(* The row locks *)

LEMMA RollbackLocks ==
  ASSUME TypeOK, RowLocks, NEW a \in Apis, Rollback(a), UNCHANGED row,
         \A i \in Items : outbox'[i] = outbox[i] \/ (i \in marked[a] /\ outbox'[i] = "published")
  PROVE  RowLocks'
<1>1. /\ rows'[a] = {} /\ todo'[a] = {} /\ marked'[a] = {}
      /\ \A b \in Apis \ {a} : rows'[b] = rows[b] /\ todo'[b] = todo[b] /\ marked'[b] = marked[b]
  BY DEF Rollback, TypeOK
<1>2. \A b \in Apis \ {a} : \A i \in rows[b] : i \in Items /\ i \notin marked[a]
  BY DEF RowLocks, TypeOK
<1>3. \A i \in Items : row[i] = "none" => i \notin marked[a]
  BY DEF RowLocks, TypeOK
<1> QED
  BY <1>1, <1>2, <1>3 DEF RowLocks, TypeOK

LEMMA RowLocksStep == ASSUME TypeOK, RowLocks, [Next]_vars PROVE RowLocks'
<1> USE DEF database, mails, reports, relay, worker, consumer
<1>1. ASSUME NEW i \in Items, Request(i)
      PROVE  RowLocks'
  <2>1. /\ UNCHANGED relay
        /\ \A j \in Items : outbox'[j] = outbox[j] \/ (row[j] = "none" /\ outbox'[j] = "pending")
        /\ \A j \in Items : row'[j] = "none" => row[j] = "none" /\ outbox'[j] = outbox[j]
    BY <1>1 DEF Request, CreateItem, DeleteItem, TypeOK
  <2>2. \A a \in Apis : \A j \in rows[a] : j \in Items
    BY DEF TypeOK
  <2> QED
    BY <2>1, <2>2 DEF RowLocks
<1>2. ASSUME NEW a \in Apis, TakeRows(a)
      PROVE  RowLocks'
  <2>1. /\ Oldest(Unlocked, RelayBatch) \subseteq Unlocked
        /\ \A i \in Unlocked : i \in Items /\ outbox[i] = "pending" /\ \A b \in Apis : i \notin rows[b]
    BY DEF Oldest, Unlocked, Locked
  <2>2. /\ rows'[a] = Oldest(Unlocked, RelayBatch) /\ todo'[a] = Oldest(Unlocked, RelayBatch)
        /\ rows[a] = {} /\ UNCHANGED <<marked, row, outbox>>
        /\ \A b \in Apis \ {a} : rows'[b] = rows[b] /\ todo'[b] = todo[b]
    BY <1>2 DEF TakeRows, TypeOK
  <2> QED
    BY <2>1, <2>2 DEF RowLocks
<1>3. ASSUME NEW a \in Apis, NEW i \in Items, SendRow(a, i)
      PROVE  RowLocks'
  <2>1. /\ i \in todo[a] /\ todo'[a] = todo[a] \ {i} /\ UNCHANGED <<rows, row, outbox>>
        /\ marked'[a] \subseteq marked[a] \cup {i}
        /\ \A b \in Apis \ {a} : todo'[b] = todo[b] /\ marked'[b] = marked[b]
    BY <1>3 DEF SendRow, Oldest, TypeOK
  <2> QED
    BY <2>1 DEF RowLocks
<1>4. ASSUME NEW a \in Apis, Commit(a) \/ PassFails(a) \/ ApiDies(a)
      PROVE  RowLocks'
  <2>1. /\ Rollback(a) /\ UNCHANGED row
        /\ \A i \in Items :
             outbox'[i] = outbox[i] \/ (i \in marked[a] /\ outbox'[i] = "published")
    BY <1>4 DEF Commit, PassFails, ApiDies
  <2> QED
    BY <2>1, RollbackLocks
<1>5. CASE UNCHANGED <<row, outbox, relay>>
  BY <1>5 DEF RowLocks
<1>6. CASE \/ \E w \in Workers : WorkerStep(w) \/ WorkerDies(w)
           \/ \E a \in Apis : ConsumerStep(a)
           \/ \E m \in Messages : QueueStep(m) \/ MailOvertakes(m) \/ ReportOvertakes(m)
           \/ \E j \in Junk : Misfire(j)
           \/ UNCHANGED vars
  BY <1>5, <1>6 DEF WorkerStep, WorkerDies, ReceiveMail, LeavePoison, WriteReceipt, SendReport,
     DeleteMail, ConsumerStep, ReceiveReports, LeavePoisonReport, Record, DeleteReport,
     QueueStep, MailReturns, MailDies, ReportReturns, ReportDies, MailOvertakes, ReportOvertakes,
     Misfire, vars
<1> QED
  BY <1>1, <1>2, <1>3, <1>4, <1>6 DEF Next, Trouble, RelayStep

(* The handles *)

LEMMA HeldTypes ==
  ASSUME TypeOK, NEW w \in Workers
  PROVE  /\ Held(w) \subseteq Deliveries /\ batch[w] \subseteq Held(w)
         /\ \A d \in Deliveries : d \in Held(w) <=> d \in batch[w] \/ d = hand[w]
BY NoneOutside DEF Held, TypeOK

\* Whoever lets go of deliveries leaves the others' alone.
LEMMA HolderLess ==
  ASSUME TypeOK, OneHolder, NEW w \in Workers, UNCHANGED mailTries,
         \A v \in Workers \ {w} : batch'[v] = batch[v] /\ hand'[v] = hand[v] /\ step'[v] = step[v],
         Held(w)' \subseteq Held(w), hand'[w] \notin batch'[w],
         step'[w] = "poll" => hand'[w] = None
  PROVE  OneHolder'
<1>1. \A v \in Workers \ {w} : Held(v)' = Held(v)
  BY DEF Held
<1>2. \A v \in Workers : Held(v)' \subseteq Held(v)
  BY <1>1
<1> QED
  BY <1>1, <1>2 DEF OneHolder

LEMMA HolderMore ==
  ASSUME TypeOK, OneHolder, NEW w \in Workers, ReceiveMail(w)
  PROVE  OneHolder'
<1>1. PICK b \in Batches(mail, mailTries) :
        /\ mail' = Fly(mail, b)
        /\ mailTries' = Count(mailTries, b)
        /\ batch' = [batch EXCEPT ![w] = Handles(mailTries, b)]
  BY DEF ReceiveMail
<1>2. /\ batch'[w] = Handles(mailTries, b) /\ UNCHANGED <<hand, step>> /\ step[w] = "poll"
      /\ \A v \in Workers \ {w} : batch'[v] = batch[v]
  BY <1>1 DEF ReceiveMail, TypeOK
<1>3. \A m \in Messages : /\ mailTries[m] \in Nat /\ mailTries'[m] \in Nat
                          /\ mailTries'[m] >= mailTries[m]
                          /\ (m \in b => mailTries'[m] = mailTries[m] + 1)
  BY <1>1, PipelineAssumption DEF Count, TypeOK
<1>4. \A d \in batch'[w] : /\ d \in Deliveries /\ MessageOf(d) \in b
                           /\ d.nth = mailTries[MessageOf(d)] + 1
  <2>1. b \subseteq Messages /\ Handles(mailTries, b) \subseteq Deliveries
    BY QueueTypes DEF TypeOK
  <2>2. \A m \in b : MessageOf([id |-> m.id, copy |-> m.copy, nth |-> mailTries[m] + 1]) = m
    BY <2>1 DEF MessageOf, Messages
  <2> QED
    BY <1>2, <2>1, <2>2 DEF Handles
<1>5. \A v \in Workers : \A d \in Held(v) : /\ d \in Deliveries /\ MessageOf(d) \in Messages
                                            /\ d.nth \in Nat /\ d.nth <= mailTries[MessageOf(d)]
  BY HeldTypes, NoneOutside DEF OneHolder, Deliveries
<1>6. \A d \in batch'[w] : \A v \in Workers : d \notin Held(v)
  BY <1>3, <1>4, <1>5, NoneOutside
<1>7. b \subseteq Messages
  BY QueueTypes DEF TypeOK
<1>8. hand[w] = None /\ Held(w)' \subseteq batch'[w]
  BY <1>2 DEF OneHolder, Held
<1>9. \A v \in Workers \ {w} : Held(v)' = Held(v)
  BY <1>2 DEF Held
<1>10. \A v \in Workers : \A d \in Held(v)' : d.nth <= mailTries'[MessageOf(d)]
  <2>1. \A d \in batch'[w] : d.nth <= mailTries'[MessageOf(d)]
    BY <1>3, <1>4, <1>7
  <2>2. \A v \in Workers : \A d \in Held(v) : d.nth <= mailTries'[MessageOf(d)]
    BY <1>3, <1>5
  <2> QED
    BY <1>8, <1>9, <2>1, <2>2
<1>11. \A v \in Workers : \A u \in Workers \ {v} : Held(v)' \cap Held(u)' = {}
  BY <1>6, <1>8, <1>9 DEF OneHolder
<1>12. \A v \in Workers : (step'[v] = "poll" => hand'[v] = None) /\ hand'[v] \notin batch'[v]
  BY <1>2, <1>4, <1>8, NoneOutside DEF OneHolder
<1> QED
  BY <1>10, <1>11, <1>12 DEF OneHolder

\* A worker that handles a delivery, or dies: what it has in hand afterwards.
LEMMA HandlingKeeps ==
  ASSUME TypeOK, OneHolder, NEW w \in Workers,
         \/ \E d \in Deliveries : LeavePoison(w, d) \/ WriteReceipt(w, d)
         \/ SendReport(w) \/ DeleteMail(w) \/ WorkerDies(w)
  PROVE  /\ UNCHANGED mailTries
         /\ \A v \in Workers \ {w} : batch'[v] = batch[v] /\ hand'[v] = hand[v] /\ step'[v] = step[v]
         /\ Held(w)' \subseteq Held(w) /\ hand'[w] \notin batch'[w]
         /\ step'[w] = "poll" => hand'[w] = None
<1> USE DEF database, mails, reports, relay, consumer
<1>0. /\ batch[w] \subseteq Deliveries /\ None \notin Deliveries
      /\ hand[w] \notin batch[w] /\ (step[w] = "poll" => hand[w] = None)
  BY NoneOutside DEF TypeOK, OneHolder
<1>1. ASSUME NEW d \in Deliveries, LeavePoison(w, d)
      PROVE  /\ UNCHANGED <<mailTries, hand, step>>
             /\ batch'[w] = batch[w] \ {d}
             /\ \A v \in Workers \ {w} : batch'[v] = batch[v]
  BY <1>1 DEF LeavePoison, TypeOK
<1>2. ASSUME NEW d \in Deliveries, WriteReceipt(w, d)
      PROVE  /\ UNCHANGED mailTries
             /\ d \in batch[w] /\ batch'[w] = batch[w] \ {d} /\ step[w] = "poll"
             /\ \/ hand'[w] = d /\ step'[w] = "report"
                \/ hand'[w] = hand[w] /\ step'[w] = step[w]
             /\ \A v \in Workers \ {w} :
                  batch'[v] = batch[v] /\ hand'[v] = hand[v] /\ step'[v] = step[v]
  <2>1. \/ step' = [step EXCEPT ![w] = "report"] /\ hand' = [hand EXCEPT ![w] = d]
        \/ UNCHANGED <<hand, step>>
    BY <1>2 DEF WriteReceipt
  <2> QED
    BY <1>2, <2>1 DEF WriteReceipt, TypeOK
<1>3. ASSUME SendReport(w)
      PROVE  /\ UNCHANGED <<mailTries, batch>>
             /\ \/ hand'[w] = hand[w] /\ step'[w] = "delete"
                \/ hand'[w] = None /\ step'[w] = "poll"
             /\ \A v \in Workers \ {w} : hand'[v] = hand[v] /\ step'[v] = step[v]
  <2>1. \/ step' = [step EXCEPT ![w] = "delete"] /\ UNCHANGED hand
        \/ LetGo(w)
    BY <1>3 DEF SendReport
  <2> QED
    BY <1>3, <2>1 DEF SendReport, LetGo, TypeOK
<1>4. ASSUME DeleteMail(w) \/ WorkerDies(w)
      PROVE  /\ UNCHANGED mailTries /\ batch'[w] \subseteq batch[w]
             /\ hand'[w] = None /\ step'[w] = "poll"
             /\ \A v \in Workers \ {w} :
                  batch'[v] = batch[v] /\ hand'[v] = hand[v] /\ step'[v] = step[v]
  BY <1>4 DEF DeleteMail, WorkerDies, LetGo, TypeOK
<1> QED
  BY <1>0, <1>1, <1>2, <1>3, <1>4 DEF Held

LEMMA OneHolderStep == ASSUME TypeOK, OneHolder, [Next]_vars PROVE OneHolder'
<1> USE DEF database, mails, reports, relay, worker, consumer
<1>1. ASSUME NEW w \in Workers, WorkerStep(w) \/ WorkerDies(w)
      PROVE  OneHolder'
  <2>1. CASE ReceiveMail(w)
    BY <2>1, HolderMore
  <2>2. CASE ~ReceiveMail(w)
    BY <1>1, <2>2, HandlingKeeps, HolderLess DEF WorkerStep
  <2> QED
    BY <2>1, <2>2
<1>2. CASE UNCHANGED <<batch, hand, step, mailTries>>
  <2>1. \A w \in Workers : Held(w)' = Held(w)
    BY <1>2 DEF Held
  <2> QED
    BY <1>2, <2>1 DEF OneHolder
<1>3. CASE ~\E w \in Workers : WorkerStep(w) \/ WorkerDies(w)
  BY <1>2, <1>3 DEF Next, Trouble, Request, CreateItem, DeleteItem, RelayStep, TakeRows,
     SendRow, Commit, PassFails, ApiDies, ConsumerStep, ReceiveReports, LeavePoisonReport,
     Record, DeleteReport, QueueStep, MailReturns, MailDies, ReportReturns, ReportDies,
     MailOvertakes, ReportOvertakes, Misfire, vars
<1> QED
  BY <1>1, <1>3

(* The books *)

\* The sums may grow by one for a fault.
LEMMA BookSums ==
  ASSUME NEW i \in Items, TypeOK, TypeOK', Book(i), NEW n \in {0, 1}, faults' >= faults + n,
         Cardinality(Sent(mail', i)) + Due(i)' <= Cardinality(Sent(mail, i)) + Due(i) + n,
         Cardinality(Sent(report', i)) + Cardinality(Owed(i)') + Cardinality(Waiting(i)') + Due(i)'
           <= Cardinality(Sent(report, i)) + Cardinality(Owed(i)) + Cardinality(Waiting(i))
              + Due(i) + n
  PROVE  Book(i)'
<1>1. faults \in Nat /\ faults' \in Nat
  BY DEF TypeOK
<1>2. Sent(mail, i)' = Sent(mail', i) /\ Sent(report, i)' = Sent(report', i)
  BY DEF Sent
<1> QED
  BY <1>1, <1>2, BookFinite DEF Book

\* Nothing about i is added anywhere.
LEMMA BookLess ==
  ASSUME NEW i \in Items, TypeOK, TypeOK', Book(i), faults' >= faults,
         Sent(mail', i) \subseteq Sent(mail, i), Sent(report', i) \subseteq Sent(report, i),
         Owed(i)' \subseteq Owed(i), Waiting(i)' \subseteq Waiting(i), Due(i)' <= Due(i)
  PROVE  Book(i)'
<1>1. /\ Cardinality(Sent(mail', i)) <= Cardinality(Sent(mail, i))
      /\ Cardinality(Sent(report', i)) <= Cardinality(Sent(report, i))
      /\ Cardinality(Owed(i)') <= Cardinality(Owed(i))
      /\ Cardinality(Waiting(i)') <= Cardinality(Waiting(i))
  BY BookFinite, CardSub
<1>2. faults \in Nat /\ faults' \in Nat
  BY DEF TypeOK
<1> QED
  BY <1>1, <1>2, BookSums, BookFinite

\* What no step unsends.
LEMMA SameSent ==
  ASSUME NEW q, NEW r, NEW i, \A m \in Messages : m.id = i /\ q[m] = "unsent" => r[m] = "unsent"
  PROVE  Sent(r, i) \subseteq Sent(q, i)
BY DEF Sent

\* The copies that wait, when the deliveries of L are let go of; what has been
\* received once more since does not count.
LEMMA WaitingGrows ==
  ASSUME TypeOK, OneHolder, NEW i, NEW L, UNCHANGED mailTries,
         \A m \in Messages : m.id = i => mail'[m] = mail[m] \/ mail'[m] \notin {"visible", "flying"},
         \A w \in Workers : \A d \in batch[w] \cup {hand[w]} :
           \/ d \in batch'[w] \cup {hand'[w]}
           \/ d \in L
           \/ d = None \/ d.nth # mailTries[MessageOf(d)]
  PROVE  Waiting(i)' \subseteq Waiting(i) \cup {MessageOf(d) : d \in {e \in L : e.id = i}}
<1> SUFFICES ASSUME NEW m \in Messages, m.id = i, Coming(m)', ~Coming(m)
             PROVE  \E d \in L : d.id = i /\ m = MessageOf(d)
  BY DEF Waiting
<1>1. mail[m] = "flying" /\ HeldMail(m) /\ ~HeldMail(m)'
  BY DEF Coming
<1>2. PICK w \in Workers, d \in Deliveries :
        MessageOf(d) = m /\ d.nth = mailTries[m] /\ (d \in batch[w] \/ d = hand[w])
  BY <1>1 DEF HeldMail
<1>3. ~(d \in batch'[w] \/ d = hand'[w])
  BY <1>1, <1>2 DEF HeldMail
<1>4. d # None /\ d.id = i
  BY <1>2, NoneOutside
<1> QED
  BY <1>2, <1>3, <1>4

LEMMA PostAdds ==
  ASSUME TypeOK, NEW j, NEW r
  PROVE  /\ PostMail(j) /\ UNCHANGED <<mailTries, batch, hand>> =>
              \E n : \A i : /\ Sent(mail', i) \subseteq Sent(mail, i) \cup {n}
                            /\ Waiting(i)' \subseteq Waiting(i) \cup {n}
                            /\ i # j => /\ Sent(mail', i) \subseteq Sent(mail, i)
                                        /\ Waiting(i)' \subseteq Waiting(i)
         /\ PostReport(j, r) =>
              \E n : \A i : /\ Sent(report', i) \subseteq Sent(report, i) \cup {n}
                            /\ i # j => Sent(report', i) \subseteq Sent(report, i)
<1>1. ASSUME PostMail(j), UNCHANGED <<mailTries, batch, hand>>
      PROVE  \E n : \A i : /\ Sent(mail', i) \subseteq Sent(mail, i) \cup {n}
                           /\ Waiting(i)' \subseteq Waiting(i) \cup {n}
                           /\ i # j => /\ Sent(mail', i) \subseteq Sent(mail, i)
                                       /\ Waiting(i)' \subseteq Waiting(i)
  <2>1. PICK n \in Messages : n.id = j /\ mail' = [mail EXCEPT ![n] = "visible"]
    BY <1>1 DEF PostMail, NextCopy
  <2>2. \A m \in Messages : m # n => mail'[m] = mail[m]
    BY <2>1 DEF TypeOK
  <2>3. \A m \in Messages : HeldMail(m)' <=> HeldMail(m)
    BY <1>1 DEF HeldMail
  <2> QED
    BY <2>1, <2>2, <2>3 DEF Sent, Waiting, Coming
<1>2. ASSUME PostReport(j, r)
      PROVE  \E n : \A i : /\ Sent(report', i) \subseteq Sent(report, i) \cup {n}
                           /\ i # j => Sent(report', i) \subseteq Sent(report, i)
  <2>1. PICK n \in Messages : n.id = j /\ report' = [report EXCEPT ![n] = "visible"]
    BY <1>2 DEF PostReport, NextCopy
  <2>2. \A m \in Messages : m # n => report'[m] = report[m]
    BY <2>1 DEF TypeOK
  <2> QED
    BY <2>1, <2>2 DEF Sent
<1> QED
  BY <1>1, <1>2

LEMMA SameWork ==
  ASSUME NEW i
  PROVE  /\ UNCHANGED <<batch, hand, step>> => Owed(i)' = Owed(i)
         /\ UNCHANGED <<mail, mailTries, batch, hand>> => Waiting(i)' = Waiting(i)
         /\ UNCHANGED <<outbox, marked>> => Due(i)' = Due(i)
BY DEF Owed, Unreported, Waiting, Coming, HeldMail, Due, Marked

LEMMA FaultGrows ==
  ASSUME TypeOK, TypeOK'
  PROVE  /\ Fault => faults' >= faults + 1
         /\ UNCHANGED faults => faults' >= faults
BY DEF Fault, TypeOK

LEMMA BookRequest ==
  ASSUME TypeOK, TypeOK', RowLocks, NEW j \in Items, Request(j), NEW i \in Items, Book(i)
  PROVE  Book(i)'
<1> USE DEF mails, reports, relay, worker
<1>1. /\ UNCHANGED <<mail, mailTries, report, marked, batch, hand, step, faults>>
      /\ outbox'[i] = outbox[i] \/ row[i] = "none"
  BY DEF Request, CreateItem, DeleteItem, TypeOK
<1>2. row[i] = "none" => outbox[i] = "none" /\ ~Marked(i)
  BY DEF RowLocks, Marked
<1>3. Due(i)' <= Due(i)
  BY <1>1, <1>2 DEF Due, Marked
<1>4. Owed(i)' = Owed(i) /\ Waiting(i)' = Waiting(i)
  BY <1>1, SameWork
<1> QED
  BY <1>1, <1>3, <1>4, BookLess, FaultGrows

LEMMA BookSend ==
  ASSUME TypeOK, TypeOK', RowLocks, NEW a \in Apis, NEW j \in Items, SendRow(a, j),
         NEW i \in Items, Book(i)
  PROVE  Book(i)'
<1>1. /\ UNCHANGED <<outbox, mailTries, report, batch, hand, step>>
      /\ j \in todo[a]
      /\ \/ PostMail(j) /\ marked' = [marked EXCEPT ![a] = @ \cup {j}] /\ UNCHANGED faults
         \/ (PostMail(j) \/ UNCHANGED mail) /\ Fault /\ UNCHANGED marked
  BY DEF SendRow, Oldest, database, reports, worker
<1>2. outbox[j] = "pending" /\ ~Marked(j)
  BY <1>1 DEF RowLocks, Marked
<1>3. Owed(i)' = Owed(i) /\ Sent(report', i) = Sent(report, i)
  BY <1>1, SameWork
<1>4. CASE PostMail(j) /\ marked' = [marked EXCEPT ![a] = @ \cup {j}] /\ UNCHANGED faults
  <2>1. PICK n : /\ Sent(mail', i) \subseteq Sent(mail, i) \cup {n}
                 /\ Waiting(i)' \subseteq Waiting(i) \cup {n}
                 /\ i # j => /\ Sent(mail', i) \subseteq Sent(mail, i)
                             /\ Waiting(i)' \subseteq Waiting(i)
    BY <1>1, <1>4, PostAdds
  <2>2. marked'[a] = marked[a] \cup {j} /\ \A b \in Apis \ {a} : marked'[b] = marked[b]
    BY <1>4 DEF TypeOK
  <2>3. CASE i # j
    <3>1. Due(i)' = Due(i)
      BY <1>1, <2>2, <2>3 DEF Due, Marked
    <3> QED
      BY <1>3, <1>4, <2>1, <2>3, <3>1, BookLess, FaultGrows, BookFinite
  <2>4. CASE i = j
    <3>1. Due(i)' = 0 /\ Due(i) = 1
      BY <1>1, <1>2, <2>2, <2>4 DEF Due, Marked
    <3>2. /\ Cardinality(Sent(mail', i)) <= Cardinality(Sent(mail, i)) + 1
          /\ Cardinality(Waiting(i)') <= Cardinality(Waiting(i)) + 1
      BY <2>1, BookFinite, CardAdd
    <3>3. faults' >= faults + 0
      BY <1>4 DEF TypeOK
    <3> QED
      BY <1>3, <3>1, <3>2, <3>3, BookSums, BookFinite
  <2> QED
    BY <2>3, <2>4
<1>5. CASE (PostMail(j) \/ UNCHANGED mail) /\ Fault /\ UNCHANGED marked
  <2>1. Due(i)' = Due(i)
    BY <1>1, <1>5, SameWork
  <2>2. \E n : /\ Sent(mail', i) \subseteq Sent(mail, i) \cup {n}
               /\ Waiting(i)' \subseteq Waiting(i) \cup {n}
    <3>1. CASE PostMail(j)
      BY <1>1, <3>1, PostAdds
    <3>2. CASE UNCHANGED mail
      BY <1>1, <3>2, SameWork
    <3> QED
      BY <1>5, <3>1, <3>2
  <2>3. /\ Cardinality(Sent(mail', i)) <= Cardinality(Sent(mail, i)) + 1
        /\ Cardinality(Waiting(i)') <= Cardinality(Waiting(i)) + 1
    BY <2>2, BookFinite, CardAdd
  <2>4. faults' >= faults + 1
    BY <1>5, FaultGrows
  <2> QED
    BY <1>3, <2>1, <2>3, <2>4, BookSums, BookFinite
<1> QED
  BY <1>1, <1>4, <1>5

LEMMA BookRelay ==
  ASSUME TypeOK, TypeOK', RowLocks, NEW a \in Apis,
         RelayStep(a) \/ PassFails(a) \/ ApiDies(a), NEW i \in Items, Book(i)
  PROVE  Book(i)'
<1> USE DEF database, mails, reports, worker, consumer
<1>1. CASE \E j \in Items : SendRow(a, j)
  BY <1>1, BookSend
<1>2. CASE TakeRows(a)
  BY <1>2, SameWork, BookLess, BookFinite, FaultGrows DEF TakeRows
<1>3. CASE Commit(a)
  <2>1. /\ UNCHANGED <<mail, mailTries, report, batch, hand, step, faults>>
        /\ outbox'[i] = IF i \in marked[a] THEN "published" ELSE outbox[i]
        /\ \A b \in Apis \ {a} : marked'[b] = marked[b]
    BY <1>3 DEF Commit, Rollback, TypeOK
  <2>2. Due(i)' <= Due(i)
    BY <2>1 DEF Due, Marked
  <2>3. Owed(i)' = Owed(i) /\ Waiting(i)' = Waiting(i)
    BY <2>1, SameWork
  <2> QED
    BY <2>1, <2>2, <2>3, BookLess, FaultGrows
<1>4. CASE PassFails(a) \/ ApiDies(a)
  <2>1. UNCHANGED <<mail, mailTries, report, batch, hand, step>> /\ Fault
    BY <1>4 DEF PassFails, ApiDies
  <2>2. Owed(i)' = Owed(i) /\ Waiting(i)' = Waiting(i) /\ faults' >= faults + 1
    BY <2>1, SameWork, FaultGrows
  <2>3. Due(i)' <= Due(i) + 1
    BY BookFinite
  <2> QED
    BY <2>1, <2>2, <2>3, BookSums, BookFinite
<1> QED
  BY <1>1, <1>2, <1>3, <1>4 DEF RelayStep

LEMMA BookQueue ==
  ASSUME TypeOK, TypeOK', NEW m \in Messages,
         QueueStep(m) \/ MailOvertakes(m) \/ ReportOvertakes(m), NEW i \in Items, Book(i)
  PROVE  Book(i)'
<1> USE DEF database, mails, reports, relay, worker
<1>0. /\ UNCHANGED <<outbox, marked, mailTries, batch, hand, step>>
      /\ \A n \in Messages : HeldMail(n)' <=> HeldMail(n)
      /\ \A n \in Messages : n # m => mail'[n] = mail[n] /\ report'[n] = report[n]
      /\ mail[m] = "unsent" => mail'[m] = "unsent"
      /\ report[m] = "unsent" => report'[m] = "unsent"
  <2>1. UNCHANGED <<outbox, marked, mailTries, batch, hand, step>>
    BY DEF QueueStep, MailReturns, MailDies, ReportReturns, ReportDies, MailOvertakes, ReportOvertakes
  <2>2. \A n \in Messages : HeldMail(n)' <=> HeldMail(n)
    BY <2>1 DEF HeldMail
  <2>3. /\ \A n \in Messages : n # m => mail'[n] = mail[n] /\ report'[n] = report[n]
        /\ mail[m] = "unsent" => mail'[m] = "unsent"
        /\ report[m] = "unsent" => report'[m] = "unsent"
    BY DEF QueueStep, MailReturns, MailDies, ReportReturns, ReportDies, MailOvertakes,
           ReportOvertakes, TypeOK
  <2> QED
    BY <2>1, <2>2, <2>3
<1>1. /\ Sent(mail', i) \subseteq Sent(mail, i) /\ Sent(report', i) \subseteq Sent(report, i)
      /\ Owed(i)' = Owed(i) /\ Due(i)' = Due(i)
  <2>1. /\ \A n \in Messages : mail[n] = "unsent" => mail'[n] = "unsent"
        /\ \A n \in Messages : report[n] = "unsent" => report'[n] = "unsent"
    BY <1>0
  <2> QED
    BY <1>0, <2>1, SameSent, SameWork
<1>2. CASE QueueStep(m) \/ ReportOvertakes(m)
  <2>1. /\ faults' >= faults
        /\ Coming(m)' => Coming(m)
    BY <1>0, <1>2, FaultGrows
       DEF QueueStep, MailReturns, MailDies, ReportReturns, ReportDies, ReportOvertakes, Coming,
           TypeOK, Fault
  <2>2. Waiting(i)' \subseteq Waiting(i)
    BY <1>0, <2>1 DEF Waiting, Coming
  <2> QED
    BY <1>1, <2>1, <2>2, BookLess, BookFinite
<1>3. CASE MailOvertakes(m)
  <2>1. faults' >= faults + 1
    BY <1>3, FaultGrows DEF MailOvertakes
  <2>2. Waiting(i)' \subseteq Waiting(i) \cup {m}
    BY <1>0 DEF Waiting, Coming
  <2>3. Cardinality(Waiting(i)') <= Cardinality(Waiting(i)) + 1
    BY <2>2, BookFinite, CardAdd
  <2>4. /\ Cardinality(Sent(mail', i)) <= Cardinality(Sent(mail, i))
        /\ Cardinality(Sent(report', i)) <= Cardinality(Sent(report, i))
    BY <1>1, BookFinite, CardSub
  <2> QED
    BY <1>1, <2>1, <2>3, <2>4, BookSums, BookFinite
<1> QED
  BY <1>2, <1>3

LEMMA BookMisfire ==
  ASSUME TypeOK, TypeOK', NEW j \in Junk, Misfire(j), NEW i \in Items, Book(i)
  PROVE  Book(i)'
<1> USE DEF database, relay, worker
<1>1. /\ UNCHANGED <<outbox, marked, mailTries, batch, hand, step, faults>>
      /\ \/ PostMail(j) /\ UNCHANGED report
         \/ PostReport(j, None) /\ UNCHANGED mail
      /\ i # j
  BY NoneOutside DEF Misfire
<1>2. Owed(i)' = Owed(i) /\ Due(i)' = Due(i) /\ faults' >= faults
  BY <1>1, SameWork, FaultGrows
<1>3. CASE PostMail(j) /\ UNCHANGED report
  <2>1. Sent(mail', i) \subseteq Sent(mail, i) /\ Waiting(i)' \subseteq Waiting(i)
    BY <1>1, <1>3, PostAdds
  <2> QED
    BY <1>2, <1>3, <2>1, BookLess, BookFinite
<1>4. CASE PostReport(j, None) /\ UNCHANGED mail
  <2>1. Sent(report', i) \subseteq Sent(report, i) /\ Waiting(i)' = Waiting(i)
    BY <1>1, <1>4, PostAdds, SameWork
  <2> QED
    BY <1>2, <1>4, <2>1, BookLess, BookFinite
<1> QED
  BY <1>1, <1>3, <1>4

LEMMA BookConsumer ==
  ASSUME TypeOK, TypeOK', NEW a \in Apis, ConsumerStep(a), NEW i \in Items, Book(i)
  PROVE  Book(i)'
<1> USE DEF database, mails, relay, worker
<1>1. /\ UNCHANGED <<outbox, marked, mail, mailTries, batch, hand, step>>
      /\ faults' >= faults
  BY FaultGrows DEF ConsumerStep, ReceiveReports, LeavePoisonReport, Record, DeleteReport,
                    Fault, TypeOK
<1>2. \A m \in Messages : report[m] = "unsent" => report'[m] = "unsent"
  <2>1. ASSUME ReceiveReports(a)
        PROVE  \A m \in Messages : report[m] = "unsent" => report'[m] = "unsent"
    <3>1. PICK b \in Batches(report, reportTries) : report' = Fly(report, b)
      BY <2>1 DEF ReceiveReports
    <3>2. \A m \in b : report[m] = "visible"
      BY <3>1, QueueTypes DEF TypeOK
    <3> QED
      BY <3>1, <3>2 DEF Fly
  <2>2. ASSUME DeleteReport(a)
        PROVE  \A m \in Messages : report[m] = "unsent" => report'[m] = "unsent"
    <3>1. done[a] \in Deliveries /\ MessageOf(done[a]) \in Messages
      BY <2>2, NoneOutside DEF DeleteReport, TypeOK
    <3>2. report' = report \/ report' \in Removed(report, reportTries, done[a])
      BY <2>2 DEF DeleteReport
    <3> QED
      BY <3>1, <3>2 DEF Removed, TypeOK
  <2>3. ConsumerStep(a) => ReceiveReports(a) \/ DeleteReport(a) \/ UNCHANGED report
    BY DEF ConsumerStep, LeavePoisonReport, Record, reports
  <2> QED
    BY <2>1, <2>2, <2>3
<1>3. Owed(i)' = Owed(i) /\ Due(i)' = Due(i) /\ Waiting(i)' = Waiting(i)
  BY <1>1, SameWork
<1>4. Sent(report', i) \subseteq Sent(report, i)
  BY <1>2, SameSent
<1> QED
  BY <1>1, <1>3, <1>4, BookLess, BookFinite

\* A received copy waits no longer, and is owed a report instead.
LEMMA BookReceive ==
  ASSUME TypeOK, TypeOK', OneHolder, NEW w \in Workers, ReceiveMail(w),
         NEW i \in Items, Book(i)
  PROVE  Book(i)'
<1> USE DEF database, reports, relay
<1> DEFINE g == [m \in Messages |-> [id |-> m.id, copy |-> m.copy, nth |-> mailTries[m] + 1]]
<1>1. PICK b \in Batches(mail, mailTries) :
        /\ mail' = Fly(mail, b)
        /\ mailTries' = Count(mailTries, b)
        /\ batch' = [batch EXCEPT ![w] = Handles(mailTries, b)]
  BY DEF ReceiveMail
<1>2. /\ batch'[w] = Handles(mailTries, b) /\ batch[w] = {}
      /\ UNCHANGED <<outbox, marked, report, hand, step, faults>>
      /\ \A v \in Workers \ {w} : batch'[v] = batch[v]
  BY <1>1 DEF ReceiveMail, TypeOK
<1>3. b \subseteq Messages /\ \A m \in b : mail[m] = "visible"
  BY QueueTypes DEF TypeOK
<1>4. /\ \A m \in b : /\ g[m] \in Deliveries /\ MessageOf(g[m]) = m
                      /\ g[m].nth = mailTries'[m] /\ g[m].id = m.id
      /\ Handles(mailTries, b) = {g[m] : m \in b}
  <2>1. Handles(mailTries, b) = {g[m] : m \in b}
    BY <1>3 DEF Handles
  <2>2. Handles(mailTries, b) \subseteq Deliveries
    BY QueueTypes DEF TypeOK
  <2>3. \A m \in b : MessageOf(g[m]) = m /\ g[m].id = m.id /\ g[m].nth = mailTries'[m]
    BY <1>1, <1>3 DEF MessageOf, Messages, Count
  <2> QED
    BY <2>1, <2>2, <2>3
<1> DEFINE M == {m \in b : m.id = i}
<1>5. M \subseteq Waiting(i)
  BY <1>3 DEF Waiting, Coming
<1>6. Owed(i)' \subseteq Owed(i) \cup {g[m] : m \in M}
  <2> HIDE DEF g
  <2>1. ASSUME NEW d \in Deliveries, d.id = i, Unreported(d)', ~Unreported(d)
        PROVE  \E m \in M : d = g[m]
    <3>1. d \in batch'[w]
      BY <1>2, <2>1 DEF Unreported
    <3>2. PICK m \in b : d = g[m]
      BY <1>2, <1>4, <3>1
    <3> QED
      BY <1>4, <2>1, <3>2
  <2> QED
    BY <2>1 DEF Owed
<1>7. Waiting(i)' \subseteq Waiting(i) \ M
  <2> HIDE DEF g
  <2>1. ASSUME NEW m \in b
        PROVE  ~Coming(m)'
    <3>1. g[m] \in batch'[w] /\ g[m] \in Deliveries /\ MessageOf(g[m]) = m
          /\ g[m].nth = mailTries'[m]
      BY <1>2, <1>4
    <3>2. HeldMail(m)'
      BY <3>1 DEF HeldMail
    <3>3. mail'[m] = "flying"
      BY <1>1, <1>3 DEF Fly
    <3> QED
      BY <3>2, <3>3 DEF Coming
  <2>2. ASSUME NEW m \in Messages, m \notin b, Coming(m)'
        PROVE  Coming(m)
    <3>1. mail'[m] = mail[m] /\ mailTries'[m] = mailTries[m]
      BY <1>1, <2>2 DEF Fly, Count
    <3>2. HeldMail(m) => HeldMail(m)'
      BY <1>2, <3>1 DEF HeldMail
    <3> QED
      BY <2>2, <3>1, <3>2 DEF Coming
  <2> QED
    BY <2>1, <2>2 DEF Waiting
<1>8. Cardinality(Waiting(i)') + Cardinality(Owed(i)') <= Cardinality(Waiting(i)) + Cardinality(Owed(i))
  <2> HIDE DEF g, M
  <2> QED
    BY <1>5, <1>6, <1>7, BookFinite, CardMoves
<1>9. Sent(mail', i) \subseteq Sent(mail, i)
  <2>1. \A m \in Messages : mail[m] = "unsent" => mail'[m] = "unsent"
    BY <1>1, <1>3 DEF Fly
  <2> QED
    BY <2>1, SameSent
<1>10. Cardinality(Sent(mail', i)) <= Cardinality(Sent(mail, i))
  BY <1>9, BookFinite, CardSub
<1>11. Sent(report', i) = Sent(report, i) /\ Due(i)' = Due(i) /\ faults' >= faults + 0
  BY <1>2, SameWork DEF TypeOK
<1> HIDE DEF g, M
<1> QED
  BY <1>8, <1>10, <1>11, BookSums, BookFinite

\* Handling one delivery, up to its report.
LEMMA BookHandle ==
  ASSUME TypeOK, TypeOK', OneHolder, NEW w \in Workers, NEW d \in Deliveries,
         LeavePoison(w, d) \/ WriteReceipt(w, d), NEW i \in Items, Book(i)
  PROVE  Book(i)'
<1> USE DEF database, mails, reports, relay
<1>1. /\ UNCHANGED <<outbox, marked, mail, mailTries, report>>
      /\ d \in batch[w] /\ batch'[w] = batch[w] \ {d} /\ step[w] = "poll"
      /\ \A v \in Workers \ {w} : batch'[v] = batch[v] /\ hand'[v] = hand[v] /\ step'[v] = step[v]
  <2>1. CASE LeavePoison(w, d)
    BY <2>1 DEF LeavePoison, TypeOK
  <2>2. CASE WriteReceipt(w, d)
    <3>1. \/ step' = [step EXCEPT ![w] = "report"] /\ hand' = [hand EXCEPT ![w] = d]
          \/ UNCHANGED <<hand, step>>
      BY <2>2 DEF WriteReceipt
    <3> QED
      BY <2>2, <3>1 DEF WriteReceipt, TypeOK
  <2> QED
    BY <2>1, <2>2
<1>2. \/ hand'[w] = d /\ step'[w] = "report" /\ UNCHANGED faults
      \/ hand'[w] = hand[w] /\ step'[w] = "poll" /\ Fault
      \/ hand'[w] = hand[w] /\ step'[w] = "poll" /\ UNCHANGED faults /\ d.id # i
  <2>1. CASE LeavePoison(w, d)
    BY <1>1, <2>1, NoneOutside DEF LeavePoison
  <2>2. CASE WriteReceipt(w, d)
    BY <1>1, <2>2 DEF WriteReceipt, TypeOK
  <2> QED
    BY <2>1, <2>2
<1>3. hand[w] = None
  BY <1>1 DEF OneHolder
<1>4. Owed(i)' \subseteq Owed(i)
  <2>1. ASSUME NEW e \in Deliveries, Unreported(e)'
        PROVE  Unreported(e)
    BY <1>1, <1>2, <2>1 DEF Unreported
  <2> QED
    BY <2>1 DEF Owed
<1>5. /\ Due(i)' = Due(i)
      /\ Sent(mail', i) = Sent(mail, i) /\ Sent(report', i) = Sent(report, i)
  BY <1>1, SameWork
<1>6. CASE hand'[w] = d /\ step'[w] = "report" /\ UNCHANGED faults
  <2>1. Waiting(i)' \subseteq Waiting(i) \cup {MessageOf(e) : e \in {f \in {} : f.id = i}}
    <3>1. \A v \in Workers : \A e \in batch[v] \cup {hand[v]} :
            e \in batch'[v] \cup {hand'[v]} \/ e = None
      BY <1>1, <1>3, <1>6
    <3> QED
      BY <1>1, <3>1, WaitingGrows
  <2>2. Waiting(i)' \subseteq Waiting(i)
    BY <2>1
  <2> QED
    BY <1>4, <1>5, <1>6, <2>2, BookLess, BookFinite, FaultGrows
<1>7. CASE hand'[w] = hand[w]
  <2>1. Waiting(i)' \subseteq Waiting(i) \cup {MessageOf(e) : e \in {f \in {d} : f.id = i}}
    <3>1. \A v \in Workers : \A e \in batch[v] \cup {hand[v]} :
            e \in batch'[v] \cup {hand'[v]} \/ e \in {d}
      BY <1>1, <1>7
    <3> QED
      BY <1>1, <3>1, WaitingGrows
  <2>2. CASE d.id # i /\ UNCHANGED faults
    <3>1. Waiting(i)' \subseteq Waiting(i)
      BY <2>1, <2>2
    <3> QED
      BY <1>4, <1>5, <2>2, <3>1, BookLess, BookFinite, FaultGrows
  <2>3. CASE Fault
    <3>1. Waiting(i)' \subseteq Waiting(i) \cup {MessageOf(d)}
      BY <2>1
    <3>2. /\ Cardinality(Waiting(i)') <= Cardinality(Waiting(i)) + 1
          /\ Cardinality(Owed(i)') <= Cardinality(Owed(i))
          /\ faults' >= faults + 1
      BY <1>4, <2>3, <3>1, BookFinite, CardAdd, CardSub, FaultGrows
    <3> QED
      BY <1>5, <3>2, BookSums, BookFinite
  <2>4. CASE hand'[w] = d
    BY <1>3, <1>7, <2>4, NoneOutside
  <2> QED
    BY <1>2, <2>2, <2>3, <2>4
<1> QED
  BY <1>2, <1>6, <1>7

\* The report takes the place of what it was owed for; what could not be sent
\* is paid for by the fault.
LEMMA BookReport ==
  ASSUME TypeOK, TypeOK', Busy, OneHolder, NEW w \in Workers, SendReport(w),
         NEW i \in Items, Book(i)
  PROVE  Book(i)'
<1> USE DEF database, mails, relay
<1> DEFINE h == hand[w]
<1>1. /\ UNCHANGED <<outbox, marked, mail, mailTries, batch>>
      /\ step[w] = "report" /\ h \in Deliveries
      /\ \A v \in Workers \ {w} : hand'[v] = hand[v] /\ step'[v] = step[v]
      /\ \/ PostReport(h.id, slip[w]) /\ step'[w] = "delete" /\ hand'[w] = h /\ UNCHANGED faults
         \/ /\ PostReport(h.id, slip[w]) \/ UNCHANGED report
            /\ step'[w] = "poll" /\ hand'[w] = None /\ Fault
  BY DEF SendReport, LetGo, Busy, TypeOK
<1> HIDE DEF h
<1>2. Due(i)' = Due(i) /\ Sent(mail', i) = Sent(mail, i)
  BY <1>1, SameWork
<1>3. h \in Held(w) /\ \A v \in Workers \ {w} : h \notin batch[v] /\ h # hand[v]
  <2>1. h \in Held(w)
    BY <1>1, NoneOutside DEF Held, h
  <2>2. \A v \in Workers \ {w} : h \notin Held(v)
    BY <2>1 DEF OneHolder
  <2> QED
    BY <1>1, <2>1, <2>2, HeldTypes
<1>4. h \notin batch[w]
  BY DEF OneHolder, h
<1>5. Owed(i)' \subseteq Owed(i) \ {h}
  <2>1. ASSUME NEW e \in Deliveries, Unreported(e)'
        PROVE  Unreported(e) /\ e # h
    BY <1>1, <1>3, <1>4, <2>1, NoneOutside DEF Unreported
  <2> QED
    BY <2>1 DEF Owed
<1>6. h.id = i => h \in Owed(i)
  BY <1>1 DEF Owed, Unreported, h
<1>7. Cardinality(Owed(i)') <= Cardinality(Owed(i)) - IF h.id = i THEN 1 ELSE 0
  <2>1. CASE h.id = i
    BY <1>5, <1>6, <2>1, BookFinite, CardDrop
  <2>2. CASE h.id # i
    BY <1>5, <2>2, BookFinite, CardSub
  <2> QED
    BY <2>1, <2>2
<1>8. Cardinality(Sent(report', i)) <= Cardinality(Sent(report, i)) + IF h.id = i THEN 1 ELSE 0
  <2>1. CASE PostReport(h.id, slip[w])
    <3>1. PICK n : /\ Sent(report', i) \subseteq Sent(report, i) \cup {n}
                   /\ i # h.id => Sent(report', i) \subseteq Sent(report, i)
      BY <2>1, PostAdds
    <3>2. Cardinality(Sent(report', i)) <= Cardinality(Sent(report, i)) + 1
      BY <3>1, BookFinite, CardAdd
    <3>3. i # h.id => Cardinality(Sent(report', i)) <= Cardinality(Sent(report, i))
      BY <3>1, BookFinite, CardSub
    <3> QED
      BY <3>2, <3>3, BookFinite
  <2>2. CASE UNCHANGED report
    BY <2>2, BookFinite
  <2> QED
    BY <1>1, <2>1, <2>2
<1>9. CASE hand'[w] = h /\ UNCHANGED faults
  <2>1. UNCHANGED hand
    BY <1>1, <1>9 DEF TypeOK, h
  <2>2. Waiting(i)' = Waiting(i) /\ faults' >= faults + 0
    BY <1>1, <1>9, <2>1, SameWork DEF TypeOK
  <2> QED
    BY <1>2, <1>7, <1>8, <2>2, BookSums, BookFinite
<1>10. CASE hand'[w] = None /\ Fault
  <2>1. Waiting(i)' \subseteq Waiting(i) \cup {MessageOf(e) : e \in {f \in {h} : f.id = i}}
    <3>1. \A v \in Workers : \A e \in batch[v] \cup {hand[v]} :
            e \in batch'[v] \cup {hand'[v]} \/ e \in {h}
      BY <1>1 DEF h
    <3> QED
      BY <1>1, <3>1, WaitingGrows
  <2>2. Waiting(i)' \subseteq Waiting(i) \cup {MessageOf(h)}
    BY <2>1
  <2>3. Cardinality(Waiting(i)') <= Cardinality(Waiting(i)) + 1 /\ faults' >= faults + 1
    BY <1>10, <2>2, BookFinite, CardAdd, FaultGrows
  <2> QED
    BY <1>2, <1>7, <1>8, <2>3, BookSums, BookFinite
<1> QED
  BY <1>1, <1>9, <1>10

LEMMA RemovedLess ==
  ASSUME TypeOK, NEW d \in Deliveries, NEW r \in Removed(mail, mailTries, d)
  PROVE  /\ \A m \in Messages : r[m] = mail[m] \/ r[m] = "deleted"
         /\ \A m \in Messages : mail[m] = "unsent" => r[m] = "unsent"
         /\ d.nth = mailTries[MessageOf(d)] => r[MessageOf(d)] \notin {"visible", "flying"}
<1>1. MessageOf(d) \in Messages
  BY NoneOutside
<1>2. \/ r = mail /\ mailTries[MessageOf(d)] # d.nth
      \/ r = [mail EXCEPT ![MessageOf(d)] = IF @ \in {"visible", "flying"} THEN "deleted" ELSE @]
  BY DEF Removed
<1> QED
  BY <1>1, <1>2 DEF TypeOK

\* The message whose delete is due is received no more: it is gone, or its
\* handle is an old one.
LEMMA BookDelete ==
  ASSUME TypeOK, TypeOK', Busy, OneHolder, NEW w \in Workers, DeleteMail(w),
         NEW i \in Items, Book(i)
  PROVE  Book(i)'
<1> USE DEF database, reports, relay
<1> DEFINE h == hand[w]
           L == {e \in {h} : e.nth = mailTries[MessageOf(e)]}
<1>1. /\ UNCHANGED <<outbox, marked, report, mailTries, batch, faults>>
      /\ h \in Deliveries /\ step'[w] = "poll" /\ hand'[w] = None
      /\ \A v \in Workers \ {w} : hand'[v] = hand[v] /\ step'[v] = step[v]
      /\ mail' \in Removed(mail, mailTries, h)
  BY DEF DeleteMail, LetGo, Busy, TypeOK
<1>2. /\ \A m \in Messages : mail'[m] = mail[m] \/ mail'[m] \notin {"visible", "flying"}
      /\ \A m \in Messages : mail[m] = "unsent" => mail'[m] = "unsent"
      /\ h.nth = mailTries[MessageOf(h)] => mail'[MessageOf(h)] \notin {"visible", "flying"}
  BY <1>1, RemovedLess
<1>3. Waiting(i)' \subseteq Waiting(i) \cup {MessageOf(e) : e \in {f \in L : f.id = i}}
  <2>1. \A v \in Workers : \A e \in batch[v] \cup {hand[v]} :
          \/ e \in batch'[v] \cup {hand'[v]}
          \/ e \in L
          \/ e.nth # mailTries[MessageOf(e)]
    BY <1>1
  <2> HIDE DEF L
  <2> QED
    BY <1>1, <1>2, <2>1, WaitingGrows
<1>4. \A e \in L : MessageOf(e) \notin Waiting(i)'
  BY <1>2 DEF Waiting, Coming
<1>5. Waiting(i)' \subseteq Waiting(i)
  <2> HIDE DEF L
  <2> QED
    BY <1>3, <1>4
<1>6. Owed(i)' \subseteq Owed(i)
  <2>1. ASSUME NEW e \in Deliveries, Unreported(e)'
        PROVE  Unreported(e)
    BY <1>1, <2>1 DEF Unreported
  <2> QED
    BY <2>1 DEF Owed
<1>7. /\ Sent(mail', i) \subseteq Sent(mail, i) /\ Sent(report', i) = Sent(report, i)
      /\ Due(i)' = Due(i)
  BY <1>1, <1>2, SameSent, SameWork
<1> QED
  BY <1>1, <1>5, <1>6, <1>7, BookLess, BookFinite, FaultGrows

\* What a dying worker had not reported comes again, unreported; the fault
\* pays for the one delivery that it had.
LEMMA BookDeath ==
  ASSUME TypeOK, TypeOK', Busy, OneHolder, NEW w \in Workers, WorkerDies(w),
         NEW i \in Items, Book(i)
  PROVE  Book(i)'
<1> USE DEF database, reports, relay
<1> DEFINE h == hand[w]
           L == batch[w] \cup {h}
           D == {d \in Deliveries : d.id = i /\ (d \in batch[w] \/ (step[w] = "report" /\ d = h))}
           f == [d \in Deliveries |-> MessageOf(d)]
<1>1. /\ UNCHANGED <<outbox, marked, report, mailTries>> /\ Fault
      /\ step'[w] = "poll" /\ hand'[w] = None /\ batch'[w] = {}
      /\ \A v \in Workers \ {w} : batch'[v] = batch[v] /\ hand'[v] = hand[v] /\ step'[v] = step[v]
      /\ mail' = mail \/ (step[w] = "delete" /\ mail' \in Removed(mail, mailTries, h))
  BY DEF WorkerDies, LetGo, TypeOK
<1>2. /\ batch[w] \subseteq Deliveries
      /\ step[w] \in {"poll", "report", "delete"}
      /\ step[w] = "poll" => h = None
      /\ step[w] # "poll" => h \in Deliveries
  BY DEF TypeOK, OneHolder, Busy
<1>3. /\ \A m \in Messages : mail'[m] = mail[m] \/ mail'[m] \notin {"visible", "flying"}
      /\ \A m \in Messages : mail[m] = "unsent" => mail'[m] = "unsent"
  BY <1>1, <1>2, RemovedLess
<1>4. Waiting(i)' \subseteq Waiting(i) \cup {MessageOf(e) : e \in {d \in L : d.id = i}}
  <2>1. \A v \in Workers : \A e \in batch[v] \cup {hand[v]} :
          e \in batch'[v] \cup {hand'[v]} \/ e \in L
    BY <1>1
  <2> HIDE DEF L
  <2> QED
    BY <1>1, <1>3, <2>1, WaitingGrows
<1>5. Waiting(i)' \subseteq (Waiting(i) \cup {MessageOf(h)}) \cup {f[d] : d \in D}
  <2>1. \A e \in L : e.id = i => e = h \/ (e \in D /\ MessageOf(e) = f[e])
    BY <1>2
  <2> HIDE DEF L, D, f
  <2> QED
    BY <1>4, <2>1
<1>6. D \subseteq Owed(i)
  BY DEF Owed, Unreported
<1>7. Owed(i)' \subseteq Owed(i) \ D
  <2>1. ASSUME NEW e \in Deliveries, Unreported(e)'
        PROVE  Unreported(e) /\ e \notin D
    <3>1. PICK v \in Workers \ {w} : e \in batch[v] \/ (step[v] = "report" /\ e = hand[v])
      BY <1>1, <2>1 DEF Unreported
    <3>2. e \in Held(v)
      BY <3>1, HeldTypes
    <3>3. e \notin Held(w)
      BY <3>2 DEF OneHolder
    <3> QED
      BY <3>1, <3>3, HeldTypes DEF Unreported
  <2> HIDE DEF D
  <2> QED
    BY <2>1 DEF Owed
<1>8. Cardinality(Owed(i)') + Cardinality(Waiting(i)')
        <= Cardinality(Owed(i)) + Cardinality(Waiting(i)) + 1
  <2> DEFINE W == Waiting(i) \cup {MessageOf(h)}
  <2>1. IsFiniteSet(W) /\ Cardinality(W) <= Cardinality(Waiting(i)) + 1
    BY BookFinite, CardAdd
  <2>2. Waiting(i)' \subseteq W \cup {f[d] : d \in D}
    BY <1>5
  <2> HIDE DEF W, D, f
  <2>3. Cardinality(Owed(i)') + Cardinality(Waiting(i)') <= Cardinality(Owed(i)) + Cardinality(W)
    BY <1>6, <1>7, <2>1, <2>2, BookFinite, CardMoves
  <2>4. Cardinality(W) \in Nat
    BY <2>1, FS_CardinalityType
  <2> QED
    BY <2>1, <2>3, <2>4, BookFinite
<1>9. /\ Sent(mail', i) \subseteq Sent(mail, i) /\ Sent(report', i) = Sent(report, i)
      /\ Due(i)' = Due(i) /\ faults' >= faults + 1
  BY <1>1, <1>3, SameSent, SameWork, FaultGrows
<1>10. Cardinality(Sent(mail', i)) <= Cardinality(Sent(mail, i))
  BY <1>9, BookFinite, CardSub
<1> HIDE DEF D, f, L, h
<1> QED
  BY <1>8, <1>9, <1>10, BookSums, BookFinite

LEMMA BookStep ==
  ASSUME TypeOK, TypeOK', Busy, RowLocks, OneHolder, [Next]_vars, NEW i \in Items, Book(i)
  PROVE  Book(i)'
<1>1. CASE \E j \in Items : Request(j)
  BY <1>1, BookRequest
<1>2. CASE \E a \in Apis : RelayStep(a) \/ PassFails(a) \/ ApiDies(a)
  BY <1>2, BookRelay
<1>3. CASE \E a \in Apis : ConsumerStep(a)
  BY <1>3, BookConsumer
<1>4. ASSUME NEW w \in Workers, WorkerStep(w) \/ WorkerDies(w)
      PROVE  Book(i)'
  BY <1>4, BookReceive, BookHandle, BookReport, BookDelete, BookDeath DEF WorkerStep
<1>5. CASE \E m \in Messages : QueueStep(m) \/ MailOvertakes(m) \/ ReportOvertakes(m)
  BY <1>5, BookQueue
<1>6. CASE \E j \in Junk : Misfire(j)
  BY <1>6, BookMisfire
<1>7. CASE UNCHANGED vars
  BY <1>7, SameWork, BookLess, BookFinite, FaultGrows
     DEF vars, database, mails, reports, relay, worker
<1> QED
  BY <1>1, <1>2, <1>3, <1>4, <1>5, <1>6, <1>7 DEF Next, Trouble

\* An item has no more messages in a queue than there were faults, plus one,
\* however many relays, workers and consumers there are.
THEOREM DuplicatesPaidFor == Spec => []DuplicatesNeedFaults
<1>1. Init => Accounts
  BY AccountsInit
<1>2. TypeOK /\ Busy /\ Accounts /\ [Next]_vars /\ TypeOK' => Accounts'
  BY RowLocksStep, OneHolderStep, BookStep DEF Accounts, Books
<1>3. TypeOK /\ Accounts => DuplicatesNeedFaults
  <2> SUFFICES ASSUME TypeOK, Accounts, NEW i \in Items
               PROVE  /\ Cardinality(Sent(mail, i)) <= 1 + faults
                      /\ Cardinality(Sent(report, i)) <= 1 + faults
    BY DEF DuplicatesNeedFaults
  <2> QED
    BY BookFinite DEF Accounts, Books, Book, TypeOK
<1> QED
  BY <1>1, <1>2, <1>3, TypeCorrect, PTL DEF Spec

(***************************************************************************)
(* No item is forgotten, and the API shows the first receipt only: the     *)
(* inductive invariant Traced behind NothingLost and behind the refinement *)
(* of ItemDelivery.                                                        *)
(*                                                                         *)
(* NothingLost is not inductive by itself: that a worker may delete a      *)
(* message, that a relay may commit its marks and that the results         *)
(* consumer may delete a report all rest on what they did before, which    *)
(* the three sides of Traced keep track of.                                *)
(***************************************************************************)
There == {"visible", "flying", "dead"}

Gone(i) == row[i] = "deleted" \/ shown[i] # None
Safe(i) == Gone(i) \/ Alive(report, i)
Kept(i) == Safe(i) \/ Alive(mail, i)
Born(i) == row[i] # "none"

RelaySide ==
  /\ \A i \in Items : outbox[i] # "none" => Born(i)
  /\ \A i \in Items : Born(i) => outbox[i] = "pending" \/ Kept(i)
  /\ \A a \in Apis : \A i \in rows[a] \cup todo[a] \cup marked[a] : Born(i)
  /\ \A a \in Apis : \A i \in marked[a] : Kept(i)

Reporting(w) ==
  /\ hand[w].id \in Items /\ Born(hand[w].id)
  /\ slip[w] = receipt[hand[w].id] /\ slip[w] # None

WorkerSide ==
  /\ \A m \in Messages : m.id \in Items /\ mail[m] # "unsent" => Born(m.id)
  /\ \A w \in Workers : \A d \in batch[w] : d.id \in Items => Born(d.id)
  /\ \A w \in Workers : step[w] # "poll" => Reporting(w)
  /\ \A w \in Workers : step[w] = "delete" => Safe(hand[w].id)

Truthful(m) == Born(m.id) /\ told[m] = receipt[m.id] /\ told[m] # None

ReportSide ==
  /\ \A m \in Messages : m.id \in Items /\ report[m] # "unsent" => Truthful(m)
  /\ \A a \in Apis : \A d \in inbox[a] : report[MessageOf(d)] # "unsent"
  /\ \A a \in Apis : done[a] # None => done[a].id \in Items /\ Gone(done[a].id)

Traced == RelaySide /\ WorkerSide /\ ReportSide

(***************************************************************************)
(* What no step takes back                                                 *)
(***************************************************************************)
\* A step of the queue q that removes no message, or none but those about i.
Keeps(q, r) ==
  \A m \in Messages : /\ q[m] # "unsent" => r[m] # "unsent"
                      /\ q[m] \in There => r[m] \in There
KeepsOthers(q, r, i) ==
  \A m \in Messages : /\ q[m] # "unsent" => r[m] # "unsent"
                      /\ m.id # i /\ q[m] \in There => r[m] \in There

LEMMA QueueKeeps ==
  ASSUME NEW q \in [Messages -> MessageState], NEW t \in [Messages -> 0..MaxReceive]
  PROVE  /\ \A b \in Batches(q, t) : Keeps(q, Fly(q, b))
         /\ \A d \in Deliveries : \A r \in Removed(q, t, d) : KeepsOthers(q, r, d.id)
<1>1. \A b \in Batches(q, t) : Keeps(q, Fly(q, b))
  BY QueueTypes DEF Keeps, Fly, There
<1>2. ASSUME NEW d \in Deliveries, NEW r \in Removed(q, t, d)
      PROVE  KeepsOthers(q, r, d.id)
  <2>1. MessageOf(d) \in Messages /\ MessageOf(d).id = d.id
    BY NoneOutside
  <2>2. \/ r = q
        \/ r = [q EXCEPT ![MessageOf(d)] = IF @ \in {"visible", "flying"} THEN "deleted" ELSE @]
    BY <1>2 DEF Removed
  <2> QED
    BY <2>1, <2>2 DEF KeepsOthers, There
<1> QED
  BY <1>1, <1>2

LEMMA PostKeeps ==
  ASSUME TypeOK, NEW i, NEW r
  PROVE  /\ PostMail(i) =>
              /\ Keeps(mail, mail') /\ Alive(mail', i)
              /\ \A m \in Messages : m.id # i /\ mail'[m] # "unsent" => mail[m] # "unsent"
         /\ PostReport(i, r) =>
              /\ Keeps(report, report') /\ Alive(report', i)
              /\ \A m \in Messages : report[m] # "unsent" => told'[m] = told[m]
              /\ \A m \in Messages :
                   report[m] = "unsent" /\ report'[m] # "unsent" => m.id = i /\ told'[m] = r
<1>1. ASSUME PostMail(i)
      PROVE  /\ Keeps(mail, mail') /\ Alive(mail', i)
             /\ \A m \in Messages : m.id # i /\ mail'[m] # "unsent" => mail[m] # "unsent"
  <2>1. PICK n \in Messages : NextCopy(mail, i, n) /\ mail' = [mail EXCEPT ![n] = "visible"]
    BY <1>1 DEF PostMail
  <2>2. n.id = i /\ mail[n] = "unsent"
    BY <2>1 DEF NextCopy
  <2>3. mail'[n] = "visible" /\ \A m \in Messages : m # n => mail'[m] = mail[m]
    BY <2>1 DEF TypeOK
  <2> QED
    BY <2>2, <2>3 DEF Keeps, There, Alive
<1>2. ASSUME PostReport(i, r)
      PROVE  /\ Keeps(report, report') /\ Alive(report', i)
             /\ \A m \in Messages : report[m] # "unsent" => told'[m] = told[m]
             /\ \A m \in Messages :
                  report[m] = "unsent" /\ report'[m] # "unsent" => m.id = i /\ told'[m] = r
  <2>1. PICK n \in Messages : /\ NextCopy(report, i, n)
                              /\ report' = [report EXCEPT ![n] = "visible"]
                              /\ told' = [told EXCEPT ![n] = r]
    BY <1>2 DEF PostReport
  <2>2. n.id = i /\ report[n] = "unsent"
    BY <2>1 DEF NextCopy
  <2>3. /\ report'[n] = "visible" /\ told'[n] = r
        /\ \A m \in Messages : m # n => report'[m] = report[m] /\ told'[m] = told[m]
    BY <2>1 DEF TypeOK
  <2> QED
    BY <2>2, <2>3 DEF Keeps, There, Alive
<1> QED
  BY <1>1, <1>2

Growth ==
  /\ \A i \in Items : /\ Born(i) => Born(i)'
                      /\ Gone(i) => Gone(i)'
                      /\ Safe(i) => Safe(i)'
                      /\ Kept(i) => Kept(i)'
                      /\ receipt[i] # None => receipt'[i] = receipt[i]
  /\ \A m \in Messages : report[m] # "unsent" => report'[m] # "unsent" /\ told'[m] = told[m]

\* Growth from what happens to the rows and to each queue; a removal from a
\* queue is of something that was safe, or gone, before.
LEMMA GrowthFrom ==
  ASSUME TypeOK,
         \A i \in Items : /\ row[i] # "none" => row'[i] # "none"
                          /\ Gone(i) => Gone(i)'
                          /\ receipt[i] # None => receipt'[i] = receipt[i],
         \/ Keeps(mail, mail')
         \/ \E i : KeepsOthers(mail, mail', i) /\ (i \in Items => Safe(i)),
         \/ Keeps(report, report')
         \/ \E i : KeepsOthers(report, report', i) /\ (i \in Items => Gone(i)),
         \A m \in Messages : report[m] # "unsent" => told'[m] = told[m]
  PROVE  Growth
<1>1. \A i \in Items : Alive(report, i) => Alive(report, i)' \/ Gone(i)
  BY DEF Keeps, KeepsOthers, Alive, There
<1>2. \A i \in Items : Alive(mail, i) => Alive(mail, i)' \/ Safe(i)
  BY DEF Keeps, KeepsOthers, Alive, There
<1>3. \A m \in Messages : report[m] # "unsent" => report'[m] # "unsent"
  BY DEF Keeps, KeepsOthers
<1>4. \A i \in Items : Safe(i) => Safe(i)'
  BY <1>1 DEF Safe
<1>5. \A i \in Items : Kept(i) => Kept(i)'
  BY <1>2, <1>4 DEF Kept
<1> QED
  BY <1>3, <1>4, <1>5 DEF Growth, Born

(***************************************************************************)
(* Sides a step leaves alone                                               *)
(***************************************************************************)
LEMMA RelaySideFrame ==
  ASSUME RelaySide, TypeOK, Growth, UNCHANGED <<outbox, rows, todo, marked>>,
         \A i \in Items : Born(i)' => Born(i)
  PROVE  RelaySide'
BY DEF RelaySide, Growth, TypeOK

LEMMA WorkerSideFrame ==
  ASSUME WorkerSide, TypeOK, Growth, UNCHANGED <<batch, hand, step, slip>>,
         \A m \in Messages : m.id \in Items /\ mail'[m] # "unsent" => Born(m.id)
  PROVE  WorkerSide'
<1>1. \A w \in Workers : step[w] # "poll" => Reporting(w)'
  BY DEF WorkerSide, Reporting, Growth
<1> QED
  BY <1>1 DEF WorkerSide, Reporting, Growth, TypeOK, Deliveries, Ids

LEMMA ReportSideFrame ==
  ASSUME ReportSide, TypeOK, Growth, UNCHANGED <<inbox, done>>,
         \A m \in Messages : m.id \in Items /\ report[m] = "unsent" /\ report'[m] # "unsent"
                               => Truthful(m)'
  PROVE  ReportSide'
<1>1. \A m \in Messages : m.id \in Items /\ report[m] # "unsent" => Truthful(m)'
  BY DEF ReportSide, Truthful, Growth
<1>2. \A a \in Apis : \A d \in inbox[a] : MessageOf(d) \in Messages
  BY NoneOutside DEF TypeOK
<1> QED
  BY <1>1, <1>2 DEF ReportSide, Growth

(***************************************************************************)
(* Each group of steps                                                     *)
(***************************************************************************)
LEMMA InitTraced == ASSUME Init PROVE Traced
<1>1. RelaySide
  BY DEF Init, RelaySide, Born
<1>2. WorkerSide
  BY DEF Init, WorkerSide
<1>3. ReportSide
  BY DEF Init, ReportSide
<1> QED
  BY <1>1, <1>2, <1>3 DEF Traced

LEMMA RequestTraced ==
  ASSUME TypeOK, Traced, NEW i \in Items, Request(i)
  PROVE  Traced'
<1> USE DEF mails, reports, relay, worker, consumer
<1>1. Growth
  <2>1. \A k \in Items : /\ row[k] # "none" => row'[k] # "none"
                         /\ Gone(k) => Gone(k)'
    BY DEF Request, CreateItem, DeleteItem, Gone, TypeOK
  <2>2. UNCHANGED <<receipt, mail, report, told>>
    BY DEF Request, CreateItem, DeleteItem
  <2> QED
    BY <2>1, <2>2, GrowthFrom DEF Keeps
<1>2. RelaySide'
  <2>1. CASE CreateItem(i)
    <3>1. /\ UNCHANGED <<rows, todo, marked>> /\ outbox'[i] = "pending" /\ row'[i] = "stored"
          /\ \A k \in Items \ {i} : outbox'[k] = outbox[k] /\ row'[k] = row[k]
      BY <2>1 DEF CreateItem, TypeOK
    <3>2. \A k \in Items : outbox'[k] # "none" => Born(k)'
      BY <3>1 DEF Traced, RelaySide, Born
    <3>3. \A k \in Items : Born(k)' => outbox'[k] = "pending" \/ Kept(k)'
      BY <1>1, <3>1 DEF Traced, RelaySide, Born, Growth
    <3>4. \A a \in Apis : /\ \A k \in rows'[a] \cup todo'[a] \cup marked'[a] : Born(k)'
                          /\ \A k \in marked'[a] : Kept(k)'
      BY <1>1, <3>1 DEF Traced, RelaySide, Growth, TypeOK
    <3> QED
      BY <3>2, <3>3, <3>4 DEF RelaySide
  <2>2. CASE DeleteItem(i)
    <3>1. UNCHANGED <<outbox, rows, todo, marked>> /\ \A k \in Items : Born(k)' => Born(k)
      BY <2>2 DEF DeleteItem, Born, TypeOK
    <3> QED
      BY <1>1, <3>1, RelaySideFrame DEF Traced
  <2> QED
    BY <2>1, <2>2 DEF Request
<1>3. UNCHANGED <<batch, hand, step, slip, inbox, done, mail, report>>
  BY DEF Request, CreateItem, DeleteItem
<1>4. WorkerSide'
  BY <1>1, <1>3, WorkerSideFrame DEF Traced, WorkerSide
<1>5. ReportSide'
  BY <1>1, <1>3, ReportSideFrame DEF Traced
<1> QED
  BY <1>2, <1>4, <1>5 DEF Traced

\* A transaction of the relay ends: what it marked may be published.
LEMMA RollbackSide ==
  ASSUME RelaySide, TypeOK, Growth, NEW a \in Apis, Rollback(a),
         \A i \in Items : outbox'[i] = outbox[i] \/ (i \in marked[a] /\ outbox'[i] = "published"),
         \A i \in Items : Born(i)' => Born(i)
  PROVE  RelaySide'
<1>1. \A b \in Apis : /\ rows'[b] \subseteq rows[b] /\ todo'[b] \subseteq todo[b]
                      /\ marked'[b] \subseteq marked[b]
  BY DEF Rollback, TypeOK
<1>2. \A b \in Apis : /\ \A k \in rows'[b] \cup todo'[b] \cup marked'[b] : Born(k)'
                      /\ \A k \in marked'[b] : Kept(k)'
  BY <1>1 DEF RelaySide, Growth, TypeOK
<1>3. \A k \in Items : /\ outbox'[k] # "none" => Born(k)'
                       /\ Born(k)' => outbox'[k] = "pending" \/ Kept(k)'
  BY DEF RelaySide, Growth
<1> QED
  BY <1>2, <1>3 DEF RelaySide

LEMMA RelayTraced ==
  ASSUME TypeOK, Traced, NEW a \in Apis, RelayStep(a) \/ PassFails(a)
  PROVE  Traced'
<1> USE DEF database, mails, reports, worker, consumer
<1>1. /\ UNCHANGED <<row, receipt, shown, report, told, batch, hand, step, slip, inbox, done>>
      /\ \/ UNCHANGED mail
         \/ \E i \in Items : SendRow(a, i) /\ PostMail(i)
  BY DEF RelayStep, TakeRows, SendRow, Commit, PassFails
<1>2. Keeps(mail, mail')
  BY <1>1, PostKeeps DEF Keeps
<1>3. Growth
  BY <1>1, <1>2, GrowthFrom DEF Keeps, Gone
<1>4. \A i \in Items : Born(i)' <=> Born(i)
  BY <1>1 DEF Born
<1>5. RelaySide'
  <2>1. CASE TakeRows(a)
    <3>1. Oldest(Unlocked, RelayBatch) \subseteq {i \in Items : outbox[i] = "pending"}
      BY DEF Oldest, Unlocked
    <3>2. \A i \in Oldest(Unlocked, RelayBatch) : Born(i)
      BY <3>1 DEF Traced, RelaySide
    <3>3. /\ UNCHANGED <<outbox, marked>>
          /\ \A b \in Apis : /\ rows'[b] \subseteq rows[b] \cup Oldest(Unlocked, RelayBatch)
                             /\ todo'[b] \subseteq todo[b] \cup Oldest(Unlocked, RelayBatch)
      BY <2>1 DEF TakeRows, TypeOK
    <3>4. \A b \in Apis : \A i \in rows'[b] \cup todo'[b] \cup marked'[b] : Born(i)'
      BY <1>4, <3>1, <3>2, <3>3 DEF Traced, RelaySide, TypeOK
    <3>5. \A b \in Apis : \A i \in marked'[b] : Kept(i)'
      BY <1>3, <3>3 DEF Traced, RelaySide, Growth, TypeOK
    <3>6. \A i \in Items : /\ outbox'[i] # "none" => Born(i)'
                           /\ Born(i)' => outbox'[i] = "pending" \/ Kept(i)'
      BY <1>3, <1>4, <3>3 DEF Traced, RelaySide, Growth
    <3> QED
      BY <3>4, <3>5, <3>6 DEF RelaySide
  <2>2. ASSUME NEW i \in Items, SendRow(a, i)
        PROVE  RelaySide'
    <3>1. i \in todo[a] /\ Born(i)
      BY <2>2 DEF SendRow, Oldest, Traced, RelaySide
    <3>2. /\ UNCHANGED <<outbox, rows>>
          /\ \A b \in Apis : /\ todo'[b] \subseteq todo[b]
                             /\ \/ marked'[b] = marked[b]
                                \/ marked'[b] = marked[b] \cup {i} /\ PostMail(i)
      BY <2>2 DEF SendRow, TypeOK
    <3>3. PostMail(i) => Kept(i)'
      BY PostKeeps DEF Kept
    <3>4. \A b \in Apis : \A k \in rows'[b] \cup todo'[b] \cup marked'[b] : Born(k)'
      BY <1>4, <3>1, <3>2 DEF Traced, RelaySide, TypeOK
    <3>5. \A b \in Apis : \A k \in marked'[b] : Kept(k)'
      BY <1>3, <3>2, <3>3 DEF Traced, RelaySide, Growth, TypeOK
    <3>6. \A k \in Items : /\ outbox'[k] # "none" => Born(k)'
                           /\ Born(k)' => outbox'[k] = "pending" \/ Kept(k)'
      BY <1>3, <1>4, <3>2 DEF Traced, RelaySide, Growth
    <3> QED
      BY <3>4, <3>5, <3>6 DEF RelaySide
  <2>3. CASE Commit(a) \/ PassFails(a)
    BY <1>3, <1>4, <2>3, RollbackSide DEF Traced, Commit, PassFails
  <2> QED
    BY <2>1, <2>2, <2>3 DEF RelayStep
<1>6. WorkerSide'
  <2>1. \A i \in Items : SendRow(a, i) => Born(i)
    BY DEF SendRow, Oldest, Traced, RelaySide
  <2>2. \A m \in Messages : m.id \in Items /\ mail'[m] # "unsent" => Born(m.id)
    BY <1>1, <2>1, PostKeeps DEF Traced, WorkerSide
  <2> QED
    BY <1>1, <1>3, <2>2, WorkerSideFrame DEF Traced
<1>7. ReportSide'
  BY <1>1, <1>3, ReportSideFrame DEF Traced
<1> QED
  BY <1>5, <1>6, <1>7 DEF Traced

LEMMA QueueTraced ==
  ASSUME TypeOK, Traced, NEW m \in Messages,
         QueueStep(m) \/ MailOvertakes(m) \/ ReportOvertakes(m)
  PROVE  Traced'
<1> USE DEF database, mails, reports, relay, worker, consumer
<1>1. /\ UNCHANGED <<row, outbox, receipt, shown, told, rows, todo, marked, batch, hand, step,
                     slip, inbox, done>>
      /\ \/ /\ mail[m] \in There /\ UNCHANGED report
            /\ \E s \in There : mail' = [mail EXCEPT ![m] = s]
         \/ /\ report[m] \in There /\ UNCHANGED mail
            /\ \E s \in There : report' = [report EXCEPT ![m] = s]
  BY DEF QueueStep, MailReturns, MailDies, ReportReturns, ReportDies, MailOvertakes,
         ReportOvertakes, There
<1>2. /\ Keeps(mail, mail') /\ Keeps(report, report')
      /\ \A n \in Messages : /\ mail'[n] # "unsent" => mail[n] # "unsent"
                             /\ report'[n] # "unsent" => report[n] # "unsent"
  BY <1>1 DEF Keeps, There, TypeOK
<1>3. Growth
  BY <1>1, <1>2, GrowthFrom DEF Gone
<1>4. RelaySide'
  BY <1>1, <1>3, RelaySideFrame DEF Traced, Born
<1>5. WorkerSide'
  BY <1>1, <1>2, <1>3, WorkerSideFrame DEF Traced, WorkerSide
<1>6. ReportSide'
  BY <1>1, <1>2, <1>3, ReportSideFrame DEF Traced
<1> QED
  BY <1>4, <1>5, <1>6 DEF Traced

LEMMA MisfireTraced ==
  ASSUME TypeOK, Traced, NEW j \in Junk, Misfire(j)
  PROVE  Traced'
<1> USE DEF database, relay, worker, consumer
<1>1. UNCHANGED <<row, outbox, receipt, shown, rows, todo, marked, batch, hand, step, slip,
                  inbox, done>>
  BY DEF Misfire
<1>2. j \notin Items
  BY NoneOutside
<1>3. /\ Keeps(mail, mail') /\ Keeps(report, report')
      /\ \A m \in Messages : report[m] # "unsent" => told'[m] = told[m]
      /\ \A m \in Messages : m.id \in Items =>
           /\ mail'[m] # "unsent" => mail[m] # "unsent"
           /\ report'[m] # "unsent" => report[m] # "unsent"
  <2>1. CASE PostMail(j) /\ UNCHANGED <<report, told>>
    BY <1>2, <2>1, PostKeeps DEF Keeps
  <2>2. CASE PostReport(j, None) /\ UNCHANGED mail
    BY <1>2, <2>2, PostKeeps DEF Keeps
  <2> QED
    BY <2>1, <2>2 DEF Misfire
<1>4. Growth
  BY <1>1, <1>3, GrowthFrom DEF Gone
<1>5. RelaySide'
  BY <1>1, <1>4, RelaySideFrame DEF Traced, Born
<1>6. WorkerSide'
  BY <1>1, <1>3, <1>4, WorkerSideFrame DEF Traced, WorkerSide
<1>7. ReportSide'
  BY <1>1, <1>3, <1>4, ReportSideFrame DEF Traced
<1> QED
  BY <1>5, <1>6, <1>7 DEF Traced

LEMMA ApiDiesTraced ==
  ASSUME TypeOK, Traced, NEW a \in Apis, ApiDies(a)
  PROVE  Traced'
<1> USE DEF database, mails, reports, worker
<1>1. /\ UNCHANGED <<row, outbox, receipt, shown, mail, report, told, batch, hand, step, slip>>
      /\ Rollback(a)
  BY DEF ApiDies
<1>2. Growth
  BY <1>1, GrowthFrom DEF Keeps, Gone
<1>3. RelaySide'
  BY <1>1, <1>2, RollbackSide DEF Traced, Born
<1>4. WorkerSide'
  BY <1>1, <1>2, WorkerSideFrame DEF Traced, WorkerSide
<1>5. ReportSide'
  <2>1. \A b \in Apis : /\ inbox'[b] \subseteq inbox[b]
                        /\ done'[b] # None => done'[b] = done[b]
    BY DEF ApiDies, TypeOK
  <2>2. \A m \in Messages : Truthful(m)' <=> Truthful(m)
    BY <1>1 DEF Truthful, Born
  <2>3. \A i \in Items : Gone(i)' <=> Gone(i)
    BY <1>1 DEF Gone
  <2> QED
    BY <1>1, <2>1, <2>2, <2>3 DEF Traced, ReportSide
<1> QED
  BY <1>3, <1>4, <1>5 DEF Traced

\* A step of one worker that mails nothing.
LEMMA WorkerSideStep ==
  ASSUME WorkerSide, TypeOK, Growth, NEW w \in Workers,
         \A m \in Messages : mail'[m] # "unsent" => mail[m] # "unsent",
         \A v \in Workers \ {w} : UNCHANGED <<batch[v], hand[v], step[v], slip[v]>>,
         \A d \in batch'[w] : d.id \in Items => Born(d.id),
         step'[w] # "poll" => Reporting(w)',
         step'[w] = "delete" => Safe(hand[w].id)'
  PROVE  WorkerSide'
<1>1. \A m \in Messages : m.id \in Items /\ mail'[m] # "unsent" => Born(m.id)'
  BY DEF WorkerSide, Growth
<1>2. \A v \in Workers : \A d \in batch'[v] : d.id \in Items => Born(d.id)'
  BY DEF WorkerSide, Growth
<1>3. \A v \in Workers : step'[v] # "poll" => Reporting(v)'
  <2>1. ASSUME NEW v \in Workers \ {w}, step'[v] # "poll"
        PROVE  Reporting(v)'
    <3>1. Reporting(v) /\ UNCHANGED <<hand[v], slip[v]>>
      BY <2>1 DEF WorkerSide
    <3> QED
      BY <3>1 DEF Reporting, Growth
  <2> QED
    BY <2>1
<1>4. \A v \in Workers : step'[v] = "delete" => Safe(hand[v].id)'
  <2>1. ASSUME NEW v \in Workers \ {w}, step'[v] = "delete"
        PROVE  Safe(hand[v].id)'
    <3>1. hand'[v] = hand[v] /\ hand[v].id \in Items /\ Safe(hand[v].id)
      BY <2>1 DEF WorkerSide, Reporting
    <3>2. \A i \in Items : i = hand[v].id => Safe(i)'
      BY <3>1 DEF Growth
    <3> QED
      BY <3>1, <3>2 DEF Safe, Gone, Alive
  <2> QED
    BY <2>1
<1> QED
  BY <1>1, <1>2, <1>3, <1>4 DEF WorkerSide

LEMMA WorkerTraced ==
  ASSUME TypeOK, Busy, Traced, NEW w \in Workers, WorkerStep(w) \/ WorkerDies(w)
  PROVE  Traced'
<1> USE DEF mails, relay, consumer
<1>0. UNCHANGED <<row, outbox, shown, rows, todo, marked, inbox, done>>
  BY DEF WorkerStep, WorkerDies, ReceiveMail, LeavePoison, WriteReceipt, SendReport, DeleteMail,
         database
<1>1. ASSUME Growth
      PROVE  RelaySide'
  BY <1>0, <1>1, RelaySideFrame DEF Traced, Born
<1>2. ASSUME Growth, UNCHANGED report
      PROVE  ReportSide'
  BY <1>0, <1>2, ReportSideFrame DEF Traced
<1>3. CASE ReceiveMail(w)
  <2>1. PICK b \in Batches(mail, mailTries) :
          mail' = Fly(mail, b) /\ batch' = [batch EXCEPT ![w] = Handles(mailTries, b)]
    BY <1>3 DEF ReceiveMail
  <2>2. UNCHANGED <<receipt, report, told, hand, step, slip>>
    BY <1>3 DEF ReceiveMail, database, reports
  <2>3. Keeps(mail, mail') /\ \A m \in b : m \in Messages /\ mail[m] = "visible"
    BY <2>1, QueueKeeps, QueueTypes DEF TypeOK
  <2>4. Growth
    BY <1>0, <2>2, <2>3, GrowthFrom DEF Keeps, Gone
  <2>5. \A m \in Messages : mail'[m] # "unsent" => mail[m] # "unsent"
    BY <2>1, <2>3 DEF Fly
  <2>6. \A d \in batch'[w] : d.id \in Items => Born(d.id)
    <3>1. ASSUME NEW m \in b, m.id \in Items
          PROVE  Born(m.id)
      BY <2>3, <3>1 DEF Traced, WorkerSide
    <3>2. \A d \in Handles(mailTries, b) : \E m \in b : d.id = m.id
      BY DEF Handles
    <3> QED
      BY <2>1, <3>1, <3>2 DEF TypeOK
  <2>7. step'[w] = "poll" /\ \A v \in Workers \ {w} : UNCHANGED <<batch[v], hand[v], step[v], slip[v]>>
    BY <1>3, <2>1, <2>2 DEF ReceiveMail, TypeOK
  <2>8. WorkerSide'
    BY <2>4, <2>5, <2>6, <2>7, WorkerSideStep DEF Traced
  <2> QED
    BY <1>1, <1>2, <2>2, <2>4, <2>8 DEF Traced
<1>4. ASSUME NEW d \in Deliveries, LeavePoison(w, d)
      PROVE  Traced'
  <2>1. UNCHANGED <<mail, receipt, report, told, hand, step, slip>>
    BY <1>4 DEF LeavePoison, database, reports
  <2>2. Growth
    BY <1>0, <2>1, GrowthFrom DEF Keeps, Gone
  <2>3. /\ step'[w] = "poll" /\ batch'[w] \subseteq batch[w]
        /\ \A v \in Workers \ {w} : UNCHANGED <<batch[v], hand[v], step[v], slip[v]>>
    BY <1>4, <2>1 DEF LeavePoison, TypeOK
  <2>4. WorkerSide'
    BY <2>1, <2>2, <2>3, WorkerSideStep DEF Traced, WorkerSide
  <2> QED
    BY <1>1, <1>2, <2>1, <2>2, <2>4 DEF Traced
<1>5. ASSUME NEW d \in Deliveries, WriteReceipt(w, d)
      PROVE  Traced'
  <2>1. UNCHANGED <<mail, report, told>> /\ d.id \in Items /\ d \in batch[w] /\ step[w] = "poll"
    BY <1>5 DEF WriteReceipt, reports
  <2>2. /\ \A i \in Items : receipt[i] # None => receipt'[i] = receipt[i]
        /\ Stamp(d) => receipt'[d.id] # None
    BY <1>5, <2>1, NoneOutside DEF WriteReceipt, Stamp, TypeOK
  <2>3. Growth
    BY <1>0, <2>1, <2>2, GrowthFrom DEF Keeps, Gone
  <2>4. /\ batch'[w] \subseteq batch[w]
        /\ \A v \in Workers \ {w} : UNCHANGED <<batch[v], hand[v], step[v], slip[v]>>
        /\ \/ step'[w] = "poll"
           \/ step'[w] = "report" /\ hand'[w] = d /\ slip'[w] = receipt'[d.id] /\ Stamp(d)
    BY <1>5, <2>1 DEF WriteReceipt, TypeOK
  <2>5. Born(d.id)'
    BY <1>0, <2>1 DEF Traced, WorkerSide, Born
  <2>6. step'[w] # "poll" => Reporting(w)'
    BY <2>1, <2>2, <2>4, <2>5 DEF Reporting, Born
  <2>7. WorkerSide'
    BY <2>1, <2>3, <2>4, <2>6, WorkerSideStep DEF Traced, WorkerSide
  <2> QED
    BY <1>1, <1>2, <2>1, <2>3, <2>7 DEF Traced
<1>6. CASE SendReport(w)
  <2>1. UNCHANGED <<mail, receipt, batch>> /\ step[w] = "report"
    BY <1>6 DEF SendReport, database
  <2>2. PostReport(hand[w].id, slip[w]) \/ UNCHANGED <<report, told>>
    BY <1>6 DEF SendReport
  <2>3. Reporting(w)
    BY <2>1 DEF Traced, WorkerSide
  <2>4. Keeps(report, report') /\ \A m \in Messages : report[m] # "unsent" => told'[m] = told[m]
    BY <2>2, PostKeeps DEF Keeps
  <2>5. Growth
    BY <1>0, <2>1, <2>4, GrowthFrom DEF Keeps, Gone
  <2>6. \A m \in Messages :
          m.id \in Items /\ report[m] = "unsent" /\ report'[m] # "unsent" => Truthful(m)'
    <3>1. ASSUME NEW m \in Messages, report[m] = "unsent", report'[m] # "unsent"
          PROVE  m.id = hand[w].id /\ told'[m] = slip[w]
      BY <2>2, <3>1, PostKeeps
    <3> QED
      BY <1>0, <2>1, <2>3, <3>1 DEF Truthful, Reporting, Born
  <2>7. ReportSide'
    BY <1>0, <2>5, <2>6, ReportSideFrame DEF Traced
  <2>8. /\ \A v \in Workers \ {w} : UNCHANGED <<batch[v], hand[v], step[v], slip[v]>>
        /\ \/ step'[w] = "poll"
           \/ /\ step'[w] = "delete" /\ hand'[w] = hand[w] /\ slip'[w] = slip[w]
              /\ PostReport(hand[w].id, slip[w])
    BY <1>6 DEF SendReport, LetGo, TypeOK
  <2>9. step'[w] # "poll" => Reporting(w)'
    BY <1>0, <2>1, <2>3, <2>8 DEF Reporting, Born
  <2>10. step'[w] = "delete" => Safe(hand[w].id)'
    <3>1. PostReport(hand[w].id, slip[w]) => Alive(report', hand[w].id)
      BY PostKeeps
    <3> QED
      BY <2>8, <3>1 DEF Safe, Alive
  <2>11. WorkerSide'
    BY <2>1, <2>5, <2>8, <2>9, <2>10, WorkerSideStep DEF Traced, WorkerSide
  <2> QED
    BY <1>1, <2>5, <2>7, <2>11 DEF Traced
<1>7. CASE DeleteMail(w) \/ WorkerDies(w)
  <2>1. UNCHANGED <<receipt, report, told>> /\ LetGo(w)
    BY <1>7 DEF DeleteMail, WorkerDies, database, reports
  <2>2. mail' = mail \/ (step[w] = "delete" /\ mail' \in Removed(mail, mailTries, hand[w]))
    BY <1>7 DEF DeleteMail, WorkerDies
  <2>3. step[w] = "delete" => /\ hand[w] \in Deliveries /\ hand[w].id \in Items
                              /\ Safe(hand[w].id)
    BY DEF Busy, Traced, WorkerSide, Reporting
  <2>4. /\ Keeps(mail, mail') \/ \E i : KeepsOthers(mail, mail', i) /\ (i \in Items => Safe(i))
        /\ \A m \in Messages : mail'[m] # "unsent" => mail[m] # "unsent"
    <3>1. CASE mail' = mail
      BY <3>1 DEF Keeps
    <3>2. CASE step[w] = "delete" /\ mail' \in Removed(mail, mailTries, hand[w])
      <4>1. KeepsOthers(mail, mail', hand[w].id) /\ Safe(hand[w].id)
        BY <2>3, <3>2, QueueKeeps DEF TypeOK
      <4>2. \A m \in Messages : mail'[m] # "unsent" => mail[m] # "unsent"
        BY <3>2 DEF Removed, TypeOK
      <4> QED
        BY <4>1, <4>2
    <3> QED
      BY <2>2, <3>1, <3>2
  <2>5. Growth
    BY <1>0, <2>1, <2>4, GrowthFrom DEF Keeps, Gone
  <2>6. /\ step'[w] = "poll" /\ batch'[w] \subseteq batch[w]
        /\ \A v \in Workers \ {w} : UNCHANGED <<batch[v], hand[v], step[v], slip[v]>>
    BY <1>7, <2>1 DEF DeleteMail, WorkerDies, LetGo, TypeOK
  <2>7. WorkerSide'
    BY <2>4, <2>5, <2>6, WorkerSideStep DEF Traced, WorkerSide
  <2> QED
    BY <1>1, <1>2, <2>1, <2>5, <2>7 DEF Traced
<1> QED
  BY <1>3, <1>4, <1>5, <1>6, <1>7 DEF WorkerStep

\* A step of one results consumer.
LEMMA ReportSideStep ==
  ASSUME ReportSide, TypeOK, Growth, NEW a \in Apis,
         \A m \in Messages : report'[m] # "unsent" => report[m] # "unsent",
         \A b \in Apis \ {a} : UNCHANGED <<inbox[b], done[b]>>,
         \A d \in inbox'[a] : report'[MessageOf(d)] # "unsent",
         done'[a] # None => done'[a].id \in Items /\ Gone(done[a].id)'
  PROVE  ReportSide'
<1>1. \A m \in Messages : m.id \in Items /\ report'[m] # "unsent" => Truthful(m)'
  BY DEF ReportSide, Truthful, Growth
<1>2. \A b \in Apis : \A d \in inbox'[b] : report'[MessageOf(d)] # "unsent"
  <2>1. ASSUME NEW b \in Apis \ {a}, NEW d \in inbox'[b]
        PROVE  report'[MessageOf(d)] # "unsent"
    <3>1. d \in inbox[b] /\ d \in Deliveries
      BY <2>1 DEF TypeOK
    <3> QED
      BY <3>1, NoneOutside DEF ReportSide, Growth
  <2> QED
    BY <2>1
<1>3. \A b \in Apis : done'[b] # None => done'[b].id \in Items /\ Gone(done[b].id)'
  <2>1. ASSUME NEW b \in Apis \ {a}, done'[b] # None
        PROVE  done'[b].id \in Items /\ Gone(done[b].id)'
    <3>1. done'[b] = done[b] /\ done[b].id \in Items /\ Gone(done[b].id)
      BY <2>1 DEF ReportSide
    <3> QED
      BY <3>1 DEF Growth, Gone
  <2> QED
    BY <2>1
<1> QED
  BY <1>1, <1>2, <1>3 DEF ReportSide

LEMMA ConsumerTraced ==
  ASSUME TypeOK, Traced, NEW a \in Apis, ConsumerStep(a)
  PROVE  Traced'
<1> USE DEF mails, relay, worker
<1>0. UNCHANGED <<row, outbox, receipt, told, mail, rows, todo, marked, batch, hand, step, slip>>
  BY DEF ConsumerStep, ReceiveReports, LeavePoisonReport, Record, DeleteReport, database, reports
<1>1. ASSUME Growth
      PROVE  RelaySide' /\ WorkerSide'
  <2>1. RelaySide'
    BY <1>0, <1>1, RelaySideFrame DEF Traced, Born
  <2>2. WorkerSide'
    BY <1>0, <1>1, WorkerSideFrame DEF Traced, WorkerSide
  <2> QED
    BY <2>1, <2>2
<1>2. CASE ReceiveReports(a)
  <2>1. PICK b \in Batches(report, reportTries) :
          report' = Fly(report, b) /\ inbox' = [inbox EXCEPT ![a] = Handles(reportTries, b)]
    BY <1>2 DEF ReceiveReports
  <2>2. Keeps(report, report') /\ \A m \in b : m \in Messages /\ report[m] = "visible"
    BY <2>1, QueueKeeps, QueueTypes DEF TypeOK
  <2>3. UNCHANGED <<shown, done>> /\ done[a] = None
    BY <1>2 DEF ReceiveReports, database
  <2>4. Growth
    BY <1>0, <2>2, <2>3, GrowthFrom DEF Keeps, Gone
  <2>5. \A m \in Messages : report'[m] # "unsent" => report[m] # "unsent"
    BY <2>1, <2>2 DEF Fly
  <2>6. \A d \in inbox'[a] : report'[MessageOf(d)] # "unsent"
    <3>1. \A d \in Handles(reportTries, b) : MessageOf(d) \in b
      BY <2>2 DEF Handles, MessageOf, Messages
    <3>2. \A m \in b : report'[m] # "unsent"
      BY <2>1, <2>2 DEF Fly
    <3> QED
      BY <2>1, <3>1, <3>2 DEF TypeOK
  <2>7. \A b2 \in Apis \ {a} : UNCHANGED <<inbox[b2], done[b2]>>
    BY <2>1, <2>3 DEF TypeOK
  <2>8. ReportSide'
    BY <2>3, <2>4, <2>5, <2>6, <2>7, ReportSideStep DEF Traced
  <2> QED
    BY <1>1, <2>4, <2>8 DEF Traced
<1>3. ASSUME NEW d \in Deliveries, LeavePoisonReport(a, d)
      PROVE  Traced'
  <2>1. UNCHANGED <<shown, report, done>>
    BY <1>3 DEF LeavePoisonReport, database, reports
  <2>2. Growth
    BY <1>0, <2>1, GrowthFrom DEF Keeps, Gone
  <2>3. /\ inbox'[a] \subseteq inbox[a] /\ done[a] = None
        /\ \A b \in Apis \ {a} : UNCHANGED <<inbox[b], done[b]>>
    BY <1>3, <2>1 DEF LeavePoisonReport, TypeOK
  <2>4. ReportSide'
    BY <2>1, <2>2, <2>3, ReportSideStep DEF Traced, ReportSide
  <2> QED
    BY <1>1, <2>2, <2>4 DEF Traced
<1>4. ASSUME NEW d \in Deliveries, Record(a, d)
      PROVE  Traced'
  <2>1. UNCHANGED report /\ d.id \in Items /\ d \in inbox[a] /\ done[a] = None
    BY <1>4 DEF Record, reports
  <2>2. Truthful(MessageOf(d))
    BY <2>1, NoneOutside DEF Traced, ReportSide
  <2>3. /\ \A i \in Items : Gone(i) => Gone(i)'
        /\ Project(d) => Gone(d.id)'
    <3>1. Project(d) \/ UNCHANGED shown
      BY <1>4 DEF Record
    <3>2. ASSUME Project(d)
          PROVE  /\ \A i \in Items : shown[i] # None => shown'[i] # None
                 /\ row[d.id] = "stored" => shown'[d.id] # None
      BY <2>1, <2>2, <3>2, NoneOutside DEF Project, Truthful, TypeOK
    <3>3. row[d.id] \in {"stored", "deleted"} /\ UNCHANGED row
      BY <1>0, <2>1, <2>2, NoneOutside DEF Truthful, Born, TypeOK
    <3> QED
      BY <3>1, <3>2, <3>3 DEF Gone
  <2>4. Growth
    BY <1>0, <2>1, <2>3, GrowthFrom DEF Keeps
  <2>5. /\ inbox'[a] \subseteq inbox[a]
        /\ \A b \in Apis \ {a} : UNCHANGED <<inbox[b], done[b]>>
    BY <1>4 DEF Record, ThreadEnds, TypeOK
  <2>6. done'[a] # None => done'[a] = d /\ Project(d)
    BY <1>4, <2>1 DEF Record, ThreadEnds, TypeOK
  <2>7. done'[a] # None => done'[a].id \in Items /\ Gone(done[a].id)'
    BY <2>1, <2>3, <2>6 DEF Gone
  <2>8. \A e \in inbox'[a] : report'[MessageOf(e)] # "unsent"
    BY <2>1, <2>5 DEF Traced, ReportSide
  <2>9. ReportSide'
    BY <2>1, <2>4, <2>5, <2>7, <2>8, ReportSideStep DEF Traced
  <2> QED
    BY <1>1, <2>4, <2>9 DEF Traced
<1>5. CASE DeleteReport(a)
  <2>1. done[a] \in Deliveries /\ done[a].id \in Items /\ Gone(done[a].id) /\ UNCHANGED shown
    BY <1>5 DEF DeleteReport, Traced, ReportSide, TypeOK, database
  <2>2. report' = report \/ report' \in Removed(report, reportTries, done[a])
    BY <1>5 DEF DeleteReport
  <2>3. /\ Keeps(report, report') \/ \E i : KeepsOthers(report, report', i) /\ (i \in Items => Gone(i))
        /\ \A m \in Messages : report'[m] # "unsent" => report[m] # "unsent"
    <3>1. CASE report' = report
      BY <3>1 DEF Keeps
    <3>2. CASE report' \in Removed(report, reportTries, done[a])
      <4>1. KeepsOthers(report, report', done[a].id)
        BY <2>1, <3>2, QueueKeeps DEF TypeOK
      <4>2. \A m \in Messages : report'[m] # "unsent" => report[m] # "unsent"
        BY <3>2 DEF Removed, TypeOK
      <4> QED
        BY <2>1, <4>1, <4>2
    <3> QED
      BY <2>2, <3>1, <3>2
  <2>4. Growth
    BY <1>0, <2>1, <2>3, GrowthFrom DEF Keeps, Gone
  <2>5. /\ done'[a] = None /\ inbox'[a] \subseteq inbox[a]
        /\ \A b \in Apis \ {a} : UNCHANGED <<inbox[b], done[b]>>
    BY <1>5 DEF DeleteReport, ThreadEnds, TypeOK
  <2>6. \A d \in inbox'[a] : report'[MessageOf(d)] # "unsent"
    <3>1. \A d \in inbox[a] : MessageOf(d) \in Messages /\ report[MessageOf(d)] # "unsent"
      BY NoneOutside DEF Traced, ReportSide, TypeOK
    <3> QED
      BY <2>4, <2>5, <3>1 DEF Growth
  <2>7. ReportSide'
    BY <2>3, <2>4, <2>5, <2>6, ReportSideStep DEF Traced
  <2> QED
    BY <1>1, <2>4, <2>7 DEF Traced
<1> QED
  BY <1>2, <1>3, <1>4, <1>5 DEF ConsumerStep

(***************************************************************************)
(* The theorems                                                            *)
(***************************************************************************)
LEMMA NextTraced == ASSUME TypeOK, Busy, Traced, [Next]_vars PROVE Traced'
<1>1. CASE UNCHANGED vars
  <2> USE DEF vars, database, mails, reports, relay, worker, consumer
  <2>1. Growth
    BY <1>1, GrowthFrom DEF Keeps, Gone
  <2>2. RelaySide'
    BY <1>1, <2>1, RelaySideFrame DEF Traced, Born
  <2>3. WorkerSide'
    BY <1>1, <2>1, WorkerSideFrame DEF Traced, WorkerSide
  <2>4. ReportSide'
    BY <1>1, <2>1, ReportSideFrame DEF Traced
  <2> QED
    BY <2>2, <2>3, <2>4 DEF Traced
<1>2. CASE Next
  BY <1>2, RequestTraced, RelayTraced, ConsumerTraced, WorkerTraced, QueueTraced,
     MisfireTraced, ApiDiesTraced DEF Next, Trouble
<1> QED
  BY <1>1, <1>2

LEMMA AlwaysTraced == Spec => []Traced
<1>1. Init => Traced
  BY InitTraced
<1>2. TypeOK /\ Busy /\ Traced /\ [Next]_vars => Traced'
  BY NextTraced
<1> QED
  BY <1>1, <1>2, TypeCorrect, PTL DEF Spec

\* No item is forgotten, whatever fails, dies or is delivered again.
THEOREM NothingForgotten == Spec => []NothingLost
<1>1. TypeOK /\ Traced => NothingLost
  BY DEF NothingLost, Traced, RelaySide, Born, Kept, Safe, Gone, TypeOK
<1> QED
  BY <1>1, TypeCorrect, AlwaysTraced, PTL

(***************************************************************************)
(* The refinement of ItemDelivery                                          *)
(***************************************************************************)
LEMMA RequestDelivers ==
  ASSUME TypeOK, NEW i \in Items, Request(i)
  PROVE  Delivery!Next
<1>1. CASE CreateItem(i)
  <2>1. Delivery!Create(i)
    BY <1>1 DEF CreateItem, Delivery!Create
  <2> QED
    BY <2>1 DEF Delivery!Next
<1>2. CASE DeleteItem(i)
  <2>1. Delivery!Delete(i)
    BY <1>2 DEF DeleteItem, Delivery!Delete
  <2> QED
    BY <2>1 DEF Delivery!Next
<1> QED
  BY <1>1, <1>2 DEF Request

\* The first delivery's receipt is the work; a later one changes nothing.
LEMMA WriteDelivers ==
  ASSUME TypeOK, Traced, NEW w \in Workers, NEW d \in Deliveries, WriteReceipt(w, d)
  PROVE  Delivery!Next \/ UNCHANGED <<row, receipt, shown>>
<1>1. d.id \in Items /\ row[d.id] # "none" /\ UNCHANGED <<row, shown>>
  BY DEF WriteReceipt, Traced, WorkerSide, Born
<1>2. CASE UNCHANGED receipt
  BY <1>1, <1>2
<1>3. CASE Stamp(d) /\ receipt[d.id] # None
  <2>1. receipt' = receipt
    BY <1>1, <1>3 DEF Stamp, TypeOK
  <2> QED
    BY <1>1, <2>1
<1>4. CASE Stamp(d) /\ receipt[d.id] = None
  <2>1. receipt' = [receipt EXCEPT ![d.id] = d]
    BY <1>1, <1>4 DEF Stamp, TypeOK
  <2>2. Delivery!Work(d.id, d)
    BY <1>1, <1>4, <2>1 DEF Delivery!Work
  <2> QED
    BY <1>1, <2>2 DEF Delivery!Next
<1> QED
  BY <1>2, <1>3, <1>4 DEF WriteReceipt

\* The first report of a stored item is shown; any other changes nothing.
LEMMA RecordDelivers ==
  ASSUME TypeOK, Traced, NEW a \in Apis, NEW d \in Deliveries, Record(a, d)
  PROVE  Delivery!Next \/ UNCHANGED <<row, receipt, shown>>
<1>1. d.id \in Items /\ d \in inbox[a] /\ UNCHANGED <<row, receipt>>
  BY DEF Record
<1>2. told[MessageOf(d)] = receipt[d.id] /\ receipt[d.id] # None
  BY <1>1, NoneOutside DEF Traced, ReportSide, Truthful
<1>3. CASE UNCHANGED shown
  BY <1>1, <1>3
<1>4. CASE Project(d) /\ ~(row[d.id] = "stored" /\ shown[d.id] = None)
  <2>1. shown' = shown
    BY <1>1, <1>4 DEF Project, TypeOK
  <2> QED
    BY <1>1, <2>1
<1>5. CASE Project(d) /\ row[d.id] = "stored" /\ shown[d.id] = None
  <2>1. shown' = [shown EXCEPT ![d.id] = receipt[d.id]]
    BY <1>1, <1>2, <1>5 DEF Project, TypeOK
  <2>2. Delivery!Show(d.id)
    BY <1>1, <1>2, <1>5, <2>1 DEF Delivery!Show
  <2> QED
    BY <1>1, <2>2 DEF Delivery!Next
<1> QED
  BY <1>3, <1>4, <1>5 DEF Record

LEMMA StepDelivers ==
  ASSUME TypeOK, Traced, [Next]_vars
  PROVE  [Delivery!Next]_(Delivery!vars)
<1>1. CASE \E i \in Items : Request(i)
  BY <1>1, RequestDelivers
<1>2. CASE \E w \in Workers, d \in Deliveries : WriteReceipt(w, d)
  BY <1>2, WriteDelivers DEF Delivery!vars
<1>3. CASE \E a \in Apis, d \in Deliveries : Record(a, d)
  BY <1>3, RecordDelivers DEF Delivery!vars
<1>4. CASE /\ ~\E i \in Items : Request(i)
           /\ ~\E w \in Workers, d \in Deliveries : WriteReceipt(w, d)
           /\ ~\E a \in Apis, d \in Deliveries : Record(a, d)
  BY <1>4 DEF Next, Trouble, RelayStep, TakeRows, SendRow, Commit, PassFails, ApiDies,
     WorkerStep, ReceiveMail, LeavePoison, SendReport, DeleteMail, WorkerDies, ConsumerStep,
     ReceiveReports, LeavePoisonReport, DeleteReport, QueueStep, MailReturns, MailDies,
     ReportReturns, ReportDies, MailOvertakes, ReportOvertakes, Misfire, vars, database,
     Delivery!vars
<1> QED
  BY <1>1, <1>2, <1>3, <1>4

\* The pipeline keeps the promise made to the API's clients: the first receipt
\* is the work, it is what is shown, and it does not change.
THEOREM DeliveryRefined == Spec => DeliverySpec
<1>1. Init => Delivery!Init
  BY DEF Init, Delivery!Init
<1>2. TypeOK /\ Traced /\ [Next]_vars => [Delivery!Next]_(Delivery!vars)
  BY StepDelivers
<1> QED
  BY <1>1, <1>2, TypeCorrect, AlwaysTraced, PTL DEF Spec, DeliverySpec, Delivery!Spec

(***************************************************************************)
(* Poison: only what was handled is deleted, and only items are handled    *)
(***************************************************************************)
LEMMA OnlyDeletes ==
  ASSUME NEW q \in [Messages -> MessageState], NEW t \in [Messages -> 0..MaxReceive]
  PROVE  /\ \A b \in Batches(q, t) : \A m \in Messages : Fly(q, b)[m] = "deleted" => q[m] = "deleted"
         /\ \A d \in Deliveries : \A r \in Removed(q, t, d) : \A m \in Messages :
              m.id # d.id /\ r[m] = "deleted" => q[m] = "deleted"
<1>1. \A d \in Deliveries : MessageOf(d) \in Messages /\ MessageOf(d).id = d.id
  BY NoneOutside
<1> QED
  BY <1>1 DEF Fly, Removed

LEMMA PoisonStep ==
  ASSUME TypeOK, Busy, Traced, PoisonStays, [Next]_vars
  PROVE  PoisonStays'
<1> USE DEF database, mails, reports, relay, worker, consumer
<1>1. ASSUME \A m \in Messages : m.id \in Junk =>
               /\ mail'[m] = "deleted" => mail[m] = "deleted"
               /\ report'[m] = "deleted" => report[m] = "deleted"
      PROVE  PoisonStays'
  BY <1>1 DEF PoisonStays
<1>2. ASSUME NEW w \in Workers, WorkerStep(w) \/ WorkerDies(w)
      PROVE  \A m \in Messages : m.id \in Junk => (mail'[m] = "deleted" => mail[m] = "deleted")
  <2>1. CASE ReceiveMail(w)
    BY <2>1, OnlyDeletes DEF ReceiveMail, TypeOK
  <2>2. CASE DeleteMail(w) \/ WorkerDies(w)
    <3>1. mail' = mail \/ (step[w] = "delete" /\ mail' \in Removed(mail, mailTries, hand[w]))
      BY <2>2 DEF DeleteMail, WorkerDies
    <3>2. step[w] = "delete" => hand[w] \in Deliveries /\ hand[w].id \in Items
      BY DEF Busy, Traced, WorkerSide, Reporting
    <3> QED
      BY <3>1, <3>2, OnlyDeletes, NoneOutside DEF TypeOK
  <2>3. CASE ~ReceiveMail(w) /\ ~DeleteMail(w) /\ ~WorkerDies(w)
    BY <1>2, <2>3 DEF WorkerStep, SendReport, LeavePoison, WriteReceipt
  <2> QED
    BY <2>1, <2>2, <2>3
<1>3. ASSUME NEW w \in Workers, WorkerStep(w) \/ WorkerDies(w)
      PROVE  \A m \in Messages : report'[m] = "deleted" => report[m] = "deleted"
  BY <1>3 DEF WorkerStep, WorkerDies, ReceiveMail, SendReport, PostReport, DeleteMail, LeavePoison,
     WriteReceipt, TypeOK
<1>4. ASSUME NEW a \in Apis, ConsumerStep(a)
      PROVE  \A m \in Messages : m.id \in Junk => (report'[m] = "deleted" => report[m] = "deleted")
  <2>1. CASE ReceiveReports(a)
    BY <2>1, OnlyDeletes DEF ReceiveReports, TypeOK
  <2>2. CASE DeleteReport(a)
    <3>1. done[a] \in Deliveries /\ done[a].id \in Items
      BY <2>2 DEF DeleteReport, Traced, ReportSide, TypeOK
    <3>2. report' = report \/ report' \in Removed(report, reportTries, done[a])
      BY <2>2 DEF DeleteReport
    <3> QED
      BY <3>1, <3>2, OnlyDeletes, NoneOutside DEF TypeOK
  <2>3. CASE ~ReceiveReports(a) /\ ~DeleteReport(a)
    BY <1>4, <2>3 DEF ConsumerStep, LeavePoisonReport, Record
  <2> QED
    BY <2>1, <2>2, <2>3
<1>5. ASSUME NEW a \in Apis, ConsumerStep(a)
      PROVE  UNCHANGED mail
  BY <1>5 DEF ConsumerStep, ReceiveReports, LeavePoisonReport, Record, DeleteReport
<1>6. ASSUME NEW a \in Apis, RelayStep(a) \/ PassFails(a) \/ ApiDies(a)
      PROVE  /\ UNCHANGED report
             /\ \A m \in Messages : mail'[m] = "deleted" => mail[m] = "deleted"
  BY <1>6 DEF RelayStep, TakeRows, SendRow, PostMail, Commit, PassFails, ApiDies, TypeOK
<1>7. ASSUME NEW m \in Messages, QueueStep(m) \/ MailOvertakes(m) \/ ReportOvertakes(m)
      PROVE  \A n \in Messages : /\ mail'[n] = "deleted" => mail[n] = "deleted"
                                 /\ report'[n] = "deleted" => report[n] = "deleted"
  BY <1>7 DEF QueueStep, MailReturns, MailDies, ReportReturns, ReportDies, MailOvertakes,
     ReportOvertakes, TypeOK
<1>8. ASSUME NEW j \in Junk, Misfire(j)
      PROVE  \A n \in Messages : /\ mail'[n] = "deleted" => mail[n] = "deleted"
                                 /\ report'[n] = "deleted" => report[n] = "deleted"
  BY <1>8 DEF Misfire, PostMail, PostReport, TypeOK
<1>9. ASSUME NEW i \in Items, Request(i)
      PROVE  UNCHANGED <<mail, report>>
  BY <1>9 DEF Request, CreateItem, DeleteItem
<1>10. CASE UNCHANGED vars
  BY <1>10 DEF vars, PoisonStays
<1> QED
  BY <1>1, <1>2, <1>3, <1>4, <1>5, <1>6, <1>7, <1>8, <1>9, <1>10 DEF Next, Trouble

\* A body nobody can parse is never deleted, however it is delivered.
THEOREM PoisonKept == Spec => []PoisonStays
<1>1. Init => PoisonStays
  BY DEF Init, PoisonStays
<1>2. TypeOK /\ Busy /\ Traced /\ PoisonStays /\ [Next]_vars => PoisonStays'
  BY PoisonStep
<1> QED
  BY <1>1, <1>2, TypeCorrect, AlwaysTraced, PTL DEF Spec

\* Together: of any number of items sent in batches of any size, with anything
\* unparsable among them, nothing is lost, nothing doubled without a fault, and
\* no body nobody can parse is deleted.
THEOREM BatchesKept == Spec => []BatchesHold
BY TypeCorrect, NothingForgotten, DuplicatesPaidFor, PoisonKept, PTL DEF BatchesHold
=============================================================================
