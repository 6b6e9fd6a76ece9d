---------------------------- MODULE ItemPipeline ----------------------------
(***************************************************************************)
(* From an item's creation to what the API shows about its processing: the *)
(* transactional outbox and its relay (app/src/main.py, outbox.py), the    *)
(* items queue, the worker (worker/consumer), the results queue, and the   *)
(* API's results consumer (app/src/results.py).                            *)
(*                                                                         *)
(* Every API replica and every worker is a process that takes one step per *)
(* call to the database or to SQS.  SQS delivers at least once, in no      *)
(* order; a message that is not deleted becomes visible again, and after   *)
(* MaxReceive deliveries it goes to the dead-letter queue.  A call may     *)
(* fail, before or after it took effect, and a process may die: each such  *)
(* event uses up one of MaxFaults.                                         *)
(***************************************************************************)
EXTENDS Naturals, FiniteSets

CONSTANTS
  Items,        \* ids of the rows of demo_items, in the order of the sequence
  Junk,         \* bodies neither side can parse, sent to a queue by somebody else
  Apis,         \* replicas of the API: a relay and a results consumer each
  Workers,
  RelayBatch,   \* BATCH of outbox.py
  ReceiveBatch, \* BATCH of the two receivers
  MaxReceive,   \* maxReceiveCount
  MaxFaults,    \* bound: failed calls, lost answers, deaths and slow handlers
  MaxCopies,    \* bound: messages about one item in one queue
  CallsRaise    \* whether calls of the results consumer raise what handle() lets through

ASSUME PipelineAssumption ==
  /\ Items \subseteq Nat \ {0} /\ IsFiniteSet(Items)
  /\ Junk \cap Items = {} /\ Junk \subseteq Nat \ {0}
  /\ RelayBatch \in Nat \ {0} /\ ReceiveBatch \in Nat \ {0} /\ MaxReceive \in Nat \ {0}
  /\ MaxFaults \in Nat /\ MaxCopies \in Nat \ {0}
  /\ CallsRaise \in BOOLEAN

VARIABLES
  \* -- the database
  row,       \* demo_items: none, stored or deleted; ids are not reused
  outbox,    \* the item's outbox row: none, pending or published
  receipt,   \* worker.receipts: the delivery that wrote it
  shown,     \* item_processing: the receipt the API recorded
  \* -- the two queues
  mail,      \* item.created messages: where each copy is
  mailTries, \* and how often it was received
  report,    \* item.processed messages
  reportTries,
  told,      \* the receipt each report carries
  \* -- the relay of each API replica
  rows,      \* outbox rows its transaction has locked
  todo,      \* those it has not tried to send yet
  marked,    \* those it has marked published, uncommitted
  \* -- the workers
  batch,     \* deliveries received and not handled yet
  hand,      \* the delivery being handled
  step,      \* poll, report or delete
  slip,      \* the receipt it holds for that delivery
  \* -- the results consumer of each API replica
  up,        \* whether the thread lives
  inbox,     \* deliveries received and not handled yet
  done,      \* the delivery it has recorded and not deleted yet
  \* -- how many faults happened
  faults

database == <<row, outbox, receipt, shown>>
mails    == <<mail, mailTries>>
reports  == <<report, reportTries, told>>
relay    == <<rows, todo, marked>>
worker   == <<batch, hand, step, slip>>
consumer == <<up, inbox, done>>
vars     == <<database, mails, reports, relay, worker, consumer, faults>>

(***************************************************************************)
(* Types                                                                   *)
(***************************************************************************)
Ids        == Items \cup Junk
Copies     == 1..MaxCopies
Messages   == [id : Ids, copy : Copies]
Deliveries == [id : Ids, copy : Copies, nth : 1..MaxReceive]
None       == [id |-> 0, copy |-> 0, nth |-> 0]
MessageOf(d) == [id |-> d.id, copy |-> d.copy]

MessageState == {"unsent", "visible", "flying", "deleted", "dead"}

TypeOK ==
  /\ row \in [Items -> {"none", "stored", "deleted"}]
  /\ outbox \in [Items -> {"none", "pending", "published"}]
  /\ receipt \in [Items -> Deliveries \cup {None}]
  /\ shown \in [Items -> Deliveries \cup {None}]
  /\ mail \in [Messages -> MessageState]
  /\ mailTries \in [Messages -> 0..MaxReceive]
  /\ report \in [Messages -> MessageState]
  /\ reportTries \in [Messages -> 0..MaxReceive]
  /\ told \in [Messages -> Deliveries \cup {None}]
  /\ rows \in [Apis -> SUBSET Items]
  /\ todo \in [Apis -> SUBSET Items]
  /\ marked \in [Apis -> SUBSET Items]
  /\ batch \in [Workers -> SUBSET Deliveries]
  /\ hand \in [Workers -> Deliveries \cup {None}]
  /\ step \in [Workers -> {"poll", "report", "delete"}]
  /\ slip \in [Workers -> Deliveries \cup {None}]
  /\ up \in [Apis -> BOOLEAN]
  /\ inbox \in [Apis -> SUBSET Deliveries]
  /\ done \in [Apis -> Deliveries \cup {None}]
  /\ faults \in 0..MaxFaults

Init ==
  /\ row = [i \in Items |-> "none"]
  /\ outbox = [i \in Items |-> "none"]
  /\ receipt = [i \in Items |-> None]
  /\ shown = [i \in Items |-> None]
  /\ mail = [m \in Messages |-> "unsent"]
  /\ mailTries = [m \in Messages |-> 0]
  /\ report = [m \in Messages |-> "unsent"]
  /\ reportTries = [m \in Messages |-> 0]
  /\ told = [m \in Messages |-> None]
  /\ rows = [a \in Apis |-> {}]
  /\ todo = [a \in Apis |-> {}]
  /\ marked = [a \in Apis |-> {}]
  /\ batch = [w \in Workers |-> {}]
  /\ hand = [w \in Workers |-> None]
  /\ step = [w \in Workers |-> "poll"]
  /\ slip = [w \in Workers |-> None]
  /\ up = [a \in Apis |-> TRUE]
  /\ inbox = [a \in Apis |-> {}]
  /\ done = [a \in Apis |-> None]
  /\ faults = 0

Fault == faults < MaxFaults /\ faults' = faults + 1

(***************************************************************************)
(* SQS                                                                     *)
(***************************************************************************)
\* The messages about i a queue was ever given.
Sent(queue, i) == {m \in Messages : m.id = i /\ queue[m] # "unsent"}

\* The next copy of a message about i.
NextCopy(queue, i, m) ==
  /\ m \in Messages /\ m.id = i /\ queue[m] = "unsent"
  /\ \A c \in Copies : c < m.copy => queue[[id |-> i, copy |-> c]] # "unsent"

PostMail(i) ==
  \E m \in Messages : NextCopy(mail, i, m) /\ mail' = [mail EXCEPT ![m] = "visible"]

PostReport(i, r) ==
  \E m \in Messages :
    /\ NextCopy(report, i, m)
    /\ report' = [report EXCEPT ![m] = "visible"]
    /\ told' = [told EXCEPT ![m] = r]

\* Bug: no redrive policy, every visible message is handed out.
NoRedrive(queue, tries) == {m \in Messages : queue[m] = "visible"}

\* A receive answers with some of the visible messages, each under a new handle.
Receivable(queue, tries) == {m \in Messages : queue[m] = "visible" /\ tries[m] < MaxReceive}
Batches(queue, tries) ==
  {b \in SUBSET Receivable(queue, tries) : b # {} /\ Cardinality(b) <= ReceiveBatch}
Fly(queue, b) == [m \in Messages |-> IF m \in b THEN "flying" ELSE queue[m]]
Count(tries, b) == [m \in Messages |-> IF m \in b THEN tries[m] + 1 ELSE tries[m]]
Handles(tries, b) ==
  {[id |-> m.id, copy |-> m.copy, nth |-> tries[m] + 1] : m \in b}

\* A delete by the handle of delivery d.  An old handle may not work any more.
Removed(queue, tries, d) ==
  LET m == MessageOf(d)
      gone == [queue EXCEPT ![m] = IF @ \in {"visible", "flying"} THEN "deleted" ELSE @]
  IN  IF tries[m] = d.nth THEN {gone} ELSE {gone, queue}

HeldMail(m) ==
  \E w \in Workers, d \in Deliveries :
    MessageOf(d) = m /\ d.nth = mailTries[m] /\ (d \in batch[w] \/ d = hand[w])
HeldReport(m) ==
  \E a \in Apis, d \in Deliveries :
    MessageOf(d) = m /\ d.nth = reportTries[m] /\ (d \in inbox[a] \/ d = done[a])

\* The visibility timeout of a delivery nobody works on, or of one that takes
\* its handler too long.
MailReturns(m) ==
  /\ mail[m] = "flying" /\ ~HeldMail(m)
  /\ mail' = [mail EXCEPT ![m] = "visible"]
  /\ UNCHANGED <<database, mailTries, reports, relay, worker, consumer, faults>>

MailOvertakes(m) ==
  /\ mail[m] = "flying" /\ HeldMail(m) /\ Fault
  /\ mail' = [mail EXCEPT ![m] = "visible"]
  /\ UNCHANGED <<database, mailTries, reports, relay, worker, consumer>>

ReportReturns(m) ==
  /\ report[m] = "flying" /\ ~HeldReport(m)
  /\ report' = [report EXCEPT ![m] = "visible"]
  /\ UNCHANGED <<database, mails, reportTries, told, relay, worker, consumer, faults>>

ReportOvertakes(m) ==
  /\ report[m] = "flying" /\ HeldReport(m) /\ Fault
  /\ report' = [report EXCEPT ![m] = "visible"]
  /\ UNCHANGED <<database, mails, reportTries, told, relay, worker, consumer>>

\* The redrive policy.
MailDies(m) ==
  /\ mail[m] = "visible" /\ mailTries[m] = MaxReceive
  /\ mail' = [mail EXCEPT ![m] = "dead"]
  /\ UNCHANGED <<database, mailTries, reports, relay, worker, consumer, faults>>

ReportDies(m) ==
  /\ report[m] = "visible" /\ reportTries[m] = MaxReceive
  /\ report' = [report EXCEPT ![m] = "dead"]
  /\ UNCHANGED <<database, mails, reportTries, told, relay, worker, consumer, faults>>

\* Somebody sends a body that is not this system's to one of its queues, once.
Misfire(j) ==
  /\ j \in Junk
  /\ \/ Sent(mail, j) = {} /\ PostMail(j) /\ UNCHANGED <<report, told>>
     \/ Sent(report, j) = {} /\ PostReport(j, None) /\ UNCHANGED mail
  /\ UNCHANGED <<database, mailTries, reportTries, relay, worker, consumer, faults>>

(***************************************************************************)
(* The API's request handlers: one transaction each                        *)
(***************************************************************************)
\* The row and its event, committed together.
CreateItem(i) ==
  /\ row[i] = "none"
  /\ row' = [row EXCEPT ![i] = "stored"]
  /\ outbox' = [outbox EXCEPT ![i] = "pending"]
  /\ UNCHANGED <<receipt, shown, mails, reports, relay, worker, consumer, faults>>

\* The projection goes with the row (ON DELETE CASCADE); the outbox row and
\* the worker's receipt stay.
DeleteItem(i) ==
  /\ row[i] = "stored"
  /\ row' = [row EXCEPT ![i] = "deleted"]
  /\ shown' = [shown EXCEPT ![i] = None]
  /\ UNCHANGED <<outbox, receipt, mails, reports, relay, worker, consumer, faults>>

(***************************************************************************)
(* The relay: one pass is one transaction                                  *)
(***************************************************************************)
Oldest(S, n) == {i \in S : Cardinality({j \in S : j < i}) < n}

Locked == UNION {rows[a] : a \in Apis}
\* Bug: FOR UPDATE without SKIP LOCKED's effect, a plain SELECT.
AllPending == {i \in Items : outbox[i] = "pending"}

Unlocked == {i \in Items : outbox[i] = "pending"} \ Locked

\* SELECT ... ORDER BY id LIMIT 20 FOR UPDATE SKIP LOCKED
TakeRows(a) ==
  /\ rows[a] = {} /\ Unlocked # {}
  /\ rows' = [rows EXCEPT ![a] = Oldest(Unlocked, RelayBatch)]
  /\ todo' = [todo EXCEPT ![a] = Oldest(Unlocked, RelayBatch)]
  /\ UNCHANGED <<database, mails, reports, marked, worker, consumer, faults>>

\* One send.  A failure counts the attempt and leaves the row; the message may
\* be there nevertheless.
SendRow(a, i) ==
  /\ i \in Oldest(todo[a], 1)
  /\ todo' = [todo EXCEPT ![a] = @ \ {i}]
  /\ \/ /\ PostMail(i)
        /\ marked' = [marked EXCEPT ![a] = @ \cup {i}]
        /\ UNCHANGED faults
     \/ /\ PostMail(i) \/ UNCHANGED mail
        /\ Fault
        /\ UNCHANGED marked
  /\ UNCHANGED <<database, mailTries, reports, rows, worker, consumer>>

Rollback(a) ==
  /\ rows' = [rows EXCEPT ![a] = {}]
  /\ todo' = [todo EXCEPT ![a] = {}]
  /\ marked' = [marked EXCEPT ![a] = {}]

\* Bug: the whole batch is marked, the sends that failed with it.
CommitMarksAll(a) ==
  /\ rows[a] # {} /\ todo[a] = {}
  /\ outbox' = [i \in Items |-> IF i \in rows[a] THEN "published" ELSE outbox[i]]
  /\ Rollback(a)
  /\ UNCHANGED <<row, receipt, shown, mails, reports, worker, consumer, faults>>

Commit(a) ==
  /\ rows[a] # {} /\ todo[a] = {}
  /\ outbox' = [i \in Items |-> IF i \in marked[a] THEN "published" ELSE outbox[i]]
  /\ Rollback(a)
  /\ UNCHANGED <<row, receipt, shown, mails, reports, worker, consumer, faults>>

\* The connection or the commit fails; run() catches it and the rows are free.
PassFails(a) ==
  /\ rows[a] # {} /\ Fault
  /\ Rollback(a)
  /\ UNCHANGED <<database, mails, reports, worker, consumer>>

(***************************************************************************)
(* The worker                                                              *)
(***************************************************************************)
LetGo(w) ==
  /\ step' = [step EXCEPT ![w] = "poll"]
  /\ hand' = [hand EXCEPT ![w] = None]
  /\ slip' = [slip EXCEPT ![w] = None]

ReceiveMail(w) ==
  /\ step[w] = "poll" /\ batch[w] = {}
  /\ \E b \in Batches(mail, mailTries) :
       /\ mail' = Fly(mail, b)
       /\ mailTries' = Count(mailTries, b)
       /\ batch' = [batch EXCEPT ![w] = Handles(mailTries, b)]
  /\ UNCHANGED <<database, reports, relay, hand, step, slip, consumer, faults>>

\* Bug: poison is deleted like everything else that was handled.
DropPoison(w, d) ==
  /\ step[w] = "poll" /\ d \in batch[w] /\ d.id \in Junk
  /\ batch' = [batch EXCEPT ![w] = @ \ {d}]
  /\ mail' \in Removed(mail, mailTries, d)
  /\ UNCHANGED <<database, mailTries, reports, relay, hand, step, slip, consumer, faults>>

\* Logged, and left for the dead-letter queue.
LeavePoison(w, d) ==
  /\ step[w] = "poll" /\ d \in batch[w] /\ d.id \in Junk
  /\ batch' = [batch EXCEPT ![w] = @ \ {d}]
  /\ UNCHANGED <<database, mails, reports, relay, hand, step, slip, consumer, faults>>

\* Bug: ON CONFLICT DO UPDATE, the last delivery's receipt stands.
StampAgain(d) == receipt' = [receipt EXCEPT ![d.id] = d]

\* INSERT ... ON CONFLICT DO NOTHING: the first delivery's receipt stands.
Stamp(d) == receipt' = [receipt EXCEPT ![d.id] = IF @ = None THEN d ELSE @]

\* The receipt is written now or read back; a database error leaves the message.
WriteReceipt(w, d) ==
  /\ step[w] = "poll" /\ d \in batch[w] /\ d.id \in Items
  /\ batch' = [batch EXCEPT ![w] = @ \ {d}]
  /\ \/ /\ Stamp(d)
        /\ step' = [step EXCEPT ![w] = "report"]
        /\ hand' = [hand EXCEPT ![w] = d]
        /\ slip' = [slip EXCEPT ![w] = receipt'[d.id]]
        /\ UNCHANGED faults
     \/ /\ Stamp(d) \/ UNCHANGED receipt
        /\ Fault
        /\ UNCHANGED <<hand, step, slip>>
  /\ UNCHANGED <<row, outbox, shown, mails, reports, relay, consumer>>

\* Bug: a report that could not be sent is only logged.
ReportOptional(w) ==
  /\ step[w] = "report"
  /\ step' = [step EXCEPT ![w] = "delete"]
  /\ \/ PostReport(hand[w].id, slip[w]) /\ UNCHANGED faults
     \/ Fault /\ UNCHANGED <<report, told>>
  /\ UNCHANGED <<database, mails, reportTries, relay, batch, hand, slip, consumer>>

\* The report goes out before the delete; if it could not be sent, the message
\* stays.
SendReport(w) ==
  /\ step[w] = "report"
  /\ \/ /\ PostReport(hand[w].id, slip[w])
        /\ step' = [step EXCEPT ![w] = "delete"]
        /\ UNCHANGED <<hand, slip, faults>>
     \/ /\ PostReport(hand[w].id, slip[w]) \/ UNCHANGED <<report, told>>
        /\ Fault
        /\ LetGo(w)
  /\ UNCHANGED <<database, mails, reportTries, relay, batch, consumer>>

\* Bug: the message of a first delivery is not deleted.
DeleteFirstOnly(w) ==
  /\ step[w] = "delete"
  /\ mail' \in IF slip[w] = hand[w] THEN {mail} ELSE Removed(mail, mailTries, hand[w])
  /\ LetGo(w)
  /\ UNCHANGED <<database, mailTries, reports, relay, batch, consumer, faults>>

DeleteMail(w) ==
  /\ step[w] = "delete"
  /\ mail' \in Removed(mail, mailTries, hand[w])
  /\ LetGo(w)
  /\ UNCHANGED <<database, mailTries, reports, relay, batch, consumer, faults>>

\* The process is killed, told to stop, or ends because a delete raised
\* (applied or not).
WorkerDies(w) ==
  /\ step[w] # "poll" \/ batch[w] # {}
  /\ Fault
  /\ mail' \in {mail} \cup (IF step[w] = "delete" THEN Removed(mail, mailTries, hand[w]) ELSE {})
  /\ LetGo(w)
  /\ batch' = [batch EXCEPT ![w] = {}]
  /\ UNCHANGED <<database, mailTries, reports, relay, consumer>>

(***************************************************************************)
(* The results consumer                                                    *)
(***************************************************************************)
ReceiveReports(a) ==
  /\ up[a] /\ inbox[a] = {} /\ done[a] = None
  /\ \E b \in Batches(report, reportTries) :
       /\ report' = Fly(report, b)
       /\ reportTries' = Count(reportTries, b)
       /\ inbox' = [inbox EXCEPT ![a] = Handles(reportTries, b)]
  /\ UNCHANGED <<database, mails, told, relay, worker, up, done, faults>>

LeavePoisonReport(a, d) ==
  /\ d \in inbox[a] /\ done[a] = None /\ d.id \in Junk
  /\ inbox' = [inbox EXCEPT ![a] = @ \ {d}]
  /\ UNCHANGED <<database, mails, reports, relay, worker, up, done, faults>>

\* First report wins, and a report about a deleted item meets the foreign key.
Project(d) ==
  shown' = [shown EXCEPT ![d.id] =
              IF row[d.id] = "stored" /\ @ = None THEN told[MessageOf(d)] ELSE @]

ThreadEnds(a) ==
  /\ up' = [up EXCEPT ![a] = FALSE]
  /\ inbox' = [inbox EXCEPT ![a] = {}]
  /\ done' = [done EXCEPT ![a] = None]

\* Recorded, already there or gone: the report is then deleted.  An
\* OperationalError leaves it; anything else ends the thread.
Record(a, d) ==
  /\ d \in inbox[a] /\ done[a] = None /\ d.id \in Items
  /\ \/ /\ Project(d)
        /\ inbox' = [inbox EXCEPT ![a] = @ \ {d}]
        /\ done' = [done EXCEPT ![a] = d]
        /\ UNCHANGED <<up, faults>>
     \/ /\ Project(d) \/ UNCHANGED shown
        /\ Fault
        /\ inbox' = [inbox EXCEPT ![a] = @ \ {d}]
        /\ UNCHANGED <<up, done>>
     \/ /\ CallsRaise /\ Fault
        /\ ThreadEnds(a)
        /\ UNCHANGED shown
  /\ UNCHANGED <<row, outbox, receipt, mails, reports, relay, worker>>

\* A delete that raises, applied or not, ends the thread.
DeleteReport(a) ==
  /\ done[a] # None
  /\ \/ /\ report' \in Removed(report, reportTries, done[a])
        /\ done' = [done EXCEPT ![a] = None]
        /\ UNCHANGED <<up, inbox, faults>>
     \/ /\ CallsRaise /\ Fault
        /\ report' \in Removed(report, reportTries, done[a]) \cup {report}
        /\ ThreadEnds(a)
  /\ UNCHANGED <<database, mails, reportTries, told, relay, worker>>

\* The process of a replica is replaced: its transaction is rolled back, and
\* both threads start again.
ApiDies(a) ==
  /\ Fault
  /\ Rollback(a)
  /\ up' = [up EXCEPT ![a] = TRUE]
  /\ inbox' = [inbox EXCEPT ![a] = {}]
  /\ done' = [done EXCEPT ![a] = None]
  /\ UNCHANGED <<database, mails, reports, worker>>

(***************************************************************************)
(* The whole                                                               *)
(***************************************************************************)
Request(i) == CreateItem(i) \/ DeleteItem(i)

RelayStep(a) == TakeRows(a) \/ (\E i \in Items : SendRow(a, i)) \/ Commit(a)

WorkerStep(w) ==
  \/ ReceiveMail(w) \/ SendReport(w) \/ DeleteMail(w)
  \/ \E d \in Deliveries : LeavePoison(w, d) \/ WriteReceipt(w, d)

ConsumerStep(a) ==
  \/ ReceiveReports(a) \/ DeleteReport(a)
  \/ \E d \in Deliveries : LeavePoisonReport(a, d) \/ Record(a, d)

QueueStep(m) == MailReturns(m) \/ MailDies(m) \/ ReportReturns(m) \/ ReportDies(m)

Trouble ==
  \/ \E m \in Messages : MailOvertakes(m) \/ ReportOvertakes(m)
  \/ \E a \in Apis : PassFails(a) \/ ApiDies(a)
  \/ \E w \in Workers : WorkerDies(w)
  \/ \E j \in Junk : Misfire(j)

Next ==
  \/ \E i \in Items : Request(i)
  \/ \E a \in Apis : RelayStep(a) \/ ConsumerStep(a)
  \/ \E w \in Workers : WorkerStep(w)
  \/ \E m \in Messages : QueueStep(m)
  \/ Trouble

Spec == Init /\ [][Next]_vars

\* The loops run for as long as their process does, and SQS makes what was not
\* deleted visible again.  Nothing makes anybody call the API, and nothing
\* restarts a replica whose results thread has ended.
Fairness ==
  /\ \A a \in Apis : WF_vars(RelayStep(a)) /\ WF_vars(ConsumerStep(a))
  /\ \A w \in Workers : WF_vars(WorkerStep(w))
  /\ \A m \in Messages : WF_vars(QueueStep(m))

FairSpec == Spec /\ Fairness

(***************************************************************************)
(* What must not happen, and what must                                     *)
(***************************************************************************)
\* No item is forgotten (ADR-0098): whatever fails or dies, an item that still
\* exists and shows no processing has its event in the outbox or a message
\* about it in one of the queues, dead-letter queues included.
Alive(queue, i) == \E m \in Messages : m.id = i /\ queue[m] \in {"visible", "flying", "dead"}
NothingLost ==
  \A i \in Items :
    row[i] = "stored" /\ shown[i] = None =>
      outbox[i] = "pending" \/ Alive(mail, i) \/ Alive(report, i)

\* Two relays never send the same row by skipping what the other has locked,
\* and a delivery that is not disturbed sends one report: an item has no more
\* messages in a queue than there were faults, plus one.
DuplicatesNeedFaults ==
  \A i \in Items :
    /\ Cardinality(Sent(mail, i)) <= 1 + faults
    /\ Cardinality(Sent(report, i)) <= 1 + faults

\* A body nobody can parse is never deleted (handler.py:8-14): it stays in its
\* queue until the redrive policy buries it, where the alarm is.
PoisonStays ==
  \A m \in Messages : m.id \in Junk => mail[m] # "deleted" /\ report[m] # "deleted"

\* Of what is sent in batches, or cannot be parsed, nothing is lost and nothing
\* doubled without a fault.
BatchesHold == TypeOK /\ NothingLost /\ DuplicatesNeedFaults /\ PoisonStays

\* The API shows the first receipt and nothing else, for as long as the item
\* exists, and never a processing of what was not created.
Delivery == INSTANCE ItemDelivery WITH
  Receipts <- Deliveries, work <- receipt
DeliverySpec == Delivery!Spec

\* Every event gets somewhere (results.py:6-12): once an item is created, it
\* comes to show its processing, or is deleted, or a message about it lies in a
\* dead-letter queue.
Buried(i) == \E m \in Messages : m.id = i /\ "dead" \in {mail[m], report[m]}
EveryItemSettles ==
  \A i \in Items :
    row[i] = "stored" ~> shown[i] # None \/ row[i] = "deleted" \/ Buried(i)
=============================================================================
