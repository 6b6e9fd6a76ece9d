------------------------------ MODULE ItemsApi ------------------------------
(***************************************************************************)
(* The item requests of app/src/main.py side by side.  A handler has one   *)
(* session at READ COMMITTED and makes several statements, between which   *)
(* the other requests go on.  (What becomes of the event a create puts     *)
(* into the outbox is module ItemPipeline's subject.)                      *)
(***************************************************************************)
EXTENDS FiniteSets, Naturals

CONSTANTS
  Requests,  \* requests that write
  Names,     \* item names, in their order
  Texts,     \* descriptions
  MaxId,     \* bound: ids given out
  Limit,     \* the page size of the client that reads the whole list
  Null       \* no description; no answer yet

VARIABLES
  items,     \* demo_items: id -> [name, description], committed
  lastId,    \* the sequence
  req,       \* request -> [pc, id, sent, read, answer]
  scan,      \* a client that pages through the list: [offset, seen, owed, calm]
  total      \* the COUNT of the page it is reading, or Null

apiVars == <<items, lastId, req, scan, total>>

\* A page has a row at least, and the bounds are numbers.
ASSUME ApiAssumption == MaxId \in Nat /\ Limit \in Nat \ {0} /\ Null \notin Nat

Fields == {"name", "description"}
Rows == [name : Names, description : Texts \cup {Null}]

\* Bug: nothing refuses a null name.
NullablePatches ==
  LET names == Names \cup {Null}
  IN  [name : names] \cup [description : Texts \cup {Null}]
      \cup [name : names, description : Texts \cup {Null}]

\* What ItemUpdate lets through: one field at least, and no null name.
Patches == [name : Names] \cup [description : Texts \cup {Null}] \cup Rows

Fresh == [pc |-> "idle", id |-> 0, sent |-> << >>, read |-> << >>, answer |-> Null]

Become(r, pc, id, sent, read, answer) ==
  req' = [req EXCEPT ![r] = [pc |-> pc, id |-> id, sent |-> sent, read |-> read, answer |-> answer]]
Go(r, pc, id, sent, read) == Become(r, pc, id, sent, read, Null)
Answer(r, code) == Become(r, "over", req[r].id, req[r].sent, req[r].read, code)

\* Another row has this name, or a request is about to commit one: the insert or
\* update fails, or waits for it.
Taken(name, id)  == \E i \in DOMAIN items \ {id} : items[i].name = name
Claimed(name, r) == \E q \in Requests \ {r} : req[q].pc = "flushed" /\ req[q].sent.name = name

-----------------------------------------------------------------------------
(* create_item                                                             *)

\* The flush takes an id of the sequence, and is where a duplicate shows.
CreateFlush(r, row) ==
  /\ req[r].pc = "idle" /\ lastId < MaxId /\ ~Claimed(row.name, r)
  /\ lastId' = lastId + 1
  /\ IF Taken(row.name, 0) THEN Answer(r, 409)
     ELSE Go(r, "flushed", lastId + 1, row, << >>)
  /\ UNCHANGED <<items, scan, total>>

CreateCommit(r) ==
  /\ req[r].pc = "flushed"
  /\ items' = [i \in DOMAIN items \cup {req[r].id} |->
                 IF i = req[r].id THEN req[r].sent ELSE items[i]]
  /\ Go(r, "refresh", req[r].id, req[r].sent, << >>)
  /\ UNCHANGED <<lastId, scan, total>>

\* db.refresh: the row is read back for the answer, if it is still there.
RefreshItem(r) ==
  /\ req[r].pc = "refresh"
  /\ Answer(r, IF req[r].id \in DOMAIN items THEN 200 ELSE 500)
  /\ UNCHANGED <<items, lastId, scan, total>>

-----------------------------------------------------------------------------
(* update_item, delete_item                                                *)

Read(r, id, pc, sent) ==
  /\ req[r].pc = "idle"
  /\ IF id \in DOMAIN items THEN Go(r, pc, id, sent, items[id]) ELSE Answer(r, 404)
  /\ UNCHANGED <<items, lastId, scan, total>>

\* Bug: the whole row that was read is written back, with the fields sent.
ChangedOfRow(r) ==
  [f \in Fields |-> IF f \in DOMAIN req[r].sent THEN req[r].sent[f] ELSE req[r].read[f]]

\* The fields an UPDATE names: those sent with another value than was read.
Changed(r) ==
  [f \in {g \in DOMAIN req[r].sent : req[r].sent[g] # req[r].read[g]} |-> req[r].sent[f]]

\* Bug: the unique constraint is not caught.
RefusedBy(r) == 500

\* What an IntegrityError is answered with.
Refused(r) == 409

\* A row with the fields an UPDATE names.
Updated(row, changed) ==
  [name        |-> IF "name" \in DOMAIN changed THEN changed["name"] ELSE row.name,
   description |-> IF "description" \in DOMAIN changed THEN changed["description"]
                   ELSE row.description]

\* No UPDATE without a change; one that finds no row is an error of the session's
\* and not an IntegrityError.
PatchCommit(r) ==
  /\ req[r].pc = "patch"
  /\ LET changed == Changed(r)
         id      == req[r].id
         named   == "name" \in DOMAIN changed
     IN  /\ named => ~Claimed(changed["name"], r)
         /\ IF DOMAIN changed # {} /\ id \notin DOMAIN items
            THEN Answer(r, 500) /\ UNCHANGED items
            ELSE IF named /\ Taken(changed["name"], id)
            THEN Answer(r, Refused(r)) /\ UNCHANGED items
            ELSE /\ Go(r, "refresh", id, req[r].sent, req[r].read)
                 /\ items' = [i \in DOMAIN items |-> IF i = id THEN Updated(items[i], changed) ELSE items[i]]
  /\ UNCHANGED <<lastId, scan, total>>

\* A DELETE that finds no row is a warning.
DeleteCommit(r) ==
  /\ req[r].pc = "delete"
  /\ items' = [i \in DOMAIN items \ {req[r].id} |-> items[i]]
  /\ Answer(r, 204)
  /\ scan' = [scan EXCEPT !.calm = FALSE, !.owed = @ \ {req[r].id}]
  /\ UNCHANGED <<lastId, total>>

-----------------------------------------------------------------------------
(* list_items                                                              *)

\* Bug: in the order of the names.
RankByName(i) == Cardinality({j \in DOMAIN items : items[j].name <= items[i].name})

\* Oldest first: the order of the ids, which is not that of the commits.
Rank(i)      == Cardinality({j \in DOMAIN items : j <= i})
Page(offset) == {i \in DOMAIN items : Rank(i) \in (offset + 1)..(offset + Limit)}

\* The offset of a client that has read the last page.
AllRead == MaxId + Limit

\* A client sets out to read the whole list.
Scan ==
  /\ scan.offset = Null
  /\ scan' = [offset |-> 0, seen |-> {}, owed |-> DOMAIN items, calm |-> TRUE]
  /\ UNCHANGED <<items, lastId, req, total>>

CountRows ==
  /\ scan.offset \notin {Null, AllRead} /\ total = Null
  /\ total' = Cardinality(DOMAIN items)
  /\ UNCHANGED <<items, lastId, req, scan>>

\* The page is a second statement; a short one is the last.
ReadPage ==
  /\ total # Null
  /\ LET page == Page(scan.offset)
     IN  scan' = [scan EXCEPT !.seen = @ \cup page,
                              !.offset = IF Cardinality(page) < Limit THEN AllRead ELSE @ + Limit]
  /\ total' = Null
  /\ UNCHANGED <<items, lastId, req>>

-----------------------------------------------------------------------------
ApiInit ==
  /\ items \in UNION {[1..n -> Rows] : n \in 0..MaxId}
  /\ \A i, j \in DOMAIN items : items[i].name = items[j].name => i = j
  /\ lastId = Cardinality(DOMAIN items)
  /\ req = [r \in Requests |-> Fresh]
  /\ scan = [offset |-> Null, seen |-> {}, owed |-> {}, calm |-> TRUE] /\ total = Null

ApiNext ==
  \/ \E r \in Requests :
       \/ \E row \in Rows : CreateFlush(r, row)
       \/ CreateCommit(r) \/ RefreshItem(r) \/ PatchCommit(r) \/ DeleteCommit(r)
       \/ \E id \in 1..MaxId : \/ \E sent \in Patches : Read(r, id, "patch", sent)
                               \/ Read(r, id, "delete", << >>)
  \/ Scan \/ CountRows \/ ReadPage

ApiSpec == ApiInit /\ [][ApiNext]_apiVars

Session ==
  [pc : {"idle", "flushed", "refresh", "patch", "delete", "over"}, id : 0..MaxId,
   sent : {<< >>} \cup Patches, read : {<< >>} \cup Rows,
   answer : {Null, 200, 204, 404, 409, 500}]
Reader == [offset : {Null} \cup 0..AllRead, seen : SUBSET (1..MaxId),
           owed : SUBSET (1..MaxId), calm : BOOLEAN]

RequestsTypeOK ==
  /\ DOMAIN items \subseteq 1..MaxId /\ \A i \in DOMAIN items : items[i] \in Rows
  /\ lastId \in 0..MaxId
  /\ req \in [Requests -> Session]
  /\ scan \in Reader
  /\ total \in {Null} \cup 0..MaxId

\* "Only fields the client actually sent are applied, so an absent field is
\* untouched" (main.py:282-284), by a PATCH that another one overtakes too: no
\* commit puts back a value it had read.
OnlySentStep ==
  \A id \in DOMAIN items : id \in DOMAIN items' =>
    \A f \in Fields : items'[id][f] # items[id][f] =>
      \E r \in Requests : req[r] # req'[r] /\ f \in DOMAIN req[r].sent /\ req[r].sent[f] = items'[id][f]
OnlySentFields == [][OnlySentStep]_apiVars

\* A 500 is an item that is gone, and nothing else: duplicates are answered by
\* 409 however the requests meet (main.py:189-195, 286-288).
ErrorMeansGone == \A r \in Requests : req[r].answer = 500 => req[r].id \notin DOMAIN items

\* A client that reads page after page sees every item that was there when it
\* began and was not deleted, whatever is created and renamed in between
\* (main.py:233-237).  A deletion moves the pages.
ScanMissesNothing ==
  scan.offset = AllRead /\ scan.calm => scan.owed \subseteq scan.seen

\* "total: rows that exist -> a wrong count query shows up as total < count"
\* (schemas.py:99-101).  The count and the page are two statements.
TotalCoversCount == total # Null => scan.offset + Cardinality(Page(scan.offset)) <= total
=============================================================================
