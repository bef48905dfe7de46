------------------------ MODULE ModerationRaceProofs ------------------------
(***************************************************************************)
(* Proofs about requests that overlap, for every number of drawings,       *)
(* requests and questions.  No request can be trusted to act on the row as *)
(* it is, so the invariant speaks of the rows requests have read as well:  *)
(* whatever was read was whole, an id with its question or neither, and a  *)
(* request changes both or none.  While every drawing is reviewed and      *)
(* moderators keep apart, what a request has read is still true when it    *)
(* writes.                                                                 *)
(***************************************************************************)
EXTENDS ModerationRace, FiniteSetTheorems, WellFoundedInduction, TLAPS

USE DEF NoUid

\* An id with its question, or neither.
Coherent(row) == row.unique_id = NoUid <=> row.payload = None

\* Every request is a record of its three fields.
Shape ==
    request = [r \in Requests |-> [kind |-> request[r].kind,
                                   seen |-> request[r].seen,
                                   counter |-> request[r].counter]]

\* What holds however requests overlap.
SoundInv ==
    /\ TypeOK
    /\ Shape
    /\ world \in Worlds
    /\ requireApproval \in Approvals
    /\ \A d \in Drawings : Coherent(rows[d])
    /\ \A r \in Requests : \A d \in DOMAIN request[r].seen : Coherent(request[r].seen[d])
    /\ UniqueHolds(rows)

\* The handlers a moderator calls on one drawing.
Moderator == {"approve", "unapprove", "reject", "unreject", "delete"}

\* A request that moderates one drawing, and has read it as it is.
Fresh(r) ==
    /\ request[r].kind \in Moderator
    /\ \E d \in Drawings :
         /\ request[r].seen = [x \in {d} |-> rows[d]]
         /\ rows[d].status # "absent"

\* What holds besides while every drawing is reviewed by moderators who keep
\* apart: exports find nothing to repair, and nobody acts on an old row.
ReviewInv ==
    /\ requireApproval
    /\ \A d \in Drawings : rows[d].unique_id # NoUid <=> rows[d].status = "approved"
    /\ \A r \in Requests : request[r] = Idle \/ Fresh(r)
    /\ \A r, other \in Requests : r # other =>
         \A d \in DOMAIN request[r].seen : d \notin DOMAIN request[other].seen

Inv == SoundInv /\ (Reviewed => ReviewInv)

-----------------------------------------------------------------------------
(* What a handler makes of one row.                                        *)

\* The id and the question of new are both those of old, or both others.
ChangesBoth(old, new) ==
    new.unique_id = old.unique_id <=> new.payload = old.payload

\* The row as the UPDATE leaves it has a status of its own, and id and question
\* from the same of the two rows.
LEMMA FlushedRow ==
  ASSUME NEW row \in Row, NEW old \in Row, NEW new \in Row,
         Coherent(row), Coherent(new), ChangesBoth(old, new)
  PROVE  Flushed(row, old, new) \in Row /\ Coherent(Flushed(row, old, new))
  <1> DEFINE f == Flushed(row, old, new)
  <1>1. DOMAIN row = {"status", "unique_id", "payload"}
    BY DEF Row
  <1>2. f = [column \in {"status", "unique_id", "payload"} |->
               IF new[column] # old[column] THEN new[column] ELSE row[column]]
    BY <1>1 DEF Flushed
  <1>3. f = [status |-> IF new.status # old.status THEN new.status ELSE row.status,
             unique_id |-> IF new.unique_id # old.unique_id THEN new.unique_id
                           ELSE row.unique_id,
             payload |-> IF new.payload # old.payload THEN new.payload ELSE row.payload]
    BY <1>2
  <1> HIDE DEF f
  <1>4. f \in Row
    BY <1>3 DEF Row
  <1>5. Coherent(f)
    BY <1>3 DEF Coherent, ChangesBoth
  <1>6. QED
    BY <1>4, <1>5 DEF f

\* A row that is written as it was read is left as it was made.
LEMMA FlushedFresh ==
  ASSUME NEW row \in Row, NEW new \in Row
  PROVE  Flushed(row, row, new) = new
  <1>1. DOMAIN row = {"status", "unique_id", "payload"}
        /\ DOMAIN new = {"status", "unique_id", "payload"}
    BY DEF Row
  <1>2. Flushed(row, row, new) = [column \in {"status", "unique_id", "payload"} |-> new[column]]
    BY <1>1 DEF Flushed
  <1>3. QED
    BY <1>1, <1>2 DEF Row

\* A handler numbers a row that had no number, or changes id and question
\* together, or neither.
LEMMA HandledRow ==
  ASSUME NEW q, NEW d \in DOMAIN q.seen, q.seen[d] \in Row, Coherent(q.seen[d]),
         None \notin Payloads, requireApproval \in BOOLEAN,
         NEW uid, NEW payload,
         d \in Freezing(q) => uid \in Nat \ {0} /\ payload \in Payloads
  PROVE  /\ Handled(q, d, uid, payload) \in Row
         /\ Coherent(Handled(q, d, uid, payload))
         /\ ChangesBoth(q.seen[d], Handled(q, d, uid, payload))
  <1> DEFINE old == q.seen[d]
             new == Handled(q, d, uid, payload)
  <1>1. old \in Row /\ Coherent(old)
    OBVIOUS
  <1>2. d \in Freezing(q) => old.unique_id = NoUid
    BY DEF Freezing
  <1>3. \A s \in {"pending", "rejected", "deleted"} :
          Blank(s) \in Row /\ Coherent(Blank(s)) /\ ChangesBoth(old, Blank(s))
    BY <1>1 DEF Blank, Row, Coherent, ChangesBoth
  <1>4. \A s \in {"pending", "approved", "rejected"} :
          LET row == [old EXCEPT !.status = s]
          IN  row \in Row /\ Coherent(row) /\ ChangesBoth(old, row)
    BY <1>1 DEF Row, Coherent, ChangesBoth
  <1>5. CASE d \in Freezing(q)
    <2>1. new = [status |-> "approved", unique_id |-> uid, payload |-> payload]
      BY <1>5 DEF Handled
    <2>2. QED
      BY <1>1, <1>2, <1>5, <2>1 DEF Row, Coherent, ChangesBoth
  <1>6. CASE d \notin Freezing(q)
    <2>1. \/ new = old
          \/ \E s \in {"pending", "rejected", "deleted"} : new = Blank(s)
          \/ \E s \in {"pending", "approved", "rejected"} : new = [old EXCEPT !.status = s]
      BY <1>6 DEF Handled
    <2>2. ChangesBoth(old, old)
      BY DEF ChangesBoth
    <2>3. QED
      BY <1>1, <1>3, <1>4, <2>1, <2>2
  <1>7. QED
    BY <1>5, <1>6
-----------------------------------------------------------------------------
(* What a write does.                                                      *)

\* The rows a request is about are few, and the ids it takes are numbers.
LEMMA Numbers ==
  ASSUME TypeOK, NEW r \in Requests, CountsUnlocked(request[r]) => request[r].counter # NoUid
  PROVE  /\ Freezing(request[r]) \subseteq DOMAIN request[r].seen
         /\ Freezing(request[r]) \subseteq Drawings
         /\ Cardinality(Freezing(request[r])) \in Nat
         /\ CounterOf(request[r]) \in Nat \ {0}
         /\ CounterAfter(request[r]) \in Nat \ {0}
  <1> DEFINE q == request[r]
  <1>1. Freezing(q) \subseteq DOMAIN q.seen
    BY DEF Freezing
  <1>2. DOMAIN q.seen \subseteq Drawings /\ nextUniqueId \in Nat \ {0} /\ q.counter \in Nat
    BY DEF TypeOK
  <1>3. Cardinality(Freezing(q)) \in Nat
    BY <1>1, <1>2, RaceAssumption, FS_Subset, FS_CardinalityType
  <1>4. CounterOf(q) \in Nat \ {0}
    BY <1>2 DEF CounterOf
  <1>5. CounterAfter(q) \in Nat \ {0}
    BY <1>2, <1>3, <1>4 DEF CounterAfter
  <1>6. QED
    BY <1>1, <1>2, <1>3, <1>4, <1>5

\* new is what the handler of q may make of the rows it has read.
MadeOf(q, new) ==
    /\ DOMAIN new = DOMAIN q.seen
    /\ \A d \in DOMAIN q.seen : \E uid, payload :
         /\ new[d] = Handled(q, d, uid, payload)
         /\ d \in Freezing(q) =>
              /\ payload \in Payloads
              /\ uid \in CounterOf(q)..(CounterOf(q) + Cardinality(Freezing(q)) - 1)

\* The table after the UPDATEs of q.
Table(q, new) ==
    [d \in Drawings |-> IF d \in DOMAIN q.seen THEN Flushed(rows[d], q.seen[d], new[d]) ELSE rows[d]]

\* The write of request r, with the rows it makes.
Writes(r, new) ==
    /\ MadeOf(request[r], new)
    /\ rows' = Table(request[r], new)
    /\ UniqueHolds(rows')
    /\ nextUniqueId' = CounterAfter(request[r])
    /\ published' \subseteq published \cup Range(new)
    /\ request' = [request EXCEPT ![r] = Idle]
    /\ requireApproval' = requireApproval

\* What a write does, with what it writes to its row.
LEMMA WriteParts ==
  ASSUME world \in Worlds, NEW r \in Requests, write(r)
  PROVE  \E new : Writes(r, new)
  <1> DEFINE q == request[r]
             freezing == Freezing(q)
             New(uid, payload) ==
               [d \in DOMAIN q.seen |->
                  IF d \in freezing THEN Handled(q, d, uid[d], payload[d])
                  ELSE Handled(q, d, NoUid, None)]
  <1>1. PICK uid \in Numberings(q), payload \in [freezing -> world.payloads] :
          /\ UniqueHolds(Table(q, New(uid, payload)))
          /\ rows' = Table(q, New(uid, payload))
          /\ nextUniqueId' = CounterAfter(q)
          /\ published' = IF q.kind = "export" THEN published \cup Range(New(uid, payload))
                          ELSE published
    BY Zenon DEF write, Table
  <1>2. request' = [request EXCEPT ![r] = Idle] /\ requireApproval' = requireApproval
    BY DEF write, End
  <1>3. uid \in [freezing -> CounterOf(q)..(CounterOf(q) + Cardinality(freezing) - 1)]
    BY <1>1, Zenon DEF Numberings
  <1>4. world.payloads \subseteq Payloads
    BY RaceAssumption
  <1>5. MadeOf(q, New(uid, payload))
    <2> DEFINE made == New(uid, payload)
    <2>1. DOMAIN made = DOMAIN q.seen
      OBVIOUS
    <2>2. ASSUME NEW d \in DOMAIN q.seen
          PROVE  \E i, p :
                   /\ made[d] = Handled(q, d, i, p)
                   /\ d \in Freezing(q) =>
                        /\ p \in Payloads
                        /\ i \in CounterOf(q)..(CounterOf(q) + Cardinality(Freezing(q)) - 1)
      <3>1. CASE d \in freezing
        <4>1. made[d] = Handled(q, d, uid[d], payload[d])
          BY <3>1
        <4>2. payload[d] \in Payloads
          BY <3>1, <1>1, <1>4
        <4>3. uid[d] \in CounterOf(q)..(CounterOf(q) + Cardinality(Freezing(q)) - 1)
          BY <3>1, <1>3, Zenon
        <4>4. QED
          BY <4>1, <4>2, <4>3, Zenon
      <3>2. CASE d \notin freezing
        <4>1. made[d] = Handled(q, d, NoUid, None)
          BY <3>2
        <4>2. QED
          BY <3>2, <4>1, Zenon
      <3>3. QED
        BY <3>1, <3>2
    <2>3. QED
      BY <2>1, <2>2, Zenon DEF MadeOf
  <1>6. QED
    BY <1>1, <1>2, <1>5, Zenon DEF Writes
-----------------------------------------------------------------------------
(* Every step keeps what was read, and what is written, whole.             *)

\* A request that has read whole rows.
Whole(q) ==
    /\ q = [kind |-> q.kind, seen |-> q.seen, counter |-> q.counter]
    /\ q.kind \in Kinds \cup {"none"}
    /\ DOMAIN q.seen \subseteq Drawings
    /\ \A d \in DOMAIN q.seen : q.seen[d] \in Row /\ Coherent(q.seen[d])
    /\ q.counter \in Nat

RequestsOK ==
    /\ DOMAIN request = Requests
    /\ request = [r \in Requests |-> request[r]]
    /\ \A r \in Requests : Whole(request[r])

TableOK ==
    /\ rows \in [Drawings -> Row]
    /\ \A d \in Drawings : Coherent(rows[d])
    /\ UniqueHolds(rows)

ScalarsOK ==
    /\ world \in Worlds
    /\ nextUniqueId \in Nat \ {0}
    /\ requireApproval \in Approvals
    /\ published \subseteq Row

\* Approval is required, or it is not.
LEMMA Approving == ASSUME world \in Worlds PROVE Approvals \subseteq BOOLEAN
  BY RaceAssumption DEF Approvals

\* The invariant has these parts.
LEMMA SoundParts == SoundInv => RequestsOK /\ TableOK /\ ScalarsOK
  <1> SUFFICES ASSUME SoundInv PROVE RequestsOK /\ TableOK /\ ScalarsOK
    OBVIOUS
  <1>1. RequestsOK
    <2>1. DOMAIN request = Requests /\ request = [r \in Requests |-> request[r]]
      BY DEF SoundInv, Shape
    <2>2. ASSUME NEW r \in Requests PROVE Whole(request[r])
      BY DEF SoundInv, Shape, TypeOK, Whole
    <2>3. QED
      BY <2>1, <2>2 DEF RequestsOK
  <1>2. TableOK
    BY DEF SoundInv, TypeOK, TableOK
  <1>3. ScalarsOK
    BY DEF SoundInv, TypeOK, ScalarsOK
  <1>4. QED
    BY <1>1, <1>2, <1>3

\* The invariant is these parts.
LEMMA SoundFromParts == RequestsOK /\ TableOK /\ ScalarsOK => SoundInv
  <1> SUFFICES ASSUME RequestsOK, TableOK, ScalarsOK PROVE SoundInv
    OBVIOUS
  <1>1. requireApproval \in BOOLEAN
    BY Approving DEF ScalarsOK
  <1>2. TypeOK
    BY <1>1 DEF RequestsOK, TableOK, ScalarsOK, Whole, TypeOK
  <1>3. Shape
    <2>1. \A r \in Requests : request[r] = [kind |-> request[r].kind, seen |-> request[r].seen,
                                            counter |-> request[r].counter]
      BY DEF RequestsOK, Whole
    <2>2. request = [r \in Requests |-> request[r]]
      BY DEF RequestsOK
    <2>3. QED
      BY <2>1, <2>2 DEF Shape
  <1>4. QED
    BY <1>2, <1>3 DEF SoundInv, RequestsOK, TableOK, ScalarsOK, Whole

\* One request changes, to one that has read whole rows.
LEMMA OneRequest ==
  ASSUME RequestsOK, world' = world, NEW r \in Requests, NEW q, Whole(q),
         request' = [request EXCEPT ![r] = q]
  PROVE  RequestsOK'
  <1>1. DOMAIN request' = Requests /\ request' = [s \in Requests |-> request'[s]]
    BY DEF RequestsOK
  <1>2. ASSUME NEW s \in Requests PROVE Whole(request[s])'
    <2>1. CASE s = r
      <3>1. request'[s] = q
        BY <2>1 DEF RequestsOK
      <3>2. QED
        BY <3>1 DEF Whole, Kinds
    <2>2. CASE s # r
      <3>1. request'[s] = request[s] /\ Whole(request[s])
        BY <2>2 DEF RequestsOK
      <3>2. QED
        BY <3>1 DEF Whole, Kinds
    <2>3. QED
      BY <2>1, <2>2
  <1>3. QED
    BY <1>1, <1>2 DEF RequestsOK

\* An idle request has read nothing.
LEMMA IdleWhole == Whole(Idle)
  <1>1. DOMAIN Idle.seen = {}
    BY DEF Idle
  <1>2. QED
    BY <1>1 DEF Idle, Whole

\* What a request begins with.
LEMMA BeginWhole ==
  ASSUME NEW kind \in Kinds, NEW seen, DOMAIN seen \subseteq Drawings,
         \A d \in DOMAIN seen : seen[d] \in Row /\ Coherent(seen[d])
  PROVE  Whole([kind |-> kind, seen |-> seen, counter |-> NoUid])
  BY DEF Whole

\* A row without id and question is coherent.
LEMMA BlankRow ==
  ASSUME NEW s \in {"absent", "pending", "approved", "rejected", "deleted"}
  PROVE  Blank(s) \in Row /\ Coherent(Blank(s))
  BY DEF Blank, Row, Coherent

\* A request reads its rows.
LEMMA LoadSound ==
  ASSUME SoundInv, world' = world, NEW r \in Requests, NEW kind \in Kinds, NEW d \in Drawings,
         load(r, kind, d)
  PROVE  SoundInv'
  <1>1. RequestsOK /\ TableOK /\ ScalarsOK
    BY SoundParts
  <1> DEFINE seen == [x \in {d} |-> rows[d]]
  <1>2. Whole([kind |-> kind, seen |-> seen, counter |-> NoUid])
    BY <1>1, BeginWhole DEF TableOK
  <1>3. RequestsOK'
    BY <1>1, <1>2, OneRequest DEF load, Begin
  <1>4. TableOK' /\ ScalarsOK'
    BY <1>1 DEF TableOK, ScalarsOK, load, UniqueHolds, Approvals
  <1>5. QED
    BY <1>3, <1>4, SoundFromParts, PTL

\* A submission is inserted.
LEMMA InsertSound ==
  ASSUME SoundInv, world' = world, NEW r \in Requests, NEW d \in Drawings, insert(r, d)
  PROVE  SoundInv'
  <1>1. RequestsOK /\ TableOK /\ ScalarsOK
    BY SoundParts
  <1> DEFINE row == Blank(IF requireApproval THEN "pending" ELSE "approved")
             seen == [x \in {d} |-> row]
  <1>2. row \in Row /\ Coherent(row) /\ row.unique_id = NoUid
    BY BlankRow DEF Blank
  <1>3. rows' = [rows EXCEPT ![d] = row]
    BY DEF insert
  <1>4. request' = request \/ Begin(r, "submit", seen)
    BY DEF insert
  <1> HIDE DEF row
  <1>5. RequestsOK'
    <2>1. Whole([kind |-> "submit", seen |-> seen, counter |-> NoUid])
      BY <1>2, BeginWhole DEF insert
    <2>2. CASE request' = request
      BY <1>1, <2>2 DEF RequestsOK, Whole, Kinds
    <2>3. CASE Begin(r, "submit", seen)
      BY <1>1, <2>1, <2>3, OneRequest DEF Begin
    <2>4. QED
      BY <1>4, <2>2, <2>3
  <1>6. TableOK'
    BY <1>1, <1>2, <1>3 DEF TableOK, UniqueHolds
  <1>7. ScalarsOK'
    BY <1>1 DEF ScalarsOK, insert, Approvals
  <1>8. QED
    BY <1>5, <1>6, <1>7, SoundFromParts, PTL

\* An export reads the rows that wait for an id.
LEMMA ExportSound ==
  ASSUME SoundInv, world' = world, NEW r \in Requests, load_export(r)
  PROVE  SoundInv'
  <1>1. RequestsOK /\ TableOK /\ ScalarsOK
    BY SoundParts
  <1> DEFINE seen == Restrict(rows, Approved)
  <1>2. DOMAIN seen \subseteq Drawings /\ \A d \in DOMAIN seen : seen[d] = rows[d]
    BY DEF Restrict, Approved
  <1>3. request' = request \/ Begin(r, "export", seen)
    BY DEF load_export
  <1>4. published' = published \/ published' = published \cup Range(seen)
    BY DEF load_export
  <1> HIDE DEF seen
  <1>5. RequestsOK'
    <2>1. Whole([kind |-> "export", seen |-> seen, counter |-> NoUid])
      BY <1>1, <1>2, BeginWhole DEF TableOK, load_export
    <2>2. CASE request' = request
      BY <1>1, <2>2 DEF RequestsOK, Whole, Kinds
    <2>3. CASE Begin(r, "export", seen)
      BY <1>1, <2>1, <2>3, OneRequest DEF Begin
    <2>4. QED
      BY <1>3, <2>2, <2>3
  <1>6. TableOK'
    BY <1>1 DEF TableOK, UniqueHolds, load_export
  <1>7. Range(seen) \subseteq Row
    BY <1>1, <1>2 DEF Range, TableOK
  <1>8. ScalarsOK'
    BY <1>1, <1>4, <1>7 DEF ScalarsOK, load_export, Approvals
  <1>9. QED
    BY <1>5, <1>6, <1>8, SoundFromParts, PTL

\* A request reads the counter.
LEMMA CounterSound ==
  ASSUME SoundInv, world' = world, NEW r \in Requests, read_counter(r)
  PROVE  SoundInv'
  <1>1. RequestsOK /\ TableOK /\ ScalarsOK
    BY SoundParts
  <1> DEFINE q == [request[r] EXCEPT !.counter = nextUniqueId]
  <1>2. request' = [request EXCEPT ![r] = q]
    BY DEF read_counter
  <1>3. Whole(q)
    BY <1>1 DEF RequestsOK, ScalarsOK, Whole
  <1> HIDE DEF q
  <1>4. RequestsOK'
    BY <1>1, <1>2, <1>3, OneRequest
  <1>5. TableOK' /\ ScalarsOK'
    BY <1>1 DEF TableOK, ScalarsOK, read_counter, UniqueHolds, Approvals
  <1>6. QED
    BY <1>4, <1>5, SoundFromParts, PTL

\* A request ends in an error.
LEMMA FailSound ==
  ASSUME SoundInv, world' = world, NEW r \in Requests, fail(r)
  PROVE  SoundInv'
  <1>1. RequestsOK /\ TableOK /\ ScalarsOK
    BY SoundParts
  <1>2. RequestsOK'
    BY <1>1, IdleWhole, OneRequest DEF fail, End
  <1>3. TableOK' /\ ScalarsOK'
    BY <1>1 DEF TableOK, ScalarsOK, fail, UniqueHolds, Approvals
  <1>4. QED
    BY <1>2, <1>3, SoundFromParts, PTL

\* The setting of the approval changes.
LEMMA SettingsSound ==
  ASSUME SoundInv, world' = world, update_settings
  PROVE  SoundInv'
  <1>1. RequestsOK /\ TableOK /\ ScalarsOK
    BY SoundParts
  <1>2. RequestsOK' /\ TableOK' /\ ScalarsOK'
    BY <1>1 DEF RequestsOK, Whole, Kinds, TableOK, ScalarsOK, update_settings, UniqueHolds,
                Approvals
  <1>3. QED
    BY <1>2, SoundFromParts, PTL

\* What a request writes is whole, and so is the table after it.
LEMMA WrittenRows ==
  ASSUME SoundInv, NEW r \in Requests, NEW new, MadeOf(request[r], new),
         CountsUnlocked(request[r]) => request[r].counter # NoUid,
         NEW d \in DOMAIN request[r].seen
  PROVE  /\ d \in Drawings
         /\ new[d] \in Row
         /\ Coherent(new[d])
         /\ ChangesBoth(request[r].seen[d], new[d])
         /\ Flushed(rows[d], request[r].seen[d], new[d]) \in Row
         /\ Coherent(Flushed(rows[d], request[r].seen[d], new[d]))
  <1> DEFINE q == request[r]
  <1>1. RequestsOK /\ TableOK /\ ScalarsOK
    BY SoundParts
  <1>2. d \in DOMAIN q.seen /\ d \in Drawings /\ q.seen[d] \in Row /\ Coherent(q.seen[d])
    BY <1>1 DEF RequestsOK, Whole
  <1>3. PICK uid, payload :
          /\ new[d] = Handled(q, d, uid, payload)
          /\ d \in Freezing(q) =>
               /\ payload \in Payloads
               /\ uid \in CounterOf(q)..(CounterOf(q) + Cardinality(Freezing(q)) - 1)
    BY Zenon DEF MadeOf
  <1>4. Cardinality(Freezing(q)) \in Nat /\ CounterOf(q) \in Nat \ {0}
    BY Numbers DEF SoundInv
  <1>5. d \in Freezing(q) => uid \in Nat \ {0} /\ payload \in Payloads
    BY <1>3, <1>4
  <1>6. requireApproval \in BOOLEAN /\ None \notin Payloads
    BY <1>1, Approving, RaceAssumption DEF ScalarsOK
  <1>7. new[d] \in Row /\ Coherent(new[d]) /\ ChangesBoth(q.seen[d], new[d])
    <2> HIDE DEF q
    <2>1. /\ Handled(q, d, uid, payload) \in Row
          /\ Coherent(Handled(q, d, uid, payload))
          /\ ChangesBoth(q.seen[d], Handled(q, d, uid, payload))
      BY <1>2, <1>5, <1>6, HandledRow
    <2>2. QED
      BY <1>3, <2>1
  <1>8. rows[d] \in Row /\ Coherent(rows[d])
    BY <1>1, <1>2 DEF TableOK
  <1>9. QED
    BY <1>2, <1>7, <1>8, FlushedRow

\* A request writes its rows, and the counter.
LEMMA WriteSound ==
  ASSUME SoundInv, world' = world, NEW r \in Requests, write(r)
  PROVE  SoundInv'
  <1>1. RequestsOK /\ TableOK /\ ScalarsOK
    BY SoundParts
  <1>2. PICK new : Writes(r, new)
    BY <1>1, WriteParts DEF ScalarsOK
  <1>3. CountsUnlocked(request[r]) => request[r].counter # NoUid
    BY DEF write
  <1>4. \A d \in DOMAIN request[r].seen :
          /\ new[d] \in Row
          /\ Flushed(rows[d], request[r].seen[d], new[d]) \in Row
          /\ Coherent(Flushed(rows[d], request[r].seen[d], new[d]))
    BY <1>2, <1>3, WrittenRows DEF Writes
  <1>5. RequestsOK'
    BY <1>1, <1>2, IdleWhole, OneRequest DEF Writes
  <1>6. TableOK'
    BY <1>1, <1>2, <1>4 DEF TableOK, Writes, Table
  <1>7. ScalarsOK'
    <2>1. Range(new) \subseteq Row
      BY <1>2, <1>4 DEF Range, Writes, MadeOf
    <2>2. nextUniqueId' \in Nat \ {0}
      BY <1>2, <1>3, Numbers DEF SoundInv, Writes
    <2>3. QED
      BY <1>1, <1>2, <2>1, <2>2 DEF ScalarsOK, Writes, Approvals
  <1>8. QED
    BY <1>5, <1>6, <1>7, SoundFromParts, PTL

\* Any step keeps the general part of the invariant.
LEMMA SoundStep == SoundInv /\ [Next]_vars => SoundInv'
  <1> SUFFICES ASSUME SoundInv, [Next]_vars PROVE SoundInv'
    OBVIOUS
  <1>1. CASE UNCHANGED vars
    <2>1. RequestsOK /\ TableOK /\ ScalarsOK
      BY SoundParts
    <2>2. RequestsOK' /\ TableOK' /\ ScalarsOK'
      BY <1>1, <2>1 DEF vars, RequestsOK, Whole, Kinds, TableOK, ScalarsOK, UniqueHolds,
                        Approvals
    <2>3. QED
      BY <2>2, SoundFromParts, PTL
  <1>2. CASE Next
    <2>1. world' = world
      BY <1>2 DEF Next
    <2>2. QED
      BY <1>2, <2>1, LoadSound, InsertSound, ExportSound, CounterSound, FailSound, WriteSound,
         SettingsSound DEF Next
  <1>3. QED
    BY <1>1, <1>2

\* The invariant holds at first.
LEMMA SoundInit == Init => SoundInv
  <1> SUFFICES ASSUME Init PROVE SoundInv
    OBVIOUS
  <1>1. RequestsOK
    <2>1. request = [r \in Requests |-> Idle]
      BY DEF Init
    <2>2. QED
      BY <2>1, IdleWhole DEF RequestsOK
  <1>2. TableOK
    BY BlankRow DEF Init, TableOK, UniqueHolds, Blank
  <1>3. ScalarsOK
    BY DEF Init, ScalarsOK
  <1>4. QED
    BY <1>1, <1>2, <1>3, SoundFromParts
-----------------------------------------------------------------------------
(* While every drawing is reviewed and moderators keep apart.              *)

\* What a moderator's write makes of the one drawing it is about: a number and
\* a question for a drawing that had none, nothing left of them, or both kept.
Numbered(d, new) ==
    /\ rows[d].unique_id = NoUid
    /\ new.unique_id = nextUniqueId
    /\ nextUniqueId' = nextUniqueId + 1
    /\ nextUniqueId' <= MaxUniqueId + 1

Cleared(new) == new.unique_id = NoUid /\ nextUniqueId' = nextUniqueId

Kept(d, new) ==
    /\ new.unique_id = rows[d].unique_id
    /\ new.payload = rows[d].payload
    /\ nextUniqueId' = nextUniqueId

Settles(r, d, new) ==
    /\ request[r].seen = [x \in {d} |-> rows[d]]
    /\ rows[d].status # "absent"
    /\ new \in Row
    /\ rows' = [rows EXCEPT ![d] = new]
    /\ request' = [request EXCEPT ![r] = Idle]
    /\ requireApproval' = requireApproval
    /\ new.unique_id # NoUid <=> new.status = "approved"
    /\ Numbered(d, new) \/ Cleared(new) \/ Kept(d, new)

\* A drawing that awaits its number is not approved, so nobody takes a number
\* from a counter read without the lock.
LEMMA ReviewedFreezing ==
  ASSUME SoundInv, ReviewInv, NEW r \in Requests, NEW d \in Drawings,
         request[r].kind \in Moderator, request[r].seen = [x \in {d} |-> rows[d]]
  PROVE  LET q == request[r]
         IN  /\ ~CountsUnlocked(q)
             /\ \/ /\ Freezing(q) = {d}
                   /\ rows[d].unique_id = NoUid
                   /\ CounterOf(q) = nextUniqueId
                   /\ CounterAfter(q) = nextUniqueId + 1
                   /\ Cardinality(Freezing(q)) = 1
                \/ Freezing(q) = {} /\ CounterAfter(q) = nextUniqueId
  <1> DEFINE q == request[r]
  <1>1. DOMAIN q.seen = {d} /\ q.seen[d] = rows[d]
    OBVIOUS
  <1>2. requireApproval /\ (rows[d].unique_id # NoUid <=> rows[d].status = "approved")
    BY DEF ReviewInv
  <1>3. \/ Freezing(q) = {d} /\ rows[d].unique_id = NoUid
        \/ Freezing(q) = {}
    BY <1>1, <1>2 DEF Freezing, Moderator
  <1>4. ~CountsUnlocked(q)
    BY <1>1, <1>2, <1>3 DEF CountsUnlocked
  <1> HIDE DEF q
  <1>5. CounterOf(q) = nextUniqueId
    BY <1>4 DEF CounterOf
  <1>6. CASE Freezing(q) = {d} /\ rows[d].unique_id = NoUid
    <2>1. Cardinality(Freezing(q)) = 1
      BY <1>6, FS_Singleton
    <2>2. CounterAfter(q) = nextUniqueId + 1
      BY <1>5, <1>6, <2>1 DEF CounterAfter
    <2>3. QED
      BY <1>4, <1>5, <1>6, <2>1, <2>2 DEF q
  <1>7. CASE Freezing(q) = {}
    BY <1>4, <1>7 DEF q, CounterAfter
  <1>8. QED
    BY <1>3, <1>6, <1>7

\* What a moderator makes of a row that is not numbered now.
LEMMA ReviewedRow ==
  ASSUME requireApproval, NEW q, NEW d, q.kind \in Moderator, q.seen[d] \in Row,
         q.seen[d].unique_id # NoUid <=> q.seen[d].status = "approved",
         d \notin Freezing(q), d \in DOMAIN q.seen, NEW uid, NEW payload,
         NEW new, new = Handled(q, d, uid, payload)
  PROVE  /\ new.unique_id # NoUid <=> new.status = "approved"
         /\ \/ new.unique_id = NoUid
            \/ new.unique_id = q.seen[d].unique_id /\ new.payload = q.seen[d].payload
  <1> DEFINE old == q.seen[d]
  <1>1. old \in Row /\ (old.unique_id # NoUid <=> old.status = "approved")
    OBVIOUS
  <1>2. q.kind = "approve" /\ old.status # "deleted" => old.unique_id # NoUid
    BY DEF Freezing
  <1>3. \/ new = old
        \/ \E s \in {"pending", "rejected", "deleted"} : new = Blank(s)
        \/ old.unique_id # NoUid /\ new = [old EXCEPT !.status = "approved"]
        \/ \E s \in {"pending", "rejected"} :
              old.status \in {"pending", "rejected"} /\ new = [old EXCEPT !.status = s]
    BY <1>2 DEF Handled
  <1> HIDE DEF old
  <1>4. QED
    <2>1. CASE new = old
      BY <1>1, <2>1 DEF old
    <2>2. CASE \E s \in {"pending", "rejected", "deleted"} : new = Blank(s)
      BY <2>2 DEF Blank
    <2>3. CASE old.unique_id # NoUid /\ new = [old EXCEPT !.status = "approved"]
      BY <1>1, <2>3 DEF Row, old
    <2>4. CASE \E s \in {"pending", "rejected"} :
                  old.status \in {"pending", "rejected"} /\ new = [old EXCEPT !.status = s]
      BY <1>1, <2>4 DEF Row
    <2>5. QED
      BY <1>3, <2>1, <2>2, <2>3, <2>4

\* Where drawings are reviewed, a write settles one drawing.
LEMMA ReviewedWrite ==
  ASSUME SoundInv, ReviewInv, NEW r \in Requests, write(r)
  PROVE  \E d \in Drawings, new \in Row : Settles(r, d, new)
  <1> DEFINE q == request[r]
  <1>1. RequestsOK /\ TableOK /\ ScalarsOK
    BY SoundParts
  <1>2. q # Idle /\ (CountsUnlocked(q) => q.counter # NoUid)
    BY DEF write
  <1>3. Fresh(r)
    BY <1>2 DEF ReviewInv
  <1>4. PICK d \in Drawings : q.seen = [x \in {d} |-> rows[d]] /\ rows[d].status # "absent"
    BY <1>3 DEF Fresh
  <1>5. q.kind \in Moderator /\ DOMAIN q.seen = {d} /\ q.seen[d] = rows[d]
    BY <1>3, <1>4 DEF Fresh
  <1>6. PICK made : Writes(r, made)
    BY <1>1, WriteParts DEF ScalarsOK
  <1> DEFINE new == made[d]
  <1>7. PICK uid, payload :
          /\ new = Handled(q, d, uid, payload)
          /\ d \in Freezing(q) =>
               /\ payload \in Payloads
               /\ uid \in CounterOf(q)..(CounterOf(q) + Cardinality(Freezing(q)) - 1)
    BY <1>5, <1>6, Zenon DEF Writes, MadeOf
  <1>8. new \in Row /\ rows[d] \in Row
    BY <1>1, <1>2, <1>5, <1>6, WrittenRows DEF Writes, TableOK
  <1>9. rows' = [rows EXCEPT ![d] = new]
    <2>1. Flushed(rows[d], q.seen[d], new) = new
      BY <1>5, <1>8, FlushedFresh
    <2> HIDE DEF new
    <2>2. rows' = [x \in Drawings |-> IF x = d THEN new ELSE rows[x]]
      BY <1>5, <1>6, <2>1 DEF Writes, Table, new
    <2>3. QED
      BY <1>1, <2>2 DEF TableOK
  <1>10. nextUniqueId' = CounterAfter(q)
    BY <1>6 DEF Writes
  <1>11. requireApproval /\ (rows[d].unique_id # NoUid <=> rows[d].status = "approved")
    BY DEF ReviewInv
  <1>12. /\ new.unique_id # NoUid <=> new.status = "approved"
         /\ Numbered(d, new) \/ Cleared(new) \/ Kept(d, new)
    <2>1. CASE d \in Freezing(q)
      <3>1. /\ Freezing(q) = {d} /\ rows[d].unique_id = NoUid
            /\ CounterOf(q) = nextUniqueId /\ CounterAfter(q) = nextUniqueId + 1
            /\ Cardinality(Freezing(q)) = 1
        BY <1>4, <1>5, <2>1, ReviewedFreezing
      <3>2. new = [status |-> "approved", unique_id |-> uid, payload |-> payload]
        BY <1>7, <2>1 DEF Handled
      <3>3. nextUniqueId \in Nat \ {0}
        BY <1>1 DEF ScalarsOK
      <3>4. uid = nextUniqueId
        BY <1>7, <2>1, <3>1, <3>3
      <3>5. CounterOf(q) + Cardinality(Freezing(q)) <= MaxUniqueId + 1
        BY <2>1 DEF write
      <3>6. QED
        BY <1>10, <3>1, <3>2, <3>3, <3>4, <3>5 DEF Numbered
    <2>2. CASE d \notin Freezing(q)
      <3>1. nextUniqueId' = nextUniqueId
        BY <1>4, <1>5, <1>10, <2>2, ReviewedFreezing
      <3>2. /\ new.unique_id # NoUid <=> new.status = "approved"
            /\ \/ new.unique_id = NoUid
               \/ new.unique_id = q.seen[d].unique_id /\ new.payload = q.seen[d].payload
        <4> HIDE DEF q, new
        <4>1. QED
          BY <1>5, <1>7, <1>8, <1>11, <2>2, ReviewedRow
      <3>3. QED
        BY <1>5, <3>1, <3>2 DEF Cleared, Kept
    <2>3. QED
      BY <2>1, <2>2
  <1>13. Settles(r, d, new)
    BY <1>4, <1>6, <1>8, <1>9, <1>12 DEF Settles, Writes
  <1>14. QED
    BY <1>8, <1>13
-----------------------------------------------------------------------------
(* Every step of reviewed drawings keeps what requests read true.          *)

\* Where drawings are reviewed, approval is required.
LEMMA ReviewAlways ==
  ASSUME Reviewed, requireApproval \in Approvals
  PROVE  Apart /\ requireApproval
  BY DEF Reviewed

\* All requests but submissions and exports are of moderators.
LEMMA ModeratorKinds ==
  ASSUME world \in Worlds
  PROVE  Kinds \ {"submit", "export"} \subseteq Moderator
  BY RaceAssumption DEF Kinds, Moderator

\* An idle request has read no row.
LEMMA IdleSeesNothing == DOMAIN Idle.seen = {}
  BY DEF Idle

\* A moderator opens a drawing.
LEMMA ReviewLoad ==
  ASSUME SoundInv, ReviewInv, Reviewed, NEW r \in Requests, NEW kind \in Kinds,
         NEW d \in Drawings, load(r, kind, d)
  PROVE  ReviewInv'
  <1>1. RequestsOK /\ TableOK /\ ScalarsOK
    BY SoundParts
  <1> DEFINE q == [kind |-> kind, seen |-> [x \in {d} |-> rows[d]], counter |-> NoUid]
  <1>2. request' = [request EXCEPT ![r] = q]
    BY DEF load, Begin
  <1>3. kind \in Moderator
    BY <1>1, ModeratorKinds DEF load, ScalarsOK
  <1>4. rows' = rows /\ requireApproval' = requireApproval /\ rows[d].status # "absent"
    BY DEF load
  <1>5. \A other \in Requests : d \notin DOMAIN request[other].seen
    BY DEF load, Reviewed
  <1>6. request'[r] = q /\ \A other \in Requests : other # r => request'[other] = request[other]
    BY <1>1, <1>2 DEF RequestsOK
  <1>7. ASSUME NEW other \in Requests PROVE (request[other] = Idle \/ Fresh(other))'
    <2>1. CASE other = r
      <3>1. request'[other].kind = kind /\ request'[other].seen = [x \in {d} |-> rows'[d]]
        BY <1>4, <1>6, <2>1
      <3>2. QED
        BY <1>3, <1>4, <3>1 DEF Fresh
    <2>2. CASE other # r
      <3>1. request[other] = Idle \/ Fresh(other)
        BY DEF ReviewInv
      <3>2. request'[other] = request[other]
        BY <1>6, <2>2
      <3>3. QED
        BY <1>4, <3>1, <3>2, ZenonT(40) DEF Fresh, Idle
    <2>3. QED
      BY <2>1, <2>2
  <1>8. DOMAIN q.seen = {d}
    OBVIOUS
  <1> HIDE DEF q
  <1>9. \A s, other \in Requests : s # other =>
          \A x \in DOMAIN request'[s].seen : x \notin DOMAIN request'[other].seen
    BY <1>5, <1>6, <1>8 DEF ReviewInv
  <1>10. QED
    BY <1>4, <1>7, <1>9 DEF ReviewInv

\* A submission waits for its review.
LEMMA ReviewInsert ==
  ASSUME SoundInv, ReviewInv, NEW r \in Requests, NEW d \in Drawings, insert(r, d)
  PROVE  ReviewInv'
  <1>1. TableOK
    BY SoundParts
  <1>2. requireApproval
    BY DEF ReviewInv
  <1>3. /\ request' = request /\ requireApproval' = requireApproval
        /\ rows[d].status = "absent"
        /\ rows' = [rows EXCEPT ![d] = Blank("pending")]
    BY <1>2 DEF insert
  <1>4. Blank("pending").unique_id = NoUid /\ Blank("pending").status = "pending"
    BY DEF Blank
  <1>5. \A x \in Drawings : rows'[x].unique_id # NoUid <=> rows'[x].status = "approved"
    BY <1>1, <1>3, <1>4 DEF ReviewInv, TableOK
  <1>6. ASSUME NEW other \in Requests PROVE (request[other] = Idle \/ Fresh(other))'
    <2>1. CASE request[other] = Idle
      BY <1>3, <2>1 DEF Idle
    <2>2. CASE Fresh(other)
      <3>1. PICK e \in Drawings : /\ request[other].seen = [x \in {e} |-> rows[e]]
                                  /\ rows[e].status # "absent"
        BY <2>2 DEF Fresh
      <3>2. rows'[e] = rows[e]
        BY <1>1, <1>3, <3>1 DEF TableOK
      <3>3. request'[other].seen = [x \in {e} |-> rows'[e]]
        BY <1>3, <3>1, <3>2
      <3>4. QED
        BY <1>3, <2>2, <3>1, <3>2, <3>3 DEF Fresh
    <2>3. QED
      BY <2>1, <2>2 DEF ReviewInv
  <1>7. QED
    BY <1>2, <1>3, <1>5, <1>6 DEF ReviewInv

\* Nothing else changes.
LEMMA ReviewSame ==
  ASSUME ReviewInv, rows' = rows, request' = request, requireApproval'
  PROVE  ReviewInv'
  <1>1. ASSUME NEW r \in Requests PROVE (request[r] = Idle \/ Fresh(r))'
    <2>1. request[r] = Idle \/ Fresh(r)
      BY DEF ReviewInv
    <2>2. QED
      BY <2>1 DEF Fresh, Idle
  <1>2. QED
    BY <1>1 DEF ReviewInv

\* An export reads what was approved.
LEMMA ReviewExport ==
  ASSUME SoundInv, ReviewInv, NEW r \in Requests, load_export(r)
  PROVE  ReviewInv'
  <1>1. \A d \in Approved : Restrict(rows, Approved)[d].unique_id # NoUid
    BY DEF ReviewInv, Approved, Restrict
  <1>2. request' = request /\ rows' = rows /\ requireApproval' = requireApproval
    BY <1>1 DEF load_export
  <1>3. QED
    BY <1>2, ReviewSame DEF ReviewInv

\* Nobody reads the counter early.
LEMMA ReviewCounter ==
  ASSUME SoundInv, ReviewInv, NEW r \in Requests, read_counter(r)
  PROVE  FALSE
  <1>1. CountsUnlocked(request[r])
    BY DEF read_counter
  <1>2. CASE request[r] = Idle
    <2>1. Freezing(Idle) = {}
      BY DEF Freezing, Idle
    <2>2. QED
      BY <1>1, <1>2, <2>1 DEF CountsUnlocked
  <1>3. CASE Fresh(r)
    <2>1. PICK d \in Drawings : request[r].seen = [x \in {d} |-> rows[d]]
      BY <1>3 DEF Fresh
    <2>2. QED
      BY <1>1, <1>3, <2>1, ReviewedFreezing DEF Fresh
  <1>4. QED
    BY <1>2, <1>3 DEF ReviewInv

\* Request r ends, and if a row changed it was one that only r had read.
LEMMA ReviewEnd ==
  ASSUME SoundInv, ReviewInv, NEW r \in Requests, requireApproval' = requireApproval,
         request' = [request EXCEPT ![r] = Idle],
         \A x \in Drawings : rows'[x].unique_id # NoUid <=> rows'[x].status = "approved",
         \A x \in Drawings : rows'[x] = rows[x] \/ x \in DOMAIN request[r].seen
  PROVE  ReviewInv'
  <1>1. RequestsOK
    BY SoundParts
  <1>2. request'[r] = Idle /\ \A other \in Requests : other # r => request'[other] = request[other]
    BY <1>1 DEF RequestsOK
  <1>3. ASSUME NEW other \in Requests PROVE (request[other] = Idle \/ Fresh(other))'
    <2>1. CASE other = r
      BY <1>2, <2>1 DEF Idle
    <2>2. CASE other # r /\ request[other] = Idle
      BY <1>2, <2>2 DEF Idle
    <2>3. CASE other # r /\ Fresh(other)
      <3>1. PICK e \in Drawings : /\ request[other].seen = [x \in {e} |-> rows[e]]
                                  /\ rows[e].status # "absent"
        BY <2>3 DEF Fresh
      <3>2. e \in DOMAIN request[other].seen
        BY <3>1
      <3>3. e \notin DOMAIN request[r].seen
        BY <2>3, <3>2 DEF ReviewInv
      <3>4. rows'[e] = rows[e] /\ request'[other] = request[other]
        BY <1>2, <2>3, <3>3
      <3>5. request'[other].seen = [x \in {e} |-> rows'[e]]
        BY <3>1, <3>4
      <3>6. QED
        BY <2>3, <3>1, <3>4, <3>5 DEF Fresh
    <2>4. QED
      BY <2>1, <2>2, <2>3 DEF ReviewInv
  <1>4. \A s, other \in Requests : s # other =>
          \A x \in DOMAIN request'[s].seen : x \notin DOMAIN request'[other].seen
    BY <1>2, IdleSeesNothing DEF ReviewInv
  <1>5. QED
    BY <1>3, <1>4 DEF ReviewInv

\* A moderator settles a drawing.
LEMMA ReviewWrite ==
  ASSUME SoundInv, ReviewInv, NEW r \in Requests, write(r)
  PROVE  ReviewInv'
  <1>1. PICK d \in Drawings, new \in Row : Settles(r, d, new)
    BY ReviewedWrite
  <1>2. TableOK
    BY SoundParts
  <1>3. rows' = [rows EXCEPT ![d] = new] /\ d \in DOMAIN request[r].seen
    BY <1>1 DEF Settles
  <1>4. \A x \in Drawings : rows'[x].unique_id # NoUid <=> rows'[x].status = "approved"
    BY <1>1, <1>2, <1>3 DEF Settles, ReviewInv, TableOK
  <1>5. \A x \in Drawings : rows'[x] = rows[x] \/ x \in DOMAIN request[r].seen
    BY <1>2, <1>3 DEF TableOK
  <1>6. QED
    BY <1>1, <1>4, <1>5, ReviewEnd DEF Settles

\* A request that fails leaves the drawings alone.
LEMMA ReviewFail ==
  ASSUME SoundInv, ReviewInv, NEW r \in Requests, fail(r)
  PROVE  ReviewInv'
  BY ReviewEnd DEF fail, End, ReviewInv

\* Any step keeps the invariant.
LEMMA InvStep == Inv /\ [Next]_vars => Inv'
  <1> SUFFICES ASSUME Inv, [Next]_vars PROVE Inv'
    OBVIOUS
  <1>1. SoundInv /\ SoundInv' /\ world' = world
    BY SoundStep DEF Inv, Next, vars
  <1>2. Reviewed' => Reviewed
    BY <1>1 DEF Reviewed, Apart, Approvals
  <1>3. ASSUME Reviewed PROVE ReviewInv'
    <2>1. ReviewInv
      BY <1>3 DEF Inv
    <2>2. requireApproval'
      <3>1. requireApproval' \in Approvals
        BY <1>1 DEF SoundInv, Approvals
      <3>2. QED
        BY <1>3, <3>1 DEF Reviewed
    <2>3. CASE UNCHANGED vars
      BY <2>1, <2>2, <2>3, ReviewSame DEF vars
    <2>4. CASE update_settings
      BY <2>1, <2>2, <2>4, ReviewSame DEF update_settings
    <2>5. CASE \E r \in Requests :
                  \/ \E kind \in Kinds, d \in Drawings : load(r, kind, d)
                  \/ \E d \in Drawings : insert(r, d)
                  \/ load_export(r) \/ read_counter(r) \/ write(r) \/ fail(r)
      BY <1>1, <1>3, <2>1, <2>5, ReviewLoad, ReviewInsert, ReviewExport, ReviewCounter, ReviewWrite,
         ReviewFail
    <2>6. QED
      BY <2>3, <2>4, <2>5 DEF Next
  <1>4. QED
    BY <1>1, <1>2, <1>3 DEF Inv

\* The invariant holds at first.
LEMMA InvInit == Init => Inv
  <1> SUFFICES ASSUME Init PROVE Inv
    OBVIOUS
  <1>1. SoundInv
    BY SoundInit
  <1>2. ASSUME Reviewed PROVE ReviewInv
    <2>1. requireApproval
      BY <1>1, <1>2, ReviewAlways DEF SoundInv
    <2>2. QED
      BY <2>1, IdleSeesNothing DEF Init, ReviewInv, Blank
  <1>3. QED
    BY <1>1, <1>2 DEF Inv

-----------------------------------------------------------------------------
(* Theorems.                                                               *)

\* Every request holds rows it read and a counter it read.
THEOREM Typed == Spec => []TypeOK
  <1>1. Inv => TypeOK
    BY DEF Inv, SoundInv
  <1>2. QED
    BY InvInit, InvStep, <1>1, PTL DEF Spec

\* However requests overlap and overwrite each other, a row has an id and a
\* question or neither, and no two rows have the same id.
THEOREM IdsWithQuestions == Spec => []OneIdOneQuestion
  <1>1. Inv => OneIdOneQuestion
    BY DEF Inv, SoundInv, OneIdOneQuestion, Coherent, UniqueHolds
  <1>2. QED
    BY InvInit, InvStep, <1>1, PTL DEF Spec

\* Moderators who keep apart leave a number on approved drawings only.
THEOREM NumbersAreApproved == Spec => []NumberedOnlyIfApproved
  <1>1. Inv => NumberedOnlyIfApproved
    BY DEF Inv, ReviewInv, NumberedOnlyIfApproved
  <1>2. QED
    BY InvInit, InvStep, <1>1, PTL DEF Spec

\* Moderators who keep apart never rewrite a frozen question.
THEOREM QuestionsStay == Spec => WrittenOnce
  <1> DEFINE Stays(d) ==
               \/ rows'[d].unique_id = NoUid
               \/ /\ rows'[d].unique_id = rows[d].unique_id
                  /\ rows'[d].payload = rows[d].payload
  <1>1. ASSUME Inv, Next, Reviewed, NEW d \in Drawings, rows[d].unique_id # NoUid
        PROVE  Stays(d)
    <2>1. SoundInv /\ ReviewInv /\ TableOK
      BY <1>1, SoundParts DEF Inv
    <2>2. ASSUME NEW r \in Requests, NEW e \in Drawings, insert(r, e) PROVE Stays(d)
      <3>1. rows' = [rows EXCEPT ![e] = Blank("pending")] /\ rows[e].status = "absent"
        BY <2>1, <2>2 DEF insert, ReviewInv
      <3>2. QED
        BY <2>1, <3>1 DEF TableOK, Blank
    <2>3. ASSUME NEW r \in Requests, write(r) PROVE Stays(d)
      <3>1. PICK e \in Drawings, new \in Row : Settles(r, e, new)
        BY <2>1, <2>3, ReviewedWrite
      <3>2. CASE e = d
        BY <1>1, <2>1, <3>1, <3>2 DEF Settles, Numbered, Cleared, Kept, TableOK
      <3>3. CASE e # d
        BY <2>1, <3>1, <3>3 DEF Settles, TableOK
      <3>4. QED
        BY <3>2, <3>3
    <2>4. rows' = rows => Stays(d)
      OBVIOUS
    <2> HIDE DEF Stays
    <2>5. QED
      BY <1>1, <2>2, <2>3, <2>4
        DEF Next, load, load_export, read_counter, fail, update_settings
  <1>2. Inv /\ [Next]_vars
          => [\A d \in Drawings : Reviewed /\ rows[d].unique_id # NoUid => Stays(d)]_vars
    BY <1>1
  <1>3. QED
    BY InvInit, InvStep, <1>2, PTL DEF Spec, WrittenOnce
-----------------------------------------------------------------------------
(* Reviewed drawings and the ledger.                                       *)

\* A finite table of numbers has a largest one.
LEMMA LargestOf ==
  ASSUME NEW J, IsFiniteSet(J), J # {}, NEW f, \A j \in J : f[j] \in Nat
  PROVE  \E i \in J : \A j \in J : f[j] <= f[i]
  <1> DEFINE Has(U) == \E i \in U : \A j \in U : f[j] <= f[i]
             Bad == {U \in FiniteSubsetsOf(J) : U # {} /\ ~Has(U)}
  <1>1. SUFFICES ASSUME Bad # {} PROVE FALSE
    BY DEF FiniteSubsetsOf
  <1>2. IsWellFoundedOn(StrictSubsetOrdering(J), FiniteSubsetsOf(J))
    BY FS_StrictSubsetOrderingWellFounded
  <1>3. PICK U \in Bad : \A V \in Bad : <<V, U>> \notin StrictSubsetOrdering(J)
    <2>1. Bad \subseteq FiniteSubsetsOf(J)
      OBVIOUS
    <2> HIDE DEF Bad
    <2>2. QED
      BY <1>1, <1>2, <2>1, WFMin
  <1>4. PICK x \in U : TRUE
    OBVIOUS
  <1> DEFINE V == U \ {x}
  <1>5. V \in FiniteSubsetsOf(J) /\ <<V, U>> \in StrictSubsetOrdering(J)
    BY <1>4, FS_RemoveElement DEF FiniteSubsetsOf, StrictSubsetOrdering
  <1>6. V = {} \/ Has(V)
    BY <1>3, <1>5
  <1>7. Has(U)
    <2>1. \A j \in U : f[j] \in Nat
      BY DEF FiniteSubsetsOf
    <2>2. CASE V = {}
      BY <1>4, <2>1, <2>2
    <2>3. CASE Has(V)
      <3>1. PICK i \in V : \A j \in V : f[j] <= f[i]
        BY <2>3
      <3>2. CASE f[i] <= f[x]
        BY <1>4, <2>1, <3>1, <3>2
      <3>3. CASE f[x] <= f[i]
        BY <1>4, <2>1, <3>1, <3>3
      <3>4. QED
        BY <1>4, <2>1, <3>1, <3>2, <3>3
    <2>4. QED
      BY <1>6, <2>2, <2>3
  <1>8. QED
    BY <1>3, <1>7

LargestBound == Max({w.maxUniqueId : w \in Worlds})

\* The ledger's bound is at least that of the world a behaviour is in.
LEMMA BoundOfWorlds ==
  ASSUME world \in Worlds
  PROVE  LargestBound \in Nat /\ MaxUniqueId <= LargestBound
  <1> DEFINE bound == [w \in Worlds |-> w.maxUniqueId]
             S == {w.maxUniqueId : w \in Worlds}
  <1>1. \A w \in Worlds : bound[w] \in Nat
    BY RaceAssumption
  <1> HIDE DEF bound
  <1>2. PICK v \in Worlds : \A w \in Worlds : bound[w] <= bound[v]
    BY <1>1, RaceAssumption, LargestOf
  <1>3. \E x \in S : \A y \in S : x >= y
    BY <1>1, <1>2 DEF bound
  <1>4. LargestBound \in S /\ \A y \in S : LargestBound >= y
    <2> HIDE DEF S
    <2>1. (CHOOSE x \in S : \A y \in S : x >= y) \in S
          /\ \A y \in S : (CHOOSE x \in S : \A y_1 \in S : x >= y_1) >= y
      BY <1>3
    <2>2. LargestBound = CHOOSE x \in S : \A y \in S : x >= y
      BY DEF LargestBound, Max, S
    <2>3. QED
      BY <2>1, <2>2
  <1>5. QED
    BY <1>1, <1>4 DEF MaxUniqueId, bound

\* What a moderator's write does to the ledger.
LEMMA SettlesLedger ==
  ASSUME TableOK, ScalarsOK, NEW r, NEW d \in Drawings, NEW new \in Row, Settles(r, d, new)
  PROVE  Ledger!Next \/ UNCHANGED Ledger!ledgerVars
  <1> DEFINE held == [x \in Drawings |-> rows[x].unique_id]
  <1>1. rows' = [rows EXCEPT ![d] = new]
    BY DEF Settles
  <1>2. held' = [held EXCEPT ![d] = new.unique_id]
    BY <1>1 DEF TableOK
  <1>3. CASE Numbered(d, new)
    <2> DEFINE id == [x \in {d} |-> nextUniqueId]
    <2>1. Cardinality({d}) = 1
      BY FS_Singleton
    <2>2. nextUniqueId \in Nat /\ nextUniqueId' = nextUniqueId + 1
          /\ nextUniqueId' <= MaxUniqueId + 1 /\ new.unique_id = nextUniqueId
          /\ rows[d].unique_id = NoUid
      BY <1>3 DEF ScalarsOK, Numbered
    <2>3. nextUniqueId + Cardinality({d}) <= LargestBound + 1
      <3>1. MaxUniqueId \in Nat
        BY RaceAssumption DEF ScalarsOK, MaxUniqueId
      <3>2. QED
        BY <2>1, <2>2, <3>1, BoundOfWorlds DEF ScalarsOK
    <2>4. id \in [{d} -> nextUniqueId..(nextUniqueId + Cardinality({d}) - 1)]
      BY <2>1, <2>2
    <2>5. IsInjective(id)
      BY DEF IsInjective
    <2>6. held' = [x \in Drawings |-> IF x \in {d} THEN id[x] ELSE held[x]]
      BY <1>2, <2>2
    <2>7. nextUniqueId' = nextUniqueId + Cardinality({d})
      BY <2>1, <2>2
    <2> HIDE DEF id
    <2>8. \E i \in [{d} -> nextUniqueId..(nextUniqueId + Cardinality({d}) - 1)] :
            /\ IsInjective(i)
            /\ held' = [x \in Drawings |-> IF x \in {d} THEN i[x] ELSE held[x]]
      BY <2>4, <2>5, <2>6, Zenon
    <2>9. \A x \in {d} : held[x] = 0
      BY <2>2
    <2>10. Ledger!Issue({d})
      BY <2>3, <2>7, <2>8, <2>9, Zenon
        DEF Ledger!Issue, Ledger!Cardinality, Cardinality, Ledger!IsInjective, IsInjective,
            LargestBound
    <2>11. {d} \in SUBSET Drawings
      OBVIOUS
    <2>12. QED
      BY <2>10, <2>11 DEF Ledger!Next
  <1>4. CASE Cleared(new)
    <2>1. Ledger!Retire(d)
      BY <1>2, <1>4 DEF Cleared, Ledger!Retire
    <2>2. QED
      BY <2>1 DEF Ledger!Next
  <1>5. CASE Kept(d, new)
    <2>1. held' = held
      BY <1>2, <1>5 DEF Kept
    <2>2. QED
      BY <1>5, <2>1 DEF Kept, Ledger!ledgerVars
  <1>6. QED
    BY <1>3, <1>4, <1>5 DEF Settles

\* While every drawing is reviewed, overlapping approvals, retirements and
\* exports implement the ledger: ids are issued in increasing order, and one
\* that was retired never returns.
THEOREM ReviewedImplementsLedger == Spec => LedgerKept
  <1>1. Init => Ledger!Init
    <2> SUFFICES ASSUME Init PROVE Ledger!Init
      OBVIOUS
    <2>1. \A d \in Drawings : rows[d].unique_id = 0
      BY DEF Init, Blank
    <2>2. QED
      BY <2>1 DEF Init, Ledger!Init
  <1>2. ASSUME Inv, [Next]_vars, Reviewed
        PROVE  Ledger!Next \/ UNCHANGED Ledger!ledgerVars
    <2>1. SoundInv /\ ReviewInv /\ TableOK /\ ScalarsOK
      BY <1>2, SoundParts DEF Inv
    <2>2. ASSUME NEW r \in Requests, NEW e \in Drawings, insert(r, e)
          PROVE  UNCHANGED Ledger!ledgerVars
      <3>1. rows' = [rows EXCEPT ![e] = Blank("pending")] /\ rows[e].status = "absent"
            /\ nextUniqueId' = nextUniqueId
        BY <2>1, <2>2 DEF insert, ReviewInv
      <3>2. rows[e].unique_id = 0 /\ Blank("pending").unique_id = 0
        BY <2>1, <3>1 DEF ReviewInv, Blank
      <3>3. \A x \in Drawings : rows'[x].unique_id = rows[x].unique_id
        BY <2>1, <3>1, <3>2 DEF TableOK
      <3>4. QED
        BY <3>1, <3>3 DEF Ledger!ledgerVars
    <2>3. ASSUME NEW r \in Requests, write(r)
          PROVE  Ledger!Next \/ UNCHANGED Ledger!ledgerVars
      BY <2>1, <2>3, ReviewedWrite, SettlesLedger
    <2>4. rows' = rows /\ nextUniqueId' = nextUniqueId => UNCHANGED Ledger!ledgerVars
      BY DEF Ledger!ledgerVars
    <2>5. QED
      BY <1>2, <2>2, <2>3, <2>4
        DEF Next, vars, load, load_export, read_counter, fail, update_settings
  <1>3. Inv /\ [Next]_vars => [Reviewed => Ledger!Next]_(Ledger!ledgerVars)
    BY <1>2
  <1>4. QED
    BY InvInit, InvStep, <1>1, <1>3, PTL DEF Spec, LedgerKept

=============================================================================
