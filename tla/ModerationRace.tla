--------------------------- MODULE ModerationRace ---------------------------
(***************************************************************************)
(* The handlers of Moderation when several run at once.  Synchronous       *)
(* routes run in a thread pool, each with a session of its own, and submit *)
(* in the one event loop.  SQLite gives a SELECT no lock: a handler        *)
(* decides on the row it loaded, and takes the write lock at its first     *)
(* UPDATE, which it keeps until it commits.  The session then writes only  *)
(* the columns that differ from what it loaded.  So a request here loads,  *)
(* may read the counter without the lock, and writes in one step; it may   *)
(* also end without writing (the lock is not granted in time, or the       *)
(* process stops).                                                         *)
(*                                                                         *)
(* The frozen columns besides unique_id are one payload.                   *)
(*                                                                         *)
(* X_Wrong_Y, before X, is X with a plausible slip of the code, which one  *)
(* of the properties must notice.                                          *)
(***************************************************************************)
EXTENDS Integers, FiniteSets, FiniteSetsExt, Functions

CONSTANTS
    Drawings,      \* rows of table submissions
    Requests,      \* requests that may be in flight at once
    Payloads,      \* frozen questions
    None,
    Worlds         \* the circumstances a behaviour may have

ASSUME RaceAssumption ==
    /\ IsFiniteSet(Drawings)
    /\ IsFiniteSet(Worlds)
    /\ None \notin Payloads
    /\ \A w \in Worlds :
         /\ w.kinds \subseteq {"submit", "approve", "unapprove", "reject", "unreject",
                               "delete", "export"}
         /\ w.payloads \subseteq Payloads
         /\ w.approvals \subseteq BOOLEAN
         /\ w.apart \in BOOLEAN
         /\ w.maxUniqueId \in Nat

VARIABLES
    world,            \* the circumstances of this behaviour; they never change
    rows,             \* table submissions, as committed
    nextUniqueId,     \* settings.next_unique_id, as committed
    requireApproval,  \* settings.require_approval
    request,          \* what each request has read so far
    published         \* history: the questions shipped

vars == <<world, rows, nextUniqueId, requireApproval, request, published>>

Kinds == world.kinds              \* the handlers in play
Approvals == world.approvals      \* values the setting require_approval takes
Apart == world.apart              \* whether moderators keep to different drawings
MaxUniqueId == world.maxUniqueId  \* bound on the uniqueIds handed out

NoUid == 0

Row == [status : {"absent", "pending", "approved", "rejected", "deleted"},
        unique_id : Nat,
        payload : Payloads \cup {None}]

Blank(status) == [status |-> status, unique_id |-> NoUid, payload |-> None]

\* seen holds the rows the session loaded, counter the next_unique_id it read.
Idle == [kind |-> "none", seen |-> <<>>, counter |-> NoUid]

Init ==
    /\ world \in Worlds
    /\ rows = [d \in Drawings |-> Blank("absent")]
    /\ nextUniqueId = 1
    /\ requireApproval \in Approvals
    /\ request = [r \in Requests |-> Idle]
    /\ published = {}

-----------------------------------------------------------------------------
(* Reading.                                                                *)

Approved == {d \in Drawings : rows[d].status = "approved"}

Begin(r, kind, seen) ==
    request' = [request EXCEPT ![r] = [kind |-> kind, seen |-> seen, counter |-> NoUid]]

End(r) == request' = [request EXCEPT ![r] = Idle]

\* No other request is a submission between its INSERT and its COMMIT.  submit()
\* is not suspended from the one to its return, by when it holds the write lock;
\* and it is the event loop that sends the COMMIT of any request to a thread.
LoopIsFree(r) == \A other \in Requests \ {r} : request[other].kind # "submit"

\* db.get(Submission): the row as it is now.
load(r, kind, d) ==
    /\ kind \in Kinds \ {"submit", "export"}
    /\ request[r] = Idle
    /\ rows[d].status # "absent"
    /\ Apart => \A other \in Requests : d \notin DOMAIN request[other].seen
    /\ Begin(r, kind, [x \in {d} |-> rows[d]])
    /\ UNCHANGED <<rows, nextUniqueId, requireApproval, published>>

\* The INSERT of create_submission commits by itself; only an approved row
\* has something left to do.
insert(r, d) ==
    /\ "submit" \in Kinds
    /\ request[r] = Idle
    /\ rows[d].status = "absent"
    /\ LoopIsFree(r)
    /\ LET row == Blank(IF requireApproval THEN "pending" ELSE "approved")
       IN  /\ rows' = [rows EXCEPT ![d] = row]
           /\ IF requireApproval THEN UNCHANGED request
              ELSE Begin(r, "submit", [x \in {d} |-> row])
    /\ UNCHANGED <<nextUniqueId, requireApproval, published>>

\* approved_submissions: one SELECT.  A pack with nothing to repair is sent as
\* it was read.
load_export(r) ==
    /\ "export" \in Kinds
    /\ request[r] = Idle
    /\ Approved # {}
    /\ LET seen == Restrict(rows, Approved)
       IN  IF \A d \in Approved : seen[d].unique_id # NoUid
           THEN /\ published' = published \cup Range(seen)
                /\ UNCHANGED request
           ELSE Begin(r, "export", seen) /\ UNCHANGED published
    /\ UNCHANGED <<rows, nextUniqueId, requireApproval>>

-----------------------------------------------------------------------------
(* Writing.                                                                *)

\* freeze() does not look for an id the row already has.
Freezing_Wrong_Again(q) ==
    IF q.kind \in {"submit", "export", "approve"}
    THEN {d \in DOMAIN q.seen : q.seen[d].status # "deleted"} ELSE {}

\* The rows of a request that freeze() or ensure_frozen() will number.
Freezing(q) ==
    LET unnumbered == {d \in DOMAIN q.seen : q.seen[d].unique_id = NoUid}
    IN  CASE q.kind \in {"submit", "export"} -> unnumbered
          [] q.kind = "approve" -> {d \in unnumbered : q.seen[d].status # "deleted"}
          [] q.kind = "unreject" /\ ~requireApproval ->
                {d \in unnumbered : q.seen[d].status = "rejected"}
          [] OTHER -> {}

\* The counter is read before anything is flushed.
CountsUnlocked_Wrong_Always(q) == Freezing(q) # {}

\* The session is still clean when allocate_unique_id reads the settings: no
\* status changed before, so nothing was flushed and no lock is held.
CountsUnlocked(q) ==
    /\ Freezing(q) # {}
    /\ \A d \in DOMAIN q.seen : q.seen[d].status = "approved"

read_counter(r) ==
    /\ CountsUnlocked(request[r])
    /\ request[r].counter = NoUid
    /\ request' = [request EXCEPT ![r].counter = nextUniqueId]
    /\ UNCHANGED <<rows, nextUniqueId, requireApproval, published>>

\* The counter the request allocates from: the one it read, or the one it
\* reads under the lock its first flush has taken.
CounterOf(q) == IF CountsUnlocked(q) THEN q.counter ELSE nextUniqueId

\* The ids a request hands out, in row order from the counter on.
Numberings(q) ==
    LET first == CounterOf(q)
    IN  {n \in [Freezing(q) -> first..(first + Cardinality(Freezing(q)) - 1)] : IsInjective(n)}

CounterAfter(q) ==
    IF Freezing(q) = {} THEN nextUniqueId ELSE CounterOf(q) + Cardinality(Freezing(q))

\* Retirement keeps the question.
Handled_Wrong_KeepsPayload(q, d, uid, payload) ==
    LET row == q.seen[d]
    IN  IF d \in Freezing(q)
        THEN [status |-> "approved", unique_id |-> uid, payload |-> payload]
        ELSE CASE q.kind = "approve" /\ row.status # "deleted" -> [row EXCEPT !.status = "approved"]
             [] q.kind = "unapprove" /\ row.status = "approved" ->
                   [row EXCEPT !.status = "pending", !.unique_id = NoUid]
             [] q.kind = "reject" /\ row.status = "approved" ->
                   [row EXCEPT !.status = "rejected", !.unique_id = NoUid]
             [] q.kind = "reject" /\ row.status = "pending" -> [row EXCEPT !.status = "rejected"]
             [] q.kind = "unreject" /\ row.status = "rejected" ->
                   [row EXCEPT !.status = IF requireApproval THEN "pending" ELSE "approved"]
             [] q.kind = "delete" -> [row EXCEPT !.status = "deleted", !.unique_id = NoUid]
             [] OTHER -> row

\* Rejection keeps the question, so that unreject could bring it back.
Handled_Wrong_RejectKeeps(q, d, uid, payload) ==
    LET row == q.seen[d]
    IN  IF d \in Freezing(q)
        THEN [status |-> "approved", unique_id |-> uid, payload |-> payload]
        ELSE CASE q.kind = "reject" /\ row.status # "deleted" -> [row EXCEPT !.status = "rejected"]
             [] OTHER -> row

\* What the handler makes of row d as it saw it.
Handled(q, d, uid, payload) ==
    LET row == q.seen[d]
    IN  IF d \in Freezing(q)
        THEN [status |-> "approved", unique_id |-> uid, payload |-> payload]
        ELSE CASE q.kind = "approve" /\ row.status # "deleted" -> [row EXCEPT !.status = "approved"]
             [] q.kind = "unapprove" /\ row.status = "approved" -> Blank("pending")
             [] q.kind = "reject" /\ row.status = "approved" -> Blank("rejected")
             [] q.kind = "reject" /\ row.status = "pending" -> [row EXCEPT !.status = "rejected"]
             [] q.kind = "unreject" /\ row.status = "rejected" ->
                   [row EXCEPT !.status = IF requireApproval THEN "pending" ELSE "approved"]
             [] q.kind = "delete" -> Blank("deleted")
             [] OTHER -> row

\* UPDATE sets the columns in which new differs from the row that was loaded.
Flushed(row, old, new) ==
    [column \in DOMAIN row |-> IF new[column] # old[column] THEN new[column] ELSE row[column]]

\* UNIQUE(unique_id)
UniqueHolds(table) ==
    \A a, b \in Drawings : table[a].unique_id = table[b].unique_id => a = b \/ table[a].unique_id = NoUid

\* The rest of the handler, from its first UPDATE to its COMMIT.  An export may
\* be the command, which runs in a process of its own.
write(r) ==
    LET q == request[r]
        freezing == Freezing(q)
    IN  /\ q # Idle
        /\ q.kind = "export" \/ LoopIsFree(r)
        /\ CountsUnlocked(q) => q.counter # NoUid
        /\ freezing # {} => CounterOf(q) + Cardinality(freezing) <= MaxUniqueId + 1
        /\ \E uid \in Numberings(q), payload \in [freezing -> world.payloads] :
             LET new == [d \in DOMAIN q.seen |->
                           IF d \in freezing THEN Handled(q, d, uid[d], payload[d])
                           ELSE Handled(q, d, NoUid, None)]
                 table == [d \in Drawings |->
                             IF d \in DOMAIN q.seen THEN Flushed(rows[d], q.seen[d], new[d])
                             ELSE rows[d]]
             IN  /\ UniqueHolds(table)
                 /\ rows' = table
                 /\ nextUniqueId' = CounterAfter(q)
                 /\ published' = IF q.kind = "export" THEN published \cup Range(new)
                                 ELSE published
        /\ End(r)
        /\ UNCHANGED requireApproval

\* The request ends in an error and its transaction is rolled back: a
\* constraint failed, the lock did not come in time, the process stopped.
fail(r) ==
    /\ request[r] # Idle
    /\ End(r)
    /\ UNCHANGED <<rows, nextUniqueId, requireApproval, published>>

\* The settings form, as far as it matters here.
update_settings ==
    /\ requireApproval' \in Approvals
    /\ UNCHANGED <<rows, nextUniqueId, request, published>>

-----------------------------------------------------------------------------

Next ==
    /\ \/ \E r \in Requests :
            \/ \E kind \in Kinds, d \in Drawings : load(r, kind, d)
            \/ \E d \in Drawings : insert(r, d)
            \/ load_export(r) \/ read_counter(r) \/ write(r) \/ fail(r)
       \/ update_settings
    /\ UNCHANGED world

Spec == Init /\ [][Next]_vars

-----------------------------------------------------------------------------
(* Properties.                                                             *)

\* Every request holds rows it read and a counter it read.
TypeOK ==
    /\ rows \in [Drawings -> Row]
    /\ nextUniqueId \in Nat \ {0}
    /\ requireApproval \in BOOLEAN
    /\ \A r \in Requests :
         /\ request[r].kind \in Kinds \cup {"none"}
         /\ DOMAIN request[r].seen \subseteq Drawings
         /\ \A d \in DOMAIN request[r].seen : request[r].seen[d] \in Row
         /\ request[r].counter \in Nat
    /\ published \subseteq Row

\* An id is written and cleared together with its question, and belongs to one
\* drawing: stale sessions overwrite each other, but no row ends with one and
\* not the other, and no two with the same.
OneIdOneQuestion ==
    \A a, b \in Drawings :
        /\ rows[a].unique_id = NoUid <=> rows[a].payload = None
        /\ rows[a].unique_id = rows[b].unique_id => a = b \/ rows[a].unique_id = NoUid

\* Moderators keep to different drawings, and every drawing waits for them.
Reviewed == Apart /\ Approvals = {TRUE}

\* Moderators who keep apart never leave a number on a drawing that is not
\* approved.
NumberedOnlyIfApproved == Reviewed => \A d \in Drawings : rows[d].unique_id # NoUid => rows[d].status = "approved"

\* A frozen question is never rewritten: it stays, or the drawing is retired
\* (models.py:6-8).
WrittenOnce ==
    [][\A d \in Drawings : Reviewed /\ rows[d].unique_id # NoUid =>
         \/ rows'[d].unique_id = NoUid
         \/ /\ rows'[d].unique_id = rows[d].unique_id
            /\ rows'[d].payload = rows[d].payload]_vars

Ledger == INSTANCE UniqueIdLedger WITH
    MaxId <- Max({w.maxUniqueId : w \in Worlds}),
    held <- [d \in Drawings |-> rows[d].unique_id],
    next <- nextUniqueId

\* While every drawing is reviewed, overlapping approvals, retirements and
\* exports keep the ledger: ids are issued in increasing order, and one that
\* was retired never returns.
LedgerKept == Ledger!Init /\ [][Reviewed => Ledger!Next]_(Ledger!ledgerVars)

Live(uid) == \E d \in Drawings : rows[d].unique_id = uid

NoReissue == \A uid \in 1..(nextUniqueId - 1) : ~Live(uid) => ~Live(uid)'

\* A uniqueId that was retired is never assigned again (admin.py:284-287).
NeverReissued == [][NoReissue]_vars

=============================================================================
