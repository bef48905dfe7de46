------------------------------ MODULE DrawFlow ------------------------------
(***************************************************************************)
(* One player's drawings, from an assignment to a file and a row: draw.py, *)
(* routes/draw.py, images.py, submissions.py and freechoice.py.  The       *)
(* player has several tabs (or devices), and several requests may be in    *)
(* flight, of one tab too: the page disables Submit while a drawing is     *)
(* being posted, but not Skip, and a page can be reloaded.  Every table,   *)
(* index and file name here is keyed by the player, so players only meet   *)
(* in the picker's counts; the picker may therefore deal any Pokemon.      *)
(*                                                                         *)
(* Synchronous routes run in a thread pool: each reads, then writes in one *)
(* transaction.  submit is a coroutine of the event loop: it reads the     *)
(* open session, may be suspended while the upload is read, and then runs  *)
(* without another suspension from next_index to the last UPDATE, whose    *)
(* transaction is committed after it returns.  The write lock of SQLite is *)
(* held from that UPDATE to its COMMIT.  With Faults, a request may end in *)
(* an error, its answer may be lost, and the process may stop.  An         *)
(* operator may run scripts/backup.sh meanwhile.                           *)
(*                                                                         *)
(* X_Wrong_Y, before X, is X with a plausible slip of the code, which one  *)
(* of the properties must notice.                                          *)
(***************************************************************************)
EXTENDS Integers, SequencesExt

CONSTANTS
    Pokemon,       \* enabled rows of the catalog
    Tabs,          \* the player's open pages
    Requests,      \* places for requests in flight
    ClientOf,      \* the address each tab posts from
    Quota,         \* settings.free_choice_quota
    None,
    Worlds         \* the circumstances a behaviour may have

ASSUME DrawAssumption ==
    /\ None \notin Pokemon
    /\ IsFiniteSet(Tabs) /\ IsFiniteSet(Requests)
    /\ None \notin Tabs /\ DOMAIN ClientOf = Tabs
    /\ Quota \in Nat
    /\ \A w \in Worlds : /\ w.tabs \subseteq Tabs /\ w.requests \subseteq Requests
                         /\ w.faults \in BOOLEAN /\ w.backup \in BOOLEAN
                         /\ w.maxSessions \in Nat /\ w.maxRows \in Nat

VARIABLES
    world,      \* the circumstances of this behaviour; they never change
    sessions,   \* table draw_sessions of the player, in id order
    rows,       \* table submissions of the player, in id order
    files,      \* what each file of the images directory depicts
    shown,      \* the Pokemon each tab is drawing
    request,    \* where each request comes from, what it has read, its next step
    throttled,  \* clients with a hit in submit_limiter
    backup      \* the archive: its snapshot of rows, and its files

vars == <<world, sessions, rows, files, shown, request, throttled, backup>>

Faults == world.faults            \* whether requests and the process may fail
MaxSessions == world.maxSessions  \* bound on the sessions opened
MaxRows == world.maxRows          \* bound on the rows inserted

\* One request at a time, from whatever tab.
InTurn == Cardinality(world.requests) = 1

Session == [pokemon : Pokemon, chosen : BOOLEAN,
            outcome : {"open", "submitted", "skipped", "timed_out_empty"}]

\* posted is history: what the player sent; session is history as well.
Row == [pokemon : Pokemon, index : Nat \ {0}, chosen : BOOLEAN, deleted : BOOLEAN,
        session : Nat, posted : Requests \X Pokemon]

Steps == {"idle", "assign", "skipped", "timed_out_empty", "open_choice",
          "posted", "read", "store", "insert", "resolve", "commit"}

Idle == [step |-> "idle", tab |-> None, drawn |-> None, session |-> 0, index |-> 0]

NoBackup == [step |-> "none", rows |-> <<>>, files |-> {}]

Init ==
    /\ world \in Worlds
    /\ sessions = <<>>
    /\ rows = <<>>
    /\ files = <<>>
    /\ shown = [t \in Tabs |-> None]
    /\ request = [r \in Requests |-> Idle]
    /\ throttled = {}
    /\ backup = NoBackup

-----------------------------------------------------------------------------
(* What the handlers read.                                                 *)

Sessions == DOMAIN sessions
Rows == DOMAIN rows

Open == {s \in Sessions : sessions[s].outcome = "open"}

\* current_session: ORDER BY id DESC; 0 is None.
current_session == Max(Open \cup {0})

\* An index that only looks at drawings still in the gallery.
next_index_Wrong_Live(p) ==
    1 + Max({rows[i].index : i \in {j \in Rows : rows[j].pokemon = p /\ ~rows[j].deleted}} \cup {0})

\* next_index counts deleted rows as well.
next_index(p) ==
    1 + Max({rows[i].index : i \in {j \in Rows : rows[j].pokemon = p}} \cup {0})

_count(chosen) == Cardinality({i \in Rows : rows[i].chosen = chosen /\ ~rows[i].deleted})

\* Every drawing earns, the free ones too.
available_Wrong_AllEarn ==
    IF Quota = 0 THEN 0 ELSE (_count(FALSE) + _count(TRUE)) \div Quota - _count(TRUE)

available == IF Quota = 0 THEN 0 ELSE _count(FALSE) \div Quota - _count(TRUE)

can_choose == available > 0

\* A synchronous submit would run in the thread pool.
OnLoop_Wrong_Threads(r) == TRUE

\* The event loop runs one submit at a time.
OnLoop(r) ==
    \A other \in Requests \ {r} : request[other].step \notin {"store", "insert", "resolve"}

\* No other request holds the write lock.
CanWrite(r) == \A other \in Requests \ {r} : request[other].step # "commit"

-----------------------------------------------------------------------------
(* Steps of a request.                                                     *)

\* A request of tab t that has read a session, and its next step.
Begin(r, t, step, session) ==
    /\ request[r] = Idle
    /\ request' = [request EXCEPT ![r] = [@ EXCEPT !.step = step, !.tab = t, !.session = session]]

Goto(r, step) == request' = [request EXCEPT ![r].step = step]
End(r) == request' = [request EXCEPT ![r] = Idle]

\* The answer sends tab t to a page, unless it is lost or the browser has been
\* sent elsewhere meanwhile.
Navigate(t, pokemon) ==
    \/ shown' = [shown EXCEPT ![t] = pokemon]
    \/ (Faults \/ ~InTurn) /\ UNCHANGED shown

\* The page stays as it is.
Leave_Wrong_Stays(t) == UNCHANGED shown

\* The browser leaves the page.
Leave(t) == Navigate(t, None)

NewSession(p, chosen) == [pokemon |-> p, chosen |-> chosen, outcome |-> "open"]

\* The INSERT is not caught by a unique index.
AddSession_Wrong_NoIndex(table, p, chosen) ==
    IF Len(table) < MaxSessions THEN Append(table, NewSession(p, chosen)) ELSE table

\* The rest of assign() over a table: the open session is resumed, whether it
\* was there or won the race for uq_open_draw_session.
AddSession(table, p, chosen) ==
    IF \E s \in DOMAIN table : table[s].outcome = "open" THEN table
    ELSE IF Len(table) < MaxSessions THEN Append(table, NewSession(p, chosen))
    ELSE table

\* draw() and start(), which sends the browser to draw().
draw(r, t) ==
    /\ request[r] = Idle
    /\ \/ Open = {} /\ Begin(r, t, "assign", 0) /\ UNCHANGED shown
       \/ Open # {} /\ Navigate(t, sessions[current_session].pokemon) /\ UNCHANGED request
    /\ UNCHANGED <<sessions, rows, files, throttled>>

\* pick() and the INSERT; EmptyPool leaves an empty page.
assign(r) ==
    /\ request[r].step = "assign"
    /\ CanWrite(r)
    /\ \/ \E p \in Pokemon : sessions' = AddSession(sessions, p, FALSE)
       \/ UNCHANGED sessions
    /\ LET open == {s \in DOMAIN sessions' : sessions'[s].outcome = "open"}
       IN  Navigate(request[r].tab, IF open = {} THEN None ELSE sessions'[Max(open)].pokemon)
    /\ End(r)
    /\ UNCHANGED <<rows, files, throttled>>

\* skip_current() with no session open goes back to draw().
skip_current(r, t) ==
    /\ shown[t] # None
    /\ Open # {}
    /\ Begin(r, t, "skipped", current_session)
    /\ UNCHANGED <<sessions, rows, files, shown, throttled>>

\* timed_out() with no session open assigns one.
timed_out(r, t) ==
    /\ shown[t] # None
    /\ Begin(r, t, IF Open = {} THEN "assign" ELSE "timed_out_empty", current_session)
    /\ UNCHANGED <<sessions, rows, files, shown, throttled>>

\* resolve() the session that was read, whatever became of it, and assign()
\* in the same transaction.  EmptyPool is caught, and the first half commits.
resolve_and_assign(r) ==
    /\ request[r].step \in {"skipped", "timed_out_empty"}
    /\ CanWrite(r)
    /\ LET resolved == [sessions EXCEPT ![request[r].session].outcome = request[r].step]
       IN  \/ \E p \in Pokemon : sessions' = AddSession(resolved, p, FALSE)
           \/ sessions' = resolved
    /\ Leave(request[r].tab)
    /\ End(r)
    /\ UNCHANGED <<rows, files, throttled>>

\* choose(): the checks, then assign() with the choice.
choose(r, t) ==
    /\ Open = {}
    /\ can_choose
    /\ Begin(r, t, "open_choice", 0)
    /\ UNCHANGED <<sessions, rows, files, shown, throttled>>

open_choice(r) ==
    /\ request[r].step = "open_choice"
    /\ CanWrite(r)
    /\ \E p \in Pokemon : sessions' = AddSession(sessions, p, TRUE)
    /\ Leave(request[r].tab)
    /\ End(r)
    /\ UNCHANGED <<rows, files, throttled>>

-----------------------------------------------------------------------------
(* submit()                                                                *)

\* Submissions that may still insert a row.
InFlight == {r \in Requests : request[r].step \in {"posted", "read", "store", "insert"}}

\* fetch() sends what tab t shows; it keeps travelling when the page is left.
post_drawing(r, t) ==
    /\ request[r] = Idle
    /\ shown[t] # None
    /\ Len(rows) + Cardinality(InFlight) < MaxRows
    /\ request' = [request EXCEPT ![r] = [@ EXCEPT !.step = "posted", !.tab = t, !.drawn = shown[t]]]
    /\ UNCHANGED <<sessions, rows, files, shown, throttled>>

Refused(r) == Open = {} \/ ClientOf[request[r].tab] \in throttled

\* The session is resolved before there is anything to show for it.
submit_Wrong_ResolvesFirst(r) ==
    /\ request[r].step = "posted"
    /\ OnLoop(r)
    /\ ~Refused(r)
    /\ throttled' = throttled \cup {ClientOf[request[r].tab]}
    /\ request' = [request EXCEPT ![r] = [@ EXCEPT !.step = "read", !.session = current_session]]
    /\ sessions' = [sessions EXCEPT ![current_session].outcome = "submitted"]
    /\ UNCHANGED <<rows, files, shown>>

\* The session is read and the limiter hit, or it is a 409 or a 429.
submit(r) ==
    /\ request[r].step = "posted"
    /\ OnLoop(r)
    /\ \/ Refused(r) /\ End(r) /\ UNCHANGED throttled
       \/ /\ ~Refused(r)
          /\ throttled' = throttled \cup {ClientOf[request[r].tab]}
          /\ request' = [request EXCEPT ![r] = [@ EXCEPT !.step = "read", !.session = current_session]]
    /\ UNCHANGED <<sessions, rows, files, shown>>

TargetOf(r) == sessions[request[r].session]
FileOf(r) == <<TargetOf(r).pokemon, request[r].index>>
PostedBy(r) == <<r, request[r].drawn>>

\* An existing file is not looked for.
store_drawing_Wrong_Clobbers(r) ==
    /\ request[r].step = "read"
    /\ OnLoop(r)
    /\ request' = [request EXCEPT ![r].step = "store",
                                  ![r].index = next_index(TargetOf(r).pokemon)]
    /\ UNCHANGED <<sessions, rows, files, shown, throttled>>

\* The upload has been read.  It is refused (not a PNG of the right size, a
\* blank canvas, a file name that is taken) or given an index.
store_drawing(r) ==
    /\ request[r].step = "read"
    /\ OnLoop(r)
    /\ LET target == TargetOf(r).pokemon
           index == next_index(target)
       IN  \/ End(r)
           \/ /\ <<target, index>> \notin DOMAIN files
              /\ request' = [request EXCEPT ![r].step = "store", ![r].index = index]
    /\ UNCHANGED <<sessions, rows, files, shown, throttled>>

\* The rest of write_once: the temporary file is complete before it is renamed
\* over whatever has the name.
write_once(r) ==
    /\ request[r].step = "store"
    /\ files' = [f \in DOMAIN files \cup {FileOf(r)} |->
                   IF f = FileOf(r) THEN PostedBy(r) ELSE files[f]]
    /\ Goto(r, "insert")
    /\ UNCHANGED <<sessions, rows, shown, throttled>>

NewRow(r) ==
    [pokemon |-> TargetOf(r).pokemon, index |-> request[r].index, chosen |-> TargetOf(r).chosen,
     deleted |-> FALSE, session |-> request[r].session, posted |-> PostedBy(r)]

\* The row is built from whatever session is open by now.
create_submission_Wrong_Current(r) ==
    /\ request[r].step = "insert"
    /\ CanWrite(r)
    /\ rows' = Append(rows, [NewRow(r) EXCEPT
                               !.chosen = current_session # 0 /\ sessions[current_session].chosen])
    /\ Goto(r, "resolve")
    /\ UNCHANGED <<sessions, files, shown, throttled>>

\* The INSERT, which commits by itself, or a 400 when
\* uq_submission_pair_index says the index is taken.
create_submission(r) ==
    /\ request[r].step = "insert"
    /\ CanWrite(r)
    /\ IF \E i \in Rows : <<rows[i].pokemon, rows[i].index>> = FileOf(r)
       THEN End(r) /\ UNCHANGED rows
       ELSE /\ rows' = Append(rows, NewRow(r))
            /\ Goto(r, "resolve")
    /\ UNCHANGED <<sessions, files, shown, throttled>>

\* freeze() is the matter of Moderation; the UPDATEs take the write lock.
resolve_draw_session(r) ==
    /\ request[r].step = "resolve"
    /\ CanWrite(r)
    /\ Goto(r, "commit")
    /\ UNCHANGED <<sessions, rows, files, shown, throttled>>

\* get_db commits when submit() has returned, over whatever outcome the session
\* was given meanwhile.
commit(r) ==
    /\ request[r].step = "commit"
    /\ sessions' = [sessions EXCEPT ![request[r].session].outcome = "submitted"]
    /\ Leave(request[r].tab)
    /\ End(r)
    /\ UNCHANGED <<rows, files, throttled>>

-----------------------------------------------------------------------------
(* The rest of the world.                                                  *)

\* An Admin deletes a drawing; its file stays.
delete(i) ==
    /\ ~rows[i].deleted
    /\ \A r \in Requests : request[r].step # "commit"
    /\ rows' = [rows EXCEPT ![i].deleted = TRUE]
    /\ UNCHANGED <<sessions, files, shown, request, throttled>>

\* Ten seconds pass.
window_passes ==
    /\ throttled # {}
    /\ throttled' = {}
    /\ UNCHANGED <<sessions, rows, files, shown, request>>

\* The request ends in an error: the write lock did not come in time, the disk
\* is full, the connection is gone.  What it had not committed is rolled back.
fail(r) ==
    /\ Faults
    /\ request[r] # Idle
    /\ End(r)
    /\ UNCHANGED <<sessions, rows, files, shown, throttled>>

\* The process stops and starts again; the limiter lived in it.
restart ==
    /\ Faults
    /\ request' = [r \in Requests |-> Idle]
    /\ throttled' = {}
    /\ UNCHANGED <<sessions, rows, files, shown>>

-----------------------------------------------------------------------------
(* scripts/backup.sh.                                                      *)

\* The snapshot of the database, through the backup API.
backup_snapshot ==
    /\ backup.step = "none"
    /\ backup' = [backup EXCEPT !.step = "snapshot", !.rows = rows]

\* tar begins: what is there will be in the archive.
tar_begins ==
    /\ backup.step = "snapshot"
    /\ backup' = [backup EXCEPT !.step = "tar", !.files = DOMAIN files]

\* The live database is archived as well, and a restore prefers it.
tar_ends_Wrong_KeepsLive ==
    /\ backup.step = "tar"
    /\ backup' = [backup EXCEPT !.step = "done", !.rows = rows]

\* tar ends, with some of the files that came meanwhile.
tar_ends ==
    /\ backup.step = "tar"
    /\ \E late \in SUBSET (DOMAIN files \ backup.files) :
         backup' = [backup EXCEPT !.step = "done", !.files = @ \cup late]

Backup ==
    /\ world.backup
    /\ backup_snapshot \/ tar_begins \/ tar_ends
    /\ UNCHANGED <<sessions, rows, files, shown, request, throttled>>

-----------------------------------------------------------------------------

Serve ==
    \/ \E r \in world.requests :
         \/ \E t \in world.tabs :
              draw(r, t) \/ skip_current(r, t) \/ timed_out(r, t) \/ choose(r, t) \/ post_drawing(r, t)
         \/ assign(r) \/ resolve_and_assign(r) \/ open_choice(r)
         \/ submit(r) \/ store_drawing(r) \/ write_once(r)
         \/ create_submission(r) \/ resolve_draw_session(r) \/ commit(r)
         \/ fail(r)
    \/ \E i \in Rows : delete(i)
    \/ window_passes
    \/ restart

Next ==
    /\ \/ Backup
       \/ Serve /\ UNCHANGED backup
    /\ UNCHANGED world

Spec == Init /\ [][Next]_vars

-----------------------------------------------------------------------------
(* Properties.                                                             *)

Request == [step : Steps, tab : Tabs \cup {None}, drawn : Pokemon \cup {None},
            session : 0..Len(sessions), index : Nat]

\* The tables hold rows of their types, and a request refers to a session.
TypeOK ==
    /\ sessions \in Seq(Session) /\ Len(sessions) <= MaxSessions
    /\ rows \in Seq(Row) /\ Len(rows) <= MaxRows
    /\ \A f \in DOMAIN files : f \in Pokemon \X Nat /\ files[f] \in Requests \X Pokemon
    /\ shown \in [Tabs -> Pokemon \cup {None}]
    /\ request \in [Requests -> Request]
    /\ throttled \subseteq {ClientOf[t] : t \in Tabs}
    /\ backup.rows \in Seq(Row) /\ backup.files \subseteq DOMAIN files

\* The player never has two assignments to resume (models.py:191-201).
OneOpenSession == \A a, b \in Open : a = b

\* Every row has its file, and it is the picture its own submission posted,
\* though files and rows are written apart and a submission may be cut short
\* anywhere (submissions.py:49-53).
FileOfItsRow ==
    \A i \in Rows : LET f == <<rows[i].pokemon, rows[i].index>>
                    IN  f \in DOMAIN files /\ files[f] = rows[i].posted

\* A file is never overwritten or removed (images.py:5-7).
FilesPermanent ==
    [][\A f \in DOMAIN files : f \in DOMAIN files' /\ files'[f] = files[f]]_vars

\* A row carries the Pokemon and the free-pick flag of the session that was
\* assigned to it, whatever was assigned meanwhile.
RowMatchesSession ==
    \A i \in Rows : /\ rows[i].pokemon = sessions[rows[i].session].pokemon
                    /\ rows[i].chosen = sessions[rows[i].session].chosen

\* Nothing fails and one request follows another, from whatever tab.
Sequential == ~Faults /\ InTurn

\* The same, from one tab.
Calm == Sequential /\ Cardinality(world.tabs) = 1

Quiet == \A r \in Requests : request[r] = Idle

DrawnIn(s) == {i \in Rows : rows[i].session = s}

\* A session said to be submitted has its drawing, whatever overlaps or fails.
\* While no request is at work: a session that was drawn has ended, though a
\* Skip overlapped the upload, where nothing has failed; and where requests
\* follow each other, it was drawn once exactly if it was submitted.
OutcomeTellsDrawn ==
    /\ \A s \in Sessions : sessions[s].outcome = "submitted" => DrawnIn(s) # {}
    /\ ~Faults /\ Quiet => \A i \in Rows : sessions[rows[i].session].outcome # "open"
    /\ Sequential /\ Quiet =>
         \A s \in Sessions :
           Cardinality(DrawnIn(s)) = IF sessions[s].outcome = "submitted" THEN 1 ELSE 0

\* The picture under a Pokemon's name was drawn for that Pokemon, by a calm
\* player.
DrawnForItsPokemon == Calm => \A i \in Rows : rows[i].posted[2] = rows[i].pokemon

\* The picture under a Pokemon's name was drawn for that Pokemon.
ShownIsDrawn == \A i \in Rows : rows[i].posted[2] = rows[i].pokemon

\* While no request is at work, the next drawing of any Pokemon can be stored,
\* where nothing has failed before, whatever has overlapped.
NextIndexFree ==
    ~Faults /\ Quiet => \A p \in Pokemon : <<p, next_index(p)>> \notin DOMAIN files

\* An index that was lost is not in the way of another drawing
\* (submissions.py:49-51).
OrphansHarmless == Quiet => \A p \in Pokemon : <<p, next_index(p)>> \notin DOMAIN files

\* Every free pick in the gallery was paid for by Quota drawings the picker
\* dealt, deleted since or not, where requests follow each other
\* (freechoice.py:7-24).
PicksPaidFor ==
    Sequential => Quota * _count(TRUE) <= Cardinality({i \in Rows : ~rows[i].chosen})

\* No row of a backup lacks its file, though drawings are stored while the
\* backup is made (backup.sh:4-6, submissions.py:49-53).
BackupComplete ==
    backup.step = "done" =>
        \A i \in DOMAIN backup.rows : <<backup.rows[i].pokemon, backup.rows[i].index>> \in backup.files

=============================================================================
