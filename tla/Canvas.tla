------------------------------- MODULE Canvas -------------------------------
(***************************************************************************)
(* The drawing page (static/draw.js), from the first stroke until the      *)
(* browser leaves it, and what its requests find at the server             *)
(* (routes/draw.py).  One event handler or callback runs at a time; an     *)
(* image that restore() loads, the blob of the canvas and the answers of   *)
(* the server arrive when they arrive.                                     *)
(*                                                                         *)
(* At the server a submission reads the session, then the upload; its row  *)
(* commits alone, and the session with the request.  The page may give up  *)
(* waiting at any moment; the submission goes on without it.               *)
(*                                                                         *)
(* A picture is the set of marks on it.  The player has one pointer, and   *)
(* presses Ctrl-Z and Ctrl-Y at any time, also while the pointer is down.  *)
(*                                                                         *)
(* hurried and revived are history: whether the canvas was read or edited  *)
(* while a restore was loading or undone during a stroke, and whether a    *)
(* picture came back by Undo or Redo since the last clear.                 *)
(*                                                                         *)
(* X_Wrong_Y, before X, is X with a plausible slip of the code, which one  *)
(* of the properties must notice.                                          *)
(***************************************************************************)
EXTENDS Integers, FiniteSets, SequencesExt

CONSTANTS
    UNDO_DEPTH,
    None,
    Worlds       \* the circumstances a behaviour may have

ASSUME CanvasAssumption ==
    /\ UNDO_DEPTH \in Nat \ {0}
    /\ \A w \in Worlds :
         /\ w.submits \in BOOLEAN
         /\ w.maxStrokes \in Nat /\ w.maxLoads \in Nat /\ w.maxPosts \in Nat
         /\ None \notin [tool : {"brush", "eraser"}, mark : w.marks]
    /\ None \notin {"mine", "other"}

VARIABLES
    world,        \* the circumstances of this behaviour; they never change
    canvas,       \* the picture in the backing store
    drawing,      \* the stroke in progress
    undos, redos, \* state.undo and state.redo
    loading,      \* images that restore() is loading
    strokes,      \* state.strokes
    submitting,   \* state.submitting
    disabled,     \* the Submit button
    upload,       \* the submission the page waits for
    timeout,      \* the request to /draw/timeout
    timer, page,
    told,         \* what the last toast said
    session,      \* the player's open session: of this page, or opened after it
    posts,        \* the submissions sent from this page, in order, at the server
    hurried, revived

editor == <<canvas, drawing, undos, redos, loading, hurried, revived>>
network == <<upload, timeout, session, posts>>
vars == <<world, editor, strokes, submitting, disabled, network, timer, page, told>>

Marks == world.marks
MaxStrokes == world.maxStrokes  \* bound on state.strokes
MaxLoads == world.maxLoads      \* bound on the images that load at once
MaxPosts == world.maxPosts      \* bound on the submissions before Submit is pressed

NoUpload == [step |-> "none", picture |-> {}]

Init ==
    /\ world \in Worlds
    /\ canvas = {}
    /\ drawing = None
    /\ undos = <<>> /\ redos = <<>>
    /\ loading = <<>>
    /\ strokes = 0
    /\ submitting = FALSE
    /\ disabled = TRUE
    /\ upload = NoUpload
    /\ timeout = "none"
    /\ timer \in IF world.submits THEN {"running", "off"} ELSE {"off"}
    /\ page = "open"
    /\ told = None
    /\ session = "mine"
    /\ posts = <<>>
    /\ hurried = FALSE /\ revived = FALSE

-----------------------------------------------------------------------------
(* History.                                                                *)

\* A new stroke leaves what was undone.
pushUndo_Wrong_KeepsRedo ==
    LET longer == Append(undos, canvas)
    IN  /\ undos' = IF Len(longer) > UNDO_DEPTH THEN Tail(longer) ELSE longer
        /\ hurried' = (hurried \/ loading # <<>>)
        /\ UNCHANGED redos

pushUndo ==
    LET longer == Append(undos, canvas)
    IN  /\ undos' = IF Len(longer) > UNDO_DEPTH THEN Tail(longer) ELSE longer
        /\ redos' = <<>>
        /\ hurried' = (hurried \/ loading # <<>>)

\* restore() replaces what is still loading.
restore(picture) ==
    /\ Len(loading) < MaxLoads
    /\ loading' = Append(loading, picture)
    /\ hurried' = (hurried \/ loading # <<>> \/ drawing # None)
    /\ UNCHANGED <<world, canvas, drawing, revived, strokes, submitting, disabled, network,
                   timer, page, told>>

undo ==
    /\ page = "open" /\ undos # <<>>
    /\ redos' = Append(redos, canvas)
    /\ undos' = Front(undos)
    /\ restore(Last(undos))

redo ==
    /\ page = "open" /\ redos # <<>>
    /\ undos' = Append(undos, canvas)
    /\ redos' = Front(redos)
    /\ restore(Last(redos))

\* An image is there: any of them, for their order is the browser's affair.
\* During a stroke of the eraser, drawImage erases.
onload ==
    /\ page = "open"
    /\ \E i \in DOMAIN loading :
         /\ canvas' = IF drawing # None /\ drawing.tool = "eraser" THEN {} ELSE loading[i]
         /\ loading' = RemoveAt(loading, i)
    /\ revived' = TRUE
    /\ UNCHANGED <<world, drawing, undos, redos, hurried, strokes, submitting, disabled,
                   network, timer, page, told>>

-----------------------------------------------------------------------------
(* Drawing.                                                                *)

Inked(picture, stroke) ==
    IF stroke.tool = "eraser" THEN picture \ {stroke.mark} ELSE picture \cup {stroke.mark}

\* updateStrokeState(): the button follows.
Count(n, busy) == strokes' = n /\ disabled' = (n = 0 \/ busy)

beginStroke(stroke) ==
    /\ page = "open" /\ drawing = None /\ strokes < MaxStrokes
    /\ pushUndo
    /\ drawing' = stroke
    /\ canvas' = Inked(canvas, stroke)
    /\ UNCHANGED <<world, loading, revived, strokes, submitting, disabled, network, timer, page, told>>

\* The whole path is stroked again.
extendStroke ==
    /\ page = "open" /\ drawing # None
    /\ canvas' = Inked(canvas, drawing)
    /\ UNCHANGED <<world, drawing, undos, redos, loading, hurried, revived, strokes,
                   submitting, disabled, network, timer, page, told>>

endStroke ==
    /\ page = "open" /\ drawing # None
    /\ drawing' = None
    /\ Count(strokes + 1, submitting)
    /\ UNCHANGED <<world, canvas, undos, redos, loading, hurried, revived, submitting,
                   network, timer, page, told>>

\* A fill is not a stroke.
floodFill_Wrong_NotCounted(mark) ==
    /\ page = "open" /\ drawing = None /\ strokes < MaxStrokes
    /\ pushUndo
    /\ canvas' = canvas \cup {mark}
    /\ UNCHANGED <<world, drawing, loading, revived, strokes, submitting, disabled, network,
                   timer, page, told>>

floodFill(mark) ==
    /\ page = "open" /\ drawing = None /\ strokes < MaxStrokes
    /\ pushUndo
    /\ canvas' = canvas \cup {mark}
    /\ Count(strokes + 1, submitting)
    /\ UNCHANGED <<world, drawing, loading, revived, submitting, network, timer, page, told>>

clear ==
    /\ page = "open" /\ drawing = None
    /\ pushUndo
    /\ canvas' = {}
    /\ Count(0, submitting)
    /\ revived' = FALSE
    /\ UNCHANGED <<world, drawing, loading, submitting, network, timer, page, told>>

-----------------------------------------------------------------------------
(* Submitting.                                                             *)

\* submit(): nothing while another is at work, a toast without strokes, else
\* the blob of what is on the canvas now.
submit ==
    IF submitting THEN UNCHANGED <<submitting, disabled, upload, told, strokes>>
    ELSE IF strokes = 0 THEN told' = "empty" /\ UNCHANGED <<submitting, disabled, upload, strokes>>
    ELSE /\ submitting' = TRUE
         /\ disabled' = TRUE
         /\ upload' = [step |-> "blob", picture |-> canvas]
         /\ UNCHANGED <<told, strokes>>

press_submit ==
    /\ world.submits /\ page = "open" /\ ~disabled /\ Len(posts) < MaxPosts
    /\ submit
    /\ UNCHANGED <<world, editor, timeout, session, posts, timer, page>>

\* The button is left as it is.
Failed_Wrong_LeavesButton(message) ==
    /\ submitting' = FALSE
    /\ told' = message
    /\ UNCHANGED <<strokes, disabled>>

\* Back to the canvas.
Failed(message) ==
    /\ submitting' = FALSE
    /\ told' = message
    /\ Count(strokes, FALSE)

\* toBlob() calls back, and fetch() sends the picture with the strokes of now.
blob ==
    /\ page = "open" /\ upload.step = "blob"
    /\ \/ upload' = NoUpload /\ Failed("unreadable") /\ UNCHANGED posts
       \/ /\ upload' = [upload EXCEPT !.step = "sent"]
          /\ posts' = Append(posts, [step |-> "sent", empty |-> strokes = 0, blank |-> upload.picture = {},
                                     session |-> None, lost |-> FALSE])
          /\ UNCHANGED <<submitting, told, strokes, disabled>>
    /\ UNCHANGED <<world, editor, timeout, session, timer, page>>

\* fetch() without a catch.
answer_Wrong_NoCatch ==
    /\ page = "open" /\ upload.step = "sent"
    /\ upload' = NoUpload
    /\ \/ Last(posts).step = "ok" /\ page' = "left" /\ UNCHANGED <<submitting, told, strokes, disabled>>
       \/ Last(posts).step = "refused" /\ Failed("refused") /\ UNCHANGED page
    /\ UNCHANGED <<world, editor, timeout, session, posts, timer>>

\* Submissions the server is at work on, and those whose row is there.
AtWork == {i \in DOMAIN posts : posts[i].step \in {"sent", "read", "stored"}}
Stored == {i \in DOMAIN posts : posts[i].step \in {"stored", "ok", "torn"}}

\* The answer; or an error of the network, or an answer that is not JSON, at
\* any moment, and the server may be at work still.
answer ==
    /\ page = "open" /\ upload.step = "sent"
    /\ upload' = NoUpload
    /\ LET last == Len(posts)
       IN  \/ /\ posts[last].step = "ok"
              /\ page' = "left"
              /\ UNCHANGED <<submitting, told, strokes, disabled, posts>>
           \/ /\ posts[last].step = "refused"
              /\ Failed("refused")
              /\ UNCHANGED <<page, posts>>
           \/ /\ Failed("network")
              /\ posts' = [posts EXCEPT ![last].lost = last \in AtWork]
              /\ UNCHANGED page
    /\ UNCHANGED <<world, editor, timeout, session, timer>>

-----------------------------------------------------------------------------
(* A submission at the server.                                             *)

page_vars == <<editor, strokes, submitting, disabled, upload, timeout, timer, page, told>>

Goto(i, step) == posts' = [posts EXCEPT ![i].step = step]

\* submit() of routes/draw.py, until the upload is read: a session is open,
\* there are strokes, and the last submission is some time ago.
read_session(i) ==
    /\ posts[i].step = "sent"
    /\ \/ Goto(i, "refused")
       \/ /\ session # None /\ ~posts[i].empty
          /\ posts' = [posts EXCEPT ![i].step = "read", ![i].session = session]
    /\ UNCHANGED <<world, page_vars, session>>

\* create_submission(): the row is committed when its savepoint is released,
\* and the UPDATE of the session then holds the write lock; or the picture is
\* refused, being blank or too large, its index taken, or the lock not free.
create_submission(i) ==
    /\ posts[i].step = "read"
    /\ \/ Goto(i, "refused")
       \/ /\ ~posts[i].blank
          /\ \A other \in DOMAIN posts : posts[other].step # "stored"
          /\ Goto(i, "stored")
    /\ UNCHANGED <<world, page_vars, session>>

\* The session is left open.
commit_Wrong_LeavesOpen(i) ==
    /\ posts[i].step = "stored"
    /\ Goto(i, "ok") \/ Goto(i, "torn")
    /\ UNCHANGED <<world, page_vars, session>>

\* get_db() commits the outcome of the session that was read, before there is
\* an answer; or that fails, and the row stays.
commit(i) ==
    /\ posts[i].step = "stored"
    /\ \/ /\ Goto(i, "ok")
          /\ session' = IF session = posts[i].session THEN None ELSE session
       \/ Goto(i, "torn") /\ UNCHANGED session
    /\ UNCHANGED <<world, page_vars>>

-----------------------------------------------------------------------------
(* The timer.                                                              *)

\* The last tick.
expire ==
    /\ page = "open" /\ timer = "running"
    /\ timer' = "expired"
    /\ \/ strokes > 0 /\ submit /\ UNCHANGED timeout
       \/ strokes = 0 /\ timeout' = "sent" /\ UNCHANGED <<submitting, disabled, upload, told, strokes>>
    /\ UNCHANGED <<world, editor, session, posts, page>>

\* timed_out(): the session is resolved and another one opened, when the write
\* lock is free.
serve_timeout ==
    /\ timeout = "sent"
    /\ \A i \in DOMAIN posts : posts[i].step # "stored"
    /\ timeout' = "ok"
    /\ session' = "other"
    /\ UNCHANGED <<world, editor, strokes, submitting, disabled, upload, posts, timer, page, told>>

\* Whatever the answer, the browser leaves for /draw.
timeout_answer ==
    /\ page = "open" /\ timeout # "none"
    /\ timeout' = "none"
    /\ page' = "left"
    /\ UNCHANGED <<world, editor, strokes, submitting, disabled, upload, session, posts, timer, told>>

-----------------------------------------------------------------------------

Strokes == [tool : {"brush", "eraser"}, mark : Marks]

Next ==
    \/ undo \/ redo \/ onload
    \/ \E stroke \in Strokes : beginStroke(stroke)
    \/ extendStroke \/ endStroke
    \/ \E mark \in Marks : floodFill(mark)
    \/ clear
    \/ press_submit \/ blob \/ answer
    \/ \E i \in DOMAIN posts : read_session(i) \/ create_submission(i) \/ commit(i)
    \/ expire \/ serve_timeout \/ timeout_answer

Spec == Init /\ [][Next]_vars

\* toBlob() calls back, time passes, and a request is answered or fails.
FairSpec ==
    /\ Spec
    /\ WF_vars(blob) /\ WF_vars(answer)
    /\ WF_vars(expire) /\ WF_vars(timeout_answer)

-----------------------------------------------------------------------------
(* Properties.                                                             *)

\* The picture the player will see when everything has loaded.
Visible == IF loading = <<>> THEN canvas ELSE Last(loading)

Editor == INSTANCE UndoHistory WITH
    Blank <- {}, Depth <- UNDO_DEPTH,
    past <- undos, present <- Visible, future <- redos

\* A player who waits for pictures to load, and does not undo during a stroke,
\* has the history that Undo and Redo promise.
HistoryKept == Editor!Init /\ [][hurried' \/ Editor!Next]_(Editor!vars)

\* While no submission is at work, Submit can be pressed exactly if there are
\* strokes, however the last submission ended.
NotLockedOut ==
    page = "open" /\ upload.step = "none" => ~submitting /\ (disabled <=> strokes = 0)

\* Until time is up, one page stores one picture, though answers are lost and
\* the player tries again; unless an earlier submission was given up while the
\* server was at work on it, or its row was committed and its session was not.
\* Every picture is for the session of the page.
StoredOnce ==
    timer # "expired" =>
        /\ \A i \in Stored : posts[i].session = "mine"
        /\ \A i, j \in Stored : i < j => posts[i].lost \/ posts[i].step = "torn"

\* Time that runs out discards a canvas only if it is empty, but for the stroke
\* in progress and for pictures brought back after a clear (draw.js:467-470).
DiscardsOnlyEmpty ==
    [][timeout = "none" /\ timeout' = "sent" => canvas = {} \/ drawing # None \/ revived]_vars

\* Waiting ends: with the page left, or with a canvas that can be used again.
WaitingEnds ==
    submitting \/ timeout # "none" ~> page = "left" \/ (~submitting /\ timeout = "none")

=============================================================================
