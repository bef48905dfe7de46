---------------------------- MODULE CanvasProofs ----------------------------
(***************************************************************************)
(* Proofs about Canvas, for every set of marks, every depth of the history *)
(* and any number of strokes, of images that load at once and of           *)
(* submissions.                                                            *)
(***************************************************************************)
EXTENDS Canvas, SequenceTheorems, TLAPS

-----------------------------------------------------------------------------
(* Types.                                                                  *)

Pictures == SUBSET Marks

Upload == [step : {"none", "blob", "sent"}, picture : Pictures]

Steps == {"sent", "read", "stored", "ok", "refused", "torn"}

Post == [step : Steps, empty : BOOLEAN, blank : BOOLEAN,
         session : {"mine", "other", None}, lost : BOOLEAN]

EditorOK ==
    /\ canvas \in Pictures
    /\ drawing \in Strokes \cup {None}
    /\ undos \in Seq(Pictures)
    /\ redos \in Seq(Pictures)
    /\ loading \in Seq(Pictures)
    /\ hurried \in BOOLEAN
    /\ revived \in BOOLEAN

NetworkOK ==
    /\ upload \in Upload
    /\ timeout \in {"none", "sent", "ok"}
    /\ session \in {"mine", "other", None}
    /\ posts \in Seq(Post)

\* Every variable holds a value of its type.
TypeOK ==
    /\ world \in Worlds
    /\ EditorOK
    /\ NetworkOK
    /\ strokes \in Nat
    /\ submitting \in BOOLEAN
    /\ disabled \in BOOLEAN
    /\ timer \in {"running", "off", "expired"}
    /\ page \in {"open", "left"}
    /\ told \in {None, "empty", "unreadable", "refused", "network"}

\* The worlds do not change, and with them what a picture can be.
LEMMA WorldStays ==
  ASSUME Next
  PROVE  world' = world /\ Pictures' = Pictures /\ Strokes' = Strokes
  <1>1. world' = world
    BY DEF Next, undo, redo, restore, onload, beginStroke, extendStroke, endStroke, floodFill, clear,
           press_submit, blob, answer, read_session, create_submission, commit, expire,
           serve_timeout, timeout_answer
  <1>2. QED
    BY <1>1 DEF Pictures, Marks, Strokes

\* An inked picture is a picture, and inking it again changes nothing.
LEMMA InkedFacts ==
  ASSUME NEW picture \in Pictures, NEW stroke \in Strokes
  PROVE  /\ Inked(picture, stroke) \in Pictures
         /\ Inked(Inked(picture, stroke), stroke) = Inked(picture, stroke)
  BY DEF Inked, Pictures, Strokes

\* The first n elements of a sequence.
LEMMA FirstOnes ==
  ASSUME NEW S, NEW s \in Seq(S), NEW n \in 0..Len(s)
  PROVE  SubSeq(s, 1, n) \in Seq(S) /\ Len(SubSeq(s, 1, n)) = n
  OBVIOUS

\* All but the last of a sequence, and its last.
LEMMA FrontLast ==
  ASSUME NEW S, NEW s \in Seq(S), s # <<>>
  PROVE  Front(s) \in Seq(S) /\ Len(Front(s)) = Len(s) - 1 /\ Last(s) \in S
  <1>1. Len(s) \in Nat /\ Len(s) # 0
    BY EmptySeq
  <1>2. SubSeq(s, 1, Len(s) - 1) \in Seq(S) /\ Len(SubSeq(s, 1, Len(s) - 1)) = Len(s) - 1
    <2>1. Len(s) - 1 \in 0..Len(s)
      BY <1>1
    <2>2. QED
      BY <2>1, FirstOnes
  <1>3. Last(s) \in S
    BY <1>1 DEF Last
  <1>4. QED
    BY <1>2, <1>3 DEF Front

\* An index of at most one.
LEMMA OnlyOne ==
  ASSUME NEW n \in Nat, n <= 1, NEW i \in 1..n
  PROVE  n = 1 /\ i = n
  OBVIOUS

\* A sequence without one of its elements.
LEMMA RemovedFacts ==
  ASSUME NEW S, NEW s \in Seq(S), NEW i \in DOMAIN s
  PROVE  RemoveAt(s, i) \in Seq(S) /\ Len(RemoveAt(s, i)) = Len(s) - 1
  <1>1. i \in 1..Len(s) /\ Len(s) \in Nat
    OBVIOUS
  <1>2. SubSeq(s, 1, i - 1) \in Seq(S) /\ Len(SubSeq(s, 1, i - 1)) = i - 1
    BY <1>1, SubSeqProperties
  <1>3. SubSeq(s, i + 1, Len(s)) \in Seq(S) /\ Len(SubSeq(s, i + 1, Len(s))) = Len(s) - i
    BY <1>1, SubSeqProperties
  <1> DEFINE before == SubSeq(s, 1, i - 1)
             after == SubSeq(s, i + 1, Len(s))
  <1>4. before \o after \in Seq(S) /\ Len(before \o after) = Len(before) + Len(after)
    <2> HIDE DEF before, after
    <2>1. before \in Seq(S) /\ after \in Seq(S)
      BY <1>2, <1>3 DEF before, after
    <2>2. QED
      BY <2>1, ConcatProperties
  <1>5. RemoveAt(s, i) = before \o after /\ Len(before) + Len(after) = Len(s) - 1
    BY <1>1, <1>2, <1>3, SMTT(40) DEF RemoveAt
  <1>6. QED
    BY <1>4, <1>5, Zenon

-----------------------------------------------------------------------------
(* The editor.                                                             *)

\* What was seen before and what was undone are never more than the depth.
DepthInv == Len(undos) + Len(redos) <= UNDO_DEPTH

\* Unless the player was hurried, one picture at most is loading, none of them
\* during a stroke, and the stroke is on the canvas.
CalmInv ==
    ~hurried =>
        /\ Len(loading) <= 1
        /\ drawing # None => loading = <<>> /\ canvas = Inked(canvas, drawing)

\* Without a stroke, done or in progress, the canvas is empty, unless Undo or
\* Redo brought a picture back.
EmptyInv ==
    strokes = 0 /\ drawing = None /\ ~revived => canvas = {}

\* A stroke, a fill or a clear is remembered.
LEMMA PushFacts ==
  ASSUME TypeOK, DepthInv, pushUndo
  PROVE  /\ undos' \in Seq(Pictures) /\ redos' = <<>>
         /\ Len(undos') + Len(redos') <= UNDO_DEPTH
         /\ undos' = Editor!Newest(Append(undos, canvas))
         /\ hurried' \in BOOLEAN
         /\ ~hurried' => ~hurried /\ loading = <<>>
  <1> DEFINE longer == Append(undos, canvas)
  <1>1. undos \in Seq(Pictures) /\ redos \in Seq(Pictures) /\ canvas \in Pictures
    BY DEF TypeOK, EditorOK
  <1>2. longer \in Seq(Pictures) /\ longer # <<>> /\ Len(longer) = Len(undos) + 1
    BY <1>1, AppendProperties
  <1>3. undos' = IF Len(longer) > UNDO_DEPTH THEN Tail(longer) ELSE longer
    BY DEF pushUndo
  <1>4. Len(undos) \in Nat /\ Len(redos) \in Nat /\ UNDO_DEPTH \in Nat \ {0}
        /\ Len(undos) <= UNDO_DEPTH
    BY <1>1, CanvasAssumption DEF DepthInv
  <1>5. redos' = <<>> /\ hurried' \in BOOLEAN /\ (~hurried' => ~hurried /\ loading = <<>>)
    BY DEF pushUndo, TypeOK, EditorOK
  <1> HIDE DEF longer
  <1>6. Editor!Newest(longer) =
          SubSeq(longer, Len(longer) - Editor!Min({UNDO_DEPTH, Len(longer)}) + 1, Len(longer))
    BY DEF Editor!Newest
  <1>7. Editor!Min({UNDO_DEPTH, Len(longer)}) = IF Len(longer) > UNDO_DEPTH THEN UNDO_DEPTH ELSE Len(longer)
    BY <1>2, <1>4 DEF Editor!Min
  <1>8. CASE Len(longer) > UNDO_DEPTH
    <2>1. Len(longer) - UNDO_DEPTH + 1 = 2
      BY <1>2, <1>4, <1>8
    <2>2. Editor!Newest(longer) = Tail(longer)
      BY <1>2, <1>6, <1>7, <1>8, <2>1, TailIsSubSeq
    <2>3. Tail(longer) \in Seq(Pictures) /\ Len(Tail(longer)) = Len(undos)
      BY <1>2, <1>4, HeadTailProperties
    <2>4. QED
      BY <1>3, <1>4, <1>5, <1>8, <2>2, <2>3 DEF longer
  <1>9. CASE ~(Len(longer) > UNDO_DEPTH)
    <2>1. Len(longer) - Len(longer) + 1 = 1
      BY <1>2, <1>4
    <2>2. Editor!Newest(longer) = longer
      BY <1>2, <1>6, <1>7, <1>9, <2>1, SubSeqFull
    <2>3. Len(longer) + 0 <= UNDO_DEPTH
      BY <1>2, <1>4, <1>9
    <2>4. QED
      BY <1>2, <1>3, <1>5, <1>9, <2>2, <2>3 DEF longer
  <1>10. QED
    BY <1>8, <1>9

\* What a step does to the editor: its variables keep their types and its
\* invariants, and the history is as promised unless the player is hurried.
EditorInv == EditorOK /\ DepthInv /\ CalmInv /\ EmptyInv

Promised == hurried' \/ Editor!Next \/ UNCHANGED <<undos, Visible, redos>>

\* Undo and Redo move one picture from one stack to the other.
LEMMA UndoEditor ==
  ASSUME TypeOK, EditorInv, Next, undo \/ redo
  PROVE  EditorInv' /\ Promised
  <1>1. /\ undos \in Seq(Pictures) /\ redos \in Seq(Pictures) /\ loading \in Seq(Pictures)
        /\ canvas \in Pictures /\ Pictures' = Pictures /\ Strokes' = Strokes
    BY WorldStays DEF EditorInv, EditorOK
  <1>2. UNCHANGED <<canvas, drawing, revived, strokes>>
    BY DEF undo, redo, restore
  <1> HIDE DEF Pictures
  <1>3. PICK picture \in Pictures :
          /\ undos' \in Seq(Pictures) /\ redos' \in Seq(Pictures)
          /\ Len(undos') + Len(redos') = Len(undos) + Len(redos)
          /\ loading' = Append(loading, picture)
          /\ \/ /\ undos # <<>> /\ redos' = Append(redos, canvas)
                /\ undos' = Front(undos) /\ picture = Last(undos)
             \/ /\ redos # <<>> /\ undos' = Append(undos, canvas)
                /\ redos' = Front(redos) /\ picture = Last(redos)
    <2>1. CASE undo
      <3>1. /\ Append(redos, canvas) \in Seq(Pictures)
            /\ Len(Append(redos, canvas)) = Len(redos) + 1
        BY <1>1, AppendProperties
      <3>2. /\ undos # <<>> /\ redos' = Append(redos, canvas) /\ undos' = Front(undos)
            /\ loading' = Append(loading, Last(undos))
        BY <2>1 DEF undo, restore
      <3>3. Front(undos) \in Seq(Pictures) /\ Len(Front(undos)) = Len(undos) - 1
            /\ Last(undos) \in Pictures
        BY <1>1, <3>2, FrontLast
      <3>4. Len(undos') + Len(redos') = Len(undos) + Len(redos)
        BY <1>1, <3>1, <3>2, <3>3
      <3>5. QED
        BY <3>1, <3>2, <3>3, <3>4
    <2>2. CASE redo
      <3>1. /\ Append(undos, canvas) \in Seq(Pictures)
            /\ Len(Append(undos, canvas)) = Len(undos) + 1
        BY <1>1, AppendProperties
      <3>2. /\ redos # <<>> /\ undos' = Append(undos, canvas) /\ redos' = Front(redos)
            /\ loading' = Append(loading, Last(redos))
        BY <2>2 DEF redo, restore
      <3>3. Front(redos) \in Seq(Pictures) /\ Len(Front(redos)) = Len(redos) - 1
            /\ Last(redos) \in Pictures
        BY <1>1, <3>2, FrontLast
      <3>4. Len(undos') + Len(redos') = Len(undos) + Len(redos)
        BY <1>1, <3>1, <3>2, <3>3
      <3>5. QED
        BY <3>1, <3>2, <3>3, <3>4
    <2>3. QED
      BY <2>1, <2>2
  <1>4. /\ loading' \in Seq(Pictures) /\ Len(loading') = Len(loading) + 1
        /\ loading'[Len(loading) + 1] = picture
    BY <1>1, <1>3, AppendProperties
  <1>5. hurried' \in BOOLEAN /\ (~hurried' => ~hurried /\ loading = <<>> /\ drawing = None)
    BY DEF undo, redo, restore, EditorInv, EditorOK
  <1>6. EditorOK'
    BY <1>1, <1>2, <1>3, <1>4, <1>5 DEF EditorInv, EditorOK
  <1>7. DepthInv'
    BY <1>3 DEF EditorInv, DepthInv
  <1>8. CalmInv'
    BY <1>2, <1>4, <1>5 DEF CalmInv
  <1>9. EmptyInv'
    BY <1>2 DEF EditorInv, EmptyInv
  <1>10. Promised
    <2>1. SUFFICES ASSUME ~hurried' PROVE Editor!Next
      BY DEF Promised
    <2>2. loading = <<>> /\ Visible = canvas
      BY <1>5, <2>1 DEF Visible
    <2>3. loading' # <<>> /\ Last(loading') = picture
      BY <1>4, <2>2 DEF Last
    <2>4. Visible' = picture
      BY <2>3 DEF Visible
    <2>5. \/ /\ undos # <<>> /\ redos' = Append(redos, Visible)
             /\ undos' = Front(undos) /\ Visible' = Last(undos)
          \/ /\ redos # <<>> /\ undos' = Append(undos, Visible)
             /\ redos' = Front(redos) /\ Visible' = Last(redos)
      BY <1>3, <2>2, <2>4
    <2>6. QED
      BY <2>5 DEF Editor!Next, Editor!Undo, Editor!Redo, Editor!Front, Editor!Last, Front, Last
  <1>11. QED
    BY <1>6, <1>7, <1>8, <1>9, <1>10 DEF EditorInv

\* A picture that has loaded is the one that was to be seen.
LEMMA LoadEditor ==
  ASSUME TypeOK, EditorInv, Next, onload
  PROVE  EditorInv' /\ Promised
  <1>1. /\ loading \in Seq(Pictures) /\ canvas \in Pictures
        /\ Pictures' = Pictures /\ Strokes' = Strokes
    BY WorldStays DEF EditorInv, EditorOK
  <1>2. PICK i \in DOMAIN loading :
          /\ canvas' = IF drawing # None /\ drawing.tool = "eraser" THEN {} ELSE loading[i]
          /\ loading' = RemoveAt(loading, i)
    BY DEF onload
  <1>3. UNCHANGED <<drawing, undos, redos, hurried, strokes>> /\ revived' = TRUE
    BY DEF onload
  <1>4. {} \in Pictures
    BY DEF Pictures
  <1> HIDE DEF Pictures
  <1>5. canvas' \in Pictures
    BY <1>1, <1>2, <1>4
  <1>6. loading' \in Seq(Pictures) /\ Len(loading') = Len(loading) - 1
    BY <1>1, <1>2, RemovedFacts
  <1>7. EditorOK'
    BY <1>1, <1>3, <1>5, <1>6 DEF EditorInv, EditorOK
  <1>8. DepthInv'
    BY <1>3 DEF EditorInv, DepthInv
  <1>9. EmptyInv'
    BY <1>3 DEF EmptyInv
  <1>10. ASSUME ~hurried
         PROVE  loading' = <<>> /\ drawing = None /\ canvas' = Last(loading) /\ loading # <<>>
    <2>1. Len(loading) <= 1 /\ i \in 1..Len(loading) /\ Len(loading) \in Nat
      BY <1>1, <1>10 DEF EditorInv, CalmInv
    <2>2. Len(loading) = 1 /\ i = Len(loading)
      BY <2>1, OnlyOne, Zenon
    <2>3. loading # <<>>
      BY <2>2
    <2>4. drawing = None
      BY <1>10, <2>3 DEF EditorInv, CalmInv
    <2>5. Len(loading') = 0
      BY <1>6, <2>2
    <2>6. loading' = <<>>
      BY <1>6, <2>5
    <2>7. canvas' = loading[Len(loading)]
      BY <1>2, <2>2, <2>4
    <2>8. QED
      BY <2>3, <2>4, <2>6, <2>7 DEF Last
  <1>11. CalmInv'
    BY <1>3, <1>10 DEF CalmInv
  <1>12. Promised
    BY <1>3, <1>10 DEF Promised, Visible
  <1>13. QED
    BY <1>7, <1>8, <1>9, <1>11, <1>12 DEF EditorInv

\* A stroke begins, an area is filled, or the canvas is cleared.
LEMMA EditEditor ==
  ASSUME TypeOK, EditorInv, pushUndo, Pictures' = Pictures, Strokes' = Strokes,
         loading' = loading, canvas' \in Pictures, drawing' \in Strokes \cup {None},
         revived' \in BOOLEAN,
         drawing' # None => canvas' = Inked(canvas', drawing'),
         EmptyInv'
  PROVE  EditorInv' /\ Promised
  <1> HIDE DEF Pictures, Strokes
  <1>1. DepthInv
    BY DEF EditorInv
  <1>2. /\ undos' \in Seq(Pictures) /\ redos' = <<>>
        /\ Len(undos') + Len(redos') <= UNDO_DEPTH
        /\ undos' = Editor!Newest(Append(undos, canvas))
        /\ hurried' \in BOOLEAN
        /\ ~hurried' => ~hurried /\ loading = <<>>
    BY <1>1, PushFacts
  <1>3. loading' \in Seq(Pictures)
    BY DEF EditorInv, EditorOK
  <1>4. <<>> \in Seq(Pictures)
    BY EmptySeq
  <1>5. EditorOK'
    BY <1>2, <1>3, <1>4 DEF EditorOK
  <1>6. DepthInv'
    BY <1>2 DEF DepthInv
  <1>7. CalmInv'
    <2>1. Len(<<>>) <= 1
      OBVIOUS
    <2>2. QED
      BY <1>2, <2>1 DEF CalmInv
  <1>8. Promised
    <2>1. SUFFICES ASSUME ~hurried' PROVE Editor!Next
      BY DEF Promised
    <2>2. Visible = canvas
      BY <1>2, <2>1 DEF Visible
    <2>3. undos' = Editor!Newest(Append(undos, Visible)) /\ redos' = <<>>
      BY <1>2, <2>2
    <2>4. QED
      BY <2>3 DEF Editor!Next, Editor!Edit
  <1>9. QED
    BY <1>5, <1>6, <1>7, <1>8 DEF EditorInv

\* A stroke begins.
LEMMA StrokeEditor ==
  ASSUME TypeOK, EditorInv, Next, NEW stroke \in Strokes, beginStroke(stroke)
  PROVE  EditorInv' /\ Promised
  <1>1. /\ canvas \in Pictures /\ Pictures' = Pictures /\ Strokes' = Strokes /\ revived \in BOOLEAN
    BY WorldStays DEF EditorInv, EditorOK
  <1>2. /\ pushUndo /\ drawing' = stroke /\ canvas' = Inked(canvas, stroke)
        /\ UNCHANGED <<loading, revived, strokes>>
    BY DEF beginStroke
  <1>3. Inked(canvas, stroke) \in Pictures /\ Inked(Inked(canvas, stroke), stroke) = Inked(canvas, stroke)
    BY <1>1, InkedFacts
  <1>4. stroke # None
    BY CanvasAssumption DEF Strokes, Marks, TypeOK
  <1>5. EmptyInv'
    BY <1>2, <1>4 DEF EmptyInv
  <1> HIDE DEF Pictures, Strokes
  <1>6. canvas' \in Pictures /\ drawing' \in Strokes \cup {None} /\ revived' \in BOOLEAN
        /\ canvas' = Inked(canvas', drawing')
    BY <1>1, <1>2, <1>3
  <1>7. QED
    BY <1>1, <1>2, <1>5, <1>6, EditEditor

\* An area is filled.
LEMMA FillEditor ==
  ASSUME TypeOK, EditorInv, Next, NEW mark \in Marks, floodFill(mark)
  PROVE  EditorInv' /\ Promised
  <1>1. /\ canvas \in Pictures /\ Pictures' = Pictures /\ Strokes' = Strokes /\ revived \in BOOLEAN
    BY WorldStays DEF EditorInv, EditorOK
  <1>2. /\ pushUndo /\ drawing = None /\ drawing' = None /\ canvas' = canvas \cup {mark}
        /\ UNCHANGED <<loading, revived>> /\ strokes' = strokes + 1
    BY DEF floodFill, Count
  <1>3. canvas \cup {mark} \in Pictures
    BY <1>1 DEF Pictures
  <1>4. strokes' # 0
    BY <1>2 DEF TypeOK
  <1>5. EmptyInv'
    BY <1>4 DEF EmptyInv
  <1> HIDE DEF Pictures, Strokes
  <1>6. canvas' \in Pictures /\ drawing' \in Strokes \cup {None} /\ revived' \in BOOLEAN
        /\ drawing' = None
    BY <1>1, <1>2, <1>3
  <1>7. QED
    BY <1>1, <1>2, <1>5, <1>6, EditEditor

\* The canvas is cleared.
LEMMA ClearEditor ==
  ASSUME TypeOK, EditorInv, Next, clear
  PROVE  EditorInv' /\ Promised
  <1>1. Pictures' = Pictures /\ Strokes' = Strokes
    BY WorldStays
  <1>2. /\ pushUndo /\ drawing = None /\ drawing' = None /\ canvas' = {}
        /\ loading' = loading /\ revived' = FALSE
    BY DEF clear
  <1>3. {} \in Pictures
    BY DEF Pictures
  <1>4. EmptyInv'
    BY <1>2 DEF EmptyInv
  <1> HIDE DEF Pictures, Strokes
  <1>5. canvas' \in Pictures /\ drawing' \in Strokes \cup {None} /\ revived' \in BOOLEAN
    BY <1>2, <1>3
  <1>6. QED
    BY <1>1, <1>2, <1>4, <1>5, EditEditor

\* A stroke goes on, or ends.
LEMMA DrawEditor ==
  ASSUME TypeOK, EditorInv, Next, extendStroke \/ endStroke
  PROVE  EditorInv' /\ Promised
  <1>1. /\ canvas \in Pictures /\ Pictures' = Pictures /\ Strokes' = Strokes
        /\ drawing \in Strokes \cup {None} /\ drawing # None
    BY WorldStays DEF EditorInv, EditorOK, extendStroke, endStroke
  <1>2. UNCHANGED <<undos, redos, loading, hurried, revived>>
    BY DEF extendStroke, endStroke
  <1>3. CASE extendStroke
    <2>1. canvas' = Inked(canvas, drawing) /\ drawing' = drawing /\ strokes' = strokes
      BY <1>3 DEF extendStroke
    <2>2. Inked(canvas, drawing) \in Pictures
          /\ Inked(Inked(canvas, drawing), drawing) = Inked(canvas, drawing)
      BY <1>1, InkedFacts
    <2> HIDE DEF Pictures, Strokes
    <2>3. EditorOK'
      BY <1>1, <1>2, <2>1, <2>2 DEF EditorInv, EditorOK
    <2>4. DepthInv' /\ EmptyInv'
      BY <1>1, <1>2, <2>1 DEF EditorInv, DepthInv, EmptyInv
    <2>5. ~hurried => canvas' = canvas
      BY <1>1, <2>1 DEF EditorInv, CalmInv
    <2>6. CalmInv'
      BY <1>2, <2>1, <2>5 DEF EditorInv, CalmInv
    <2>7. Promised
      BY <1>2, <2>5 DEF Promised, Visible
    <2>8. QED
      BY <2>3, <2>4, <2>6, <2>7 DEF EditorInv
  <1>4. CASE endStroke
    <2>1. canvas' = canvas /\ drawing' = None /\ strokes' = strokes + 1
      BY <1>4 DEF endStroke, Count
    <2>2. strokes' # 0
      BY <2>1 DEF TypeOK
    <2> HIDE DEF Pictures, Strokes
    <2>3. EditorOK'
      BY <1>1, <1>2, <2>1 DEF EditorInv, EditorOK
    <2>4. DepthInv' /\ EmptyInv'
      BY <1>2, <2>2 DEF EditorInv, DepthInv, EmptyInv
    <2>5. CalmInv'
      BY <1>2, <2>1 DEF EditorInv, CalmInv
    <2>6. Promised
      BY <1>2, <2>1 DEF Promised, Visible
    <2>7. QED
      BY <2>3, <2>4, <2>5, <2>6 DEF EditorInv
  <1>5. QED
    BY <1>3, <1>4

\* What the requests and the timer do leaves the editor alone.
LEMMA RestEditor ==
  ASSUME TypeOK, EditorInv, Next,
         \/ press_submit \/ blob \/ answer
         \/ \E i \in DOMAIN posts : read_session(i) \/ create_submission(i) \/ commit(i)
         \/ expire \/ serve_timeout \/ timeout_answer
  PROVE  EditorInv' /\ Promised /\ strokes' = strokes /\ UNCHANGED editor
  <1>1. Pictures' = Pictures /\ Strokes' = Strokes
    BY WorldStays
  <1>2. UNCHANGED editor /\ strokes' = strokes
    BY DEF press_submit, blob, answer, read_session, create_submission, commit, page_vars, expire,
           serve_timeout, timeout_answer, submit, Failed, Count
  <1> HIDE DEF Pictures, Strokes
  <1>3. UNCHANGED <<canvas, drawing, undos, redos, loading, hurried, revived>>
    BY <1>2 DEF editor
  <1>4. EditorOK' /\ DepthInv'
    BY <1>1, <1>3 DEF EditorInv, EditorOK, DepthInv
  <1>5. CalmInv' /\ EmptyInv'
    BY <1>2, <1>3 DEF EditorInv, CalmInv, EmptyInv
  <1>6. Promised
    BY <1>3 DEF Promised, Visible
  <1>7. QED
    BY <1>2, <1>4, <1>5, <1>6 DEF EditorInv

\* So with every step.
LEMMA EditorNext ==
  ASSUME TypeOK, EditorInv, Next
  PROVE  EditorInv' /\ Promised
  BY UndoEditor, LoadEditor, StrokeEditor, FillEditor, ClearEditor, DrawEditor, RestEditor DEF Next

-----------------------------------------------------------------------------
(* The button, the requests and what the server stores.                    *)

\* The button follows the strokes and the submission, and on an open page a
\* submission is at work exactly while submitting is set.
ButtonInv ==
    /\ disabled <=> strokes = 0 \/ submitting
    /\ page = "open" => (submitting <=> upload.step # "none")

\* The page waits for a submission it has sent.
WaitInv == upload.step = "sent" => posts # <<>>

\* A submission that has read the session; and one the page does not wait for:
\* it has ended, or was given up.
HasRead(p) == p.step \in {"read", "stored", "ok", "torn"}
Over(p) == p.lost \/ p.step \in {"ok", "refused", "torn"}

\* What submissions ps do to a session s until time is up: each one reads the
\* session of the page, which the first that succeeds closes; when one is sent
\* the earlier ones are over, and when one has read the session no earlier one
\* has succeeded since, unless it was given up.
Fair(ps, s) ==
    /\ s \in {"mine", None}
    /\ \A i \in DOMAIN ps : HasRead(ps[i]) => ps[i].session = "mine"
    /\ s = "mine" => \A i \in DOMAIN ps : ps[i].step # "ok"
    /\ \A i, j \in DOMAIN ps : i < j => Over(ps[i])
    /\ \A i, j \in DOMAIN ps : i < j /\ HasRead(ps[j]) => ps[i].lost \/ ps[i].step # "ok"

AllOver(ps) == \A i \in DOMAIN ps : Over(ps[i])

StoreInv ==
    timer # "expired" =>
        /\ timeout = "none"
        /\ Fair(posts, session)
        /\ upload.step # "sent" => AllOver(posts)

RequestInv == ButtonInv /\ WaitInv /\ StoreInv

RestOK ==
    /\ strokes \in Nat
    /\ submitting \in BOOLEAN
    /\ disabled \in BOOLEAN
    /\ timer \in {"running", "off", "expired"}
    /\ page \in {"open", "left"}
    /\ told \in {None, "empty", "unreadable", "refused", "network"}

\* Drawing and restoring leave the requests, the timer and the page alone.
LEMMA EditingRests ==
  ASSUME TypeOK, Next,
         \/ undo \/ redo \/ onload
         \/ \E stroke \in Strokes : beginStroke(stroke)
         \/ extendStroke \/ endStroke
         \/ \E mark \in Marks : floodFill(mark)
         \/ clear
  PROVE  /\ UNCHANGED <<upload, timeout, session, posts, submitting, timer, page, told>>
         /\ strokes' \in Nat
         /\ \/ strokes' = strokes /\ disabled' = disabled
            \/ disabled' = (strokes' = 0 \/ submitting)
  <1>1. UNCHANGED <<upload, timeout, session, posts, submitting, timer, page, told>>
    BY DEF network, undo, redo, restore, onload, beginStroke, extendStroke, endStroke, floodFill, clear
  <1>2. strokes \in Nat
    BY DEF TypeOK
  <1>3. CASE \/ undo \/ redo \/ onload \/ extendStroke
             \/ \E stroke \in Strokes : beginStroke(stroke)
    BY <1>1, <1>2, <1>3 DEF undo, redo, restore, onload, extendStroke, beginStroke
  <1>4. CASE endStroke \/ clear \/ \E mark \in Marks : floodFill(mark)
    BY <1>1, <1>2, <1>4 DEF endStroke, clear, floodFill, Count
  <1>5. QED
    BY <1>3, <1>4

\* Those steps keep the types and the invariants of the requests.
LEMMA EditingRest ==
  ASSUME TypeOK, RequestInv, Next,
         \/ undo \/ redo \/ onload
         \/ \E stroke \in Strokes : beginStroke(stroke)
         \/ extendStroke \/ endStroke
         \/ \E mark \in Marks : floodFill(mark)
         \/ clear
  PROVE  NetworkOK' /\ RestOK' /\ RequestInv'
  <1>1. /\ UNCHANGED <<upload, timeout, session, posts, submitting, timer, page, told>>
        /\ strokes' \in Nat
        /\ \/ strokes' = strokes /\ disabled' = disabled
           \/ disabled' = (strokes' = 0 \/ submitting)
    BY EditingRests, Zenon
  <1>2. Pictures' = Pictures
    BY WorldStays
  <1> HIDE DEF Pictures, Strokes
  <1>3. NetworkOK'
    BY <1>1, <1>2 DEF TypeOK, NetworkOK, Upload, Post
  <1>4. RestOK'
    BY <1>1 DEF TypeOK, RestOK
  <1>5. ButtonInv'
    <2>1. CASE strokes' = strokes /\ disabled' = disabled
      BY <1>1, <2>1 DEF RequestInv, ButtonInv
    <2>2. CASE disabled' = (strokes' = 0 \/ submitting)
      <3>1. page' = "open" => (submitting' <=> upload'.step # "none")
        BY <1>1 DEF RequestInv, ButtonInv
      <3>2. disabled' <=> strokes' = 0 \/ submitting'
        BY <1>1, <2>2
      <3>3. QED
        BY <3>1, <3>2 DEF ButtonInv
    <2>3. QED
      BY <1>1, <2>1, <2>2
  <1>6. WaitInv' /\ StoreInv'
    BY <1>1 DEF RequestInv, WaitInv, StoreInv
  <1>7. QED
    BY <1>3, <1>4, <1>5, <1>6 DEF RequestInv

\* submit() keeps the types and the button's invariant.
LEMMA SubmitFacts ==
  ASSUME TypeOK, ButtonInv, submit, page = "open", page' = page, Pictures' = Pictures
  PROVE  /\ upload' \in Upload /\ submitting' \in BOOLEAN /\ disabled' \in BOOLEAN
         /\ strokes' = strokes /\ told' \in {None, "empty", "unreadable", "refused", "network"}
         /\ ButtonInv'
         /\ upload' = upload \/ (upload.step = "none" /\ upload'.step = "blob")
  <1>1. upload \in Upload /\ canvas \in Pictures /\ strokes \in Nat
        /\ submitting \in BOOLEAN /\ disabled \in BOOLEAN
        /\ told \in {None, "empty", "unreadable", "refused", "network"}
    BY DEF TypeOK, NetworkOK, EditorOK
  <1>2. [step |-> "blob", picture |-> canvas] \in Upload
    BY <1>1 DEF Upload
  <1> HIDE DEF Pictures, Upload
  <1>3. CASE submitting \/ strokes = 0
    <2>1. /\ UNCHANGED <<submitting, disabled, upload, strokes>>
          /\ told' = told \/ told' = "empty"
      BY <1>3 DEF submit
    <2>2. ButtonInv'
      BY <2>1 DEF ButtonInv
    <2>3. QED
      BY <1>1, <2>1, <2>2
  <1>4. CASE ~submitting /\ strokes # 0
    BY <1>1, <1>2, <1>4 DEF submit, ButtonInv
  <1>5. QED
    BY <1>3, <1>4

\* A submission that is sent when the earlier ones are over.
LEMMA FairAppend ==
  ASSUME NEW s, NEW ps \in Seq(Post), NEW p \in Post, p.step = "sent", Fair(ps, s), AllOver(ps)
  PROVE  Append(ps, p) \in Seq(Post) /\ Append(ps, p) # <<>> /\ Fair(Append(ps, p), s)
  <1> DEFINE qs == Append(ps, p)
  <1>1. /\ qs \in Seq(Post) /\ Len(qs) = Len(ps) + 1 /\ Len(ps) \in Nat
        /\ qs[Len(ps) + 1] = p
        /\ \A i \in DOMAIN ps : qs[i] = ps[i]
    BY AppendProperties
  <1>2. DOMAIN qs = 1..(Len(ps) + 1) /\ DOMAIN ps = 1..Len(ps) /\ qs # <<>>
    BY <1>1
  <1>3. ~HasRead(p) /\ p.step # "ok"
    BY DEF HasRead
  <1> HIDE DEF qs
  <1>4. ASSUME NEW i \in DOMAIN qs
        PROVE  \/ i \in DOMAIN ps /\ qs[i] = ps[i]
               \/ qs[i] = p
    <2>1. CASE i = Len(ps) + 1
      BY <1>1, <2>1
    <2>2. CASE i # Len(ps) + 1
      <3>1. i \in DOMAIN ps
        BY <1>1, <1>2, <2>2
      <3>2. QED
        BY <1>1, <3>1
    <2>3. QED
      BY <2>1, <2>2
  <1>5. ASSUME NEW i \in DOMAIN qs, NEW j \in DOMAIN qs, i < j
        PROVE  i \in DOMAIN ps /\ qs[i] = ps[i]
    <2>1. i \in DOMAIN ps
      BY <1>1, <1>2, <1>5
    <2>2. QED
      BY <1>1, <2>1
  <1>6. ASSUME NEW i \in DOMAIN qs, HasRead(qs[i])
        PROVE  i \in DOMAIN ps /\ qs[i] = ps[i]
    BY <1>3, <1>4, <1>6
  <1>7. \A i \in DOMAIN qs : HasRead(qs[i]) => qs[i].session = "mine"
    BY <1>6 DEF Fair
  <1>8. s = "mine" => \A i \in DOMAIN qs : qs[i].step # "ok"
    BY <1>3, <1>4 DEF Fair
  <1>9. \A i, j \in DOMAIN qs : i < j => Over(qs[i])
    BY <1>5 DEF AllOver
  <1>10. \A i, j \in DOMAIN qs : i < j /\ HasRead(qs[j]) => qs[i].lost \/ qs[i].step # "ok"
    BY <1>5, <1>6 DEF Fair
  <1>11. Fair(qs, s)
    BY <1>7, <1>8, <1>9, <1>10 DEF Fair
  <1>12. QED
    BY <1>1, <1>2, <1>11 DEF qs

\* A submission the server takes a step further, and what that does to the session.
LEMMA FairStep ==
  ASSUME NEW s, NEW t, NEW ps \in Seq(Post), NEW k \in DOMAIN ps, NEW p \in Post, Fair(ps, s),
         ps[k].step \in {"sent", "read", "stored"}, p.lost = ps[k].lost,
         \/ p.step = "refused" /\ t = s
         \/ p.step = "read" /\ p.session = s /\ s # None /\ t = s
         \/ p.step \in {"stored", "torn"} /\ HasRead(ps[k]) /\ p.session = ps[k].session /\ t = s
         \/ /\ p.step = "ok" /\ HasRead(ps[k]) /\ p.session = ps[k].session
            /\ t = IF s = p.session THEN None ELSE s
  PROVE  Fair([ps EXCEPT ![k] = p], t) /\ (AllOver(ps) => AllOver([ps EXCEPT ![k] = p]))
  <1> DEFINE qs == [ps EXCEPT ![k] = p]
  <1>1. /\ DOMAIN qs = DOMAIN ps /\ qs[k] = p
        /\ \A i \in DOMAIN ps : i # k => qs[i] = ps[i]
    OBVIOUS
  <1> HIDE DEF qs
  <1>2. s \in {"mine", None} /\ None # "mine"
    BY CanvasAssumption DEF Fair
  <1>3. HasRead(ps[k]) => ps[k].session = "mine"
    BY DEF Fair
  <1>4. HasRead(p) => p.session = "mine"
    BY <1>2, <1>3 DEF HasRead
  <1>5. t \in {"mine", None} /\ (t = "mine" => s = "mine" /\ p.step # "ok")
    BY <1>2, <1>3
  <1>6. Over(ps[k]) => Over(p) /\ p.lost
    BY DEF Over
  <1>7. \A i \in DOMAIN qs : HasRead(qs[i]) => qs[i].session = "mine"
    BY <1>1, <1>4 DEF Fair
  <1>8. t = "mine" => \A i \in DOMAIN qs : qs[i].step # "ok"
    BY <1>1, <1>5 DEF Fair
  <1>9. \A i, j \in DOMAIN qs : i < j => Over(qs[i])
    BY <1>1, <1>6 DEF Fair
  <1>10. ASSUME NEW i \in DOMAIN qs, NEW j \in DOMAIN qs, i < j, HasRead(qs[j])
         PROVE  qs[i].lost \/ qs[i].step # "ok"
    <2>1. Over(ps[i])
      BY <1>1, <1>10 DEF Fair
    <2>2. CASE i = k
      BY <1>1, <1>6, <2>1, <2>2
    <2>3. CASE i # k /\ j # k
      BY <1>1, <1>10, <2>3 DEF Fair
    <2>4. CASE i # k /\ j = k /\ HasRead(ps[k])
      BY <1>1, <1>10, <2>4 DEF Fair
    <2>5. CASE i # k /\ j = k /\ ~HasRead(ps[k])
      <3>1. p.step = "read" /\ s # None
        BY <1>1, <1>10, <2>5 DEF HasRead
      <3>2. s = "mine"
        BY <1>2, <3>1
      <3>3. QED
        BY <1>1, <2>5, <3>2 DEF Fair
    <2>6. QED
      BY <2>2, <2>3, <2>4, <2>5
  <1>11. Fair(qs, t)
    BY <1>5, <1>7, <1>8, <1>9, <1>10 DEF Fair
  <1>12. AllOver(ps) => AllOver(qs)
    BY <1>1, <1>6 DEF AllOver
  <1>13. QED
    BY <1>11, <1>12 DEF qs

\* The last submission, when the page no longer waits for it.
LEMMA FairLost ==
  ASSUME NEW s, NEW ps \in Seq(Post), ps # <<>>, Fair(ps, s), NEW p \in Post, Over(p),
         p.step = ps[Len(ps)].step, p.session = ps[Len(ps)].session
  PROVE  Fair([ps EXCEPT ![Len(ps)] = p], s) /\ AllOver([ps EXCEPT ![Len(ps)] = p])
  <1> DEFINE k == Len(ps)
             qs == [ps EXCEPT ![k] = p]
  <1>1. Len(ps) \in Nat /\ DOMAIN ps = 1..Len(ps) /\ Len(ps) # 0
    BY EmptySeq
  <1>2. /\ k \in DOMAIN ps /\ k \in Nat
        /\ \A i \in DOMAIN ps : i # k => i < k
        /\ \A i, j \in DOMAIN ps : i < j => i # k
    BY <1>1
  <1>3. /\ DOMAIN qs = DOMAIN ps /\ qs[k] = p
        /\ \A i \in DOMAIN ps : i # k => qs[i] = ps[i]
    BY <1>2
  <1>4. p.step = ps[k].step /\ p.session = ps[k].session
    OBVIOUS
  <1> HIDE DEF k, qs
  <1>5. AllOver(qs)
    BY <1>2, <1>3 DEF AllOver, Fair
  <1>6. \A i \in DOMAIN qs : qs[i].step = ps[i].step /\ qs[i].session = ps[i].session
    BY <1>3, <1>4
  <1>7. \A i \in DOMAIN qs : HasRead(qs[i]) <=> HasRead(ps[i])
    BY <1>6 DEF HasRead
  <1>8. ASSUME NEW i \in DOMAIN qs, NEW j \in DOMAIN qs, i < j, HasRead(qs[j])
        PROVE  qs[i].lost \/ qs[i].step # "ok"
    <2>1. qs[i] = ps[i] /\ HasRead(ps[j])
      BY <1>2, <1>3, <1>7, <1>8
    <2>2. QED
      BY <1>3, <1>8, <2>1 DEF Fair
  <1>9. Fair(qs, s)
    BY <1>3, <1>5, <1>6, <1>7, <1>8 DEF Fair, AllOver
  <1>10. QED
    BY <1>5, <1>9 DEF qs, k

\* The types of what the requests use, and what is left to show of them.
LEMMA RequestTypes ==
  ASSUME TypeOK, Next
  PROVE  /\ upload \in Upload /\ timeout \in {"none", "sent", "ok"}
         /\ session \in {"mine", "other", None} /\ posts \in Seq(Post) /\ RestOK
         /\ Pictures' = Pictures
         /\ NoUpload \in Upload /\ NoUpload.step = "none"
         /\ \/ ~(/\ upload' \in Upload /\ timeout' \in {"none", "sent", "ok"}
                 /\ session' \in {"mine", "other", None} /\ posts' \in Seq(Post))
            \/ NetworkOK'
  <1>1. Pictures' = Pictures
    BY WorldStays
  <1>2. NoUpload \in Upload /\ NoUpload.step = "none"
    BY DEF NoUpload, Upload, Pictures
  <1> HIDE DEF Pictures
  <1>3. /\ upload \in Upload /\ timeout \in {"none", "sent", "ok"}
        /\ session \in {"mine", "other", None} /\ posts \in Seq(Post) /\ RestOK
    BY DEF TypeOK, NetworkOK, RestOK
  <1>4. \/ ~(/\ upload' \in Upload /\ timeout' \in {"none", "sent", "ok"}
             /\ session' \in {"mine", "other", None} /\ posts' \in Seq(Post))
        \/ NetworkOK'
    <2>1. Upload' = Upload
      BY <1>1 DEF Upload
    <2>2. Post' = Post
      BY DEF Post, Steps
    <2> HIDE DEF Upload, Post
    <2>3. QED
      BY <2>1, <2>2 DEF NetworkOK
  <1>5. QED
    BY <1>1, <1>2, <1>3, <1>4

\* Submit is pressed.
LEMMA PressRest ==
  ASSUME TypeOK, RequestInv, Next, press_submit
  PROVE  NetworkOK' /\ RestOK' /\ RequestInv'
  <1>1. /\ submit /\ page = "open"
        /\ UNCHANGED <<timeout, session, posts, timer, page>>
    BY DEF press_submit
  <1>2. Pictures' = Pictures /\ ButtonInv
    BY WorldStays DEF RequestInv
  <1>3. /\ upload' \in Upload /\ submitting' \in BOOLEAN /\ disabled' \in BOOLEAN
        /\ strokes' = strokes /\ told' \in {None, "empty", "unreadable", "refused", "network"}
        /\ ButtonInv'
        /\ upload' = upload \/ (upload.step = "none" /\ upload'.step = "blob")
    BY <1>1, <1>2, SubmitFacts
  <1>4. NetworkOK'
    <2> HIDE DEF Upload, Post
    <2>1. QED
      BY <1>1, <1>3, RequestTypes
  <1>5. RestOK'
    BY <1>1, <1>3 DEF TypeOK, RestOK
  <1>6. WaitInv'
    BY <1>1, <1>3 DEF RequestInv, WaitInv
  <1>7. StoreInv'
    BY <1>1, <1>3 DEF RequestInv, StoreInv
  <1>8. QED
    BY <1>3, <1>4, <1>5, <1>6, <1>7 DEF RequestInv

\* The blob of the canvas is there, or cannot be had.
LEMMA BlobRest ==
  ASSUME TypeOK, RequestInv, Next, blob
  PROVE  NetworkOK' /\ RestOK' /\ RequestInv'
  <1> DEFINE sent == [upload EXCEPT !.step = "sent"]
             isEmpty == (strokes = 0)
             isBlank == (upload.picture = {})
             p == [step |-> "sent", empty |-> isEmpty, blank |-> isBlank, session |-> None, lost |-> FALSE]
  <1>1. /\ upload \in Upload /\ posts \in Seq(Post) /\ RestOK /\ NoUpload \in Upload
        /\ NoUpload.step = "none" /\ timeout \in {"none", "sent", "ok"}
        /\ session \in {"mine", "other", None}
    BY RequestTypes
  <1>2. /\ page = "open" /\ upload.step = "blob"
        /\ UNCHANGED <<timeout, session, timer, page, strokes>>
        /\ \/ /\ upload' = NoUpload /\ submitting' = FALSE /\ told' = "unreadable"
              /\ disabled' = (strokes = 0 \/ FALSE) /\ posts' = posts
           \/ /\ upload' = sent /\ posts' = Append(posts, p)
              /\ UNCHANGED <<submitting, told, disabled>>
    BY DEF blob, Failed, Count
  <1>3. sent \in Upload /\ sent.step = "sent"
    BY <1>1 DEF Upload
  <1>4. p \in Post /\ p.step = "sent"
    <2>1. isEmpty \in BOOLEAN /\ isBlank \in BOOLEAN
      OBVIOUS
    <2> HIDE DEF isEmpty, isBlank
    <2>2. QED
      BY <2>1 DEF Post, Steps
  <1> HIDE DEF sent, p
  <1>5. submitting /\ disabled /\ page = "open"
    BY <1>2 DEF RequestInv, ButtonInv
  <1>6. timer # "expired" => Fair(posts, session) /\ AllOver(posts)
    BY <1>2 DEF RequestInv, StoreInv
  <1> HIDE DEF Upload, Post, NoUpload
  <1>7. CASE upload' = NoUpload /\ submitting' = FALSE /\ told' = "unreadable"
             /\ disabled' = (strokes = 0 \/ FALSE) /\ posts' = posts
    <2>1. NetworkOK'
      BY <1>1, <1>2, <1>7, RequestTypes
    <2>2. RestOK'
      BY <1>1, <1>2, <1>7 DEF RestOK
    <2>3. ButtonInv'
      BY <1>1, <1>2, <1>7 DEF ButtonInv
    <2>4. WaitInv' /\ StoreInv'
      BY <1>1, <1>2, <1>6, <1>7 DEF RequestInv, WaitInv, StoreInv
    <2>5. QED
      BY <2>1, <2>2, <2>3, <2>4 DEF RequestInv
  <1>8. CASE upload' = sent /\ posts' = Append(posts, p) /\ UNCHANGED <<submitting, told, disabled>>
    <2>1. posts' \in Seq(Post)
      BY <1>1, <1>4, <1>8, AppendProperties
    <2>2. NetworkOK'
      BY <1>1, <1>2, <1>3, <1>8, <2>1, RequestTypes
    <2>3. RestOK'
      BY <1>1, <1>2, <1>8 DEF RestOK
    <2>4. ButtonInv'
      BY <1>2, <1>3, <1>5, <1>8 DEF ButtonInv
    <2>5. posts' # <<>>
      BY <1>1, <1>4, <1>8, AppendProperties, EmptySeq
    <2>6. timer # "expired" => Fair(posts', session')
      <3>1. ASSUME timer # "expired"
            PROVE  Fair(Append(posts, p), session)
        BY <1>1, <1>4, <1>6, <3>1, FairAppend
      <3>2. QED
        BY <1>2, <1>8, <3>1
    <2>7. StoreInv'
      BY <1>2, <1>3, <1>8, <2>6 DEF RequestInv, StoreInv
    <2>8. QED
      BY <2>2, <2>3, <2>4, <2>5, <2>7 DEF RequestInv, WaitInv
  <1>9. QED
    BY <1>2, <1>7, <1>8

\* The page no longer waits: there is an answer, or it gives up.
LEMMA AnswerRest ==
  ASSUME TypeOK, RequestInv, Next, answer
  PROVE  NetworkOK' /\ RestOK' /\ RequestInv'
  <1> DEFINE last == Len(posts)
             given == last \in AtWork
             p == [posts[last] EXCEPT !.lost = given]
  <1>1. /\ posts \in Seq(Post) /\ RestOK /\ NoUpload \in Upload /\ NoUpload.step = "none"
        /\ timeout \in {"none", "sent", "ok"} /\ session \in {"mine", "other", None}
    BY RequestTypes
  <1>2. /\ page = "open" /\ upload.step = "sent" /\ upload' = NoUpload
        /\ UNCHANGED <<timeout, session, timer, strokes>>
        /\ \/ /\ posts[last].step \in {"ok", "refused"} /\ posts' = posts
           \/ posts' = [posts EXCEPT ![last] = p]
        /\ \/ page' = "left" /\ UNCHANGED <<submitting, told, disabled>>
           \/ /\ page' = page /\ submitting' = FALSE /\ told' \in {"refused", "network"}
              /\ disabled' = (strokes = 0 \/ FALSE)
    BY DEF answer, Failed, Count
  <1>3. /\ posts # <<>> /\ last \in DOMAIN posts /\ posts[last] \in Post
        /\ \A i \in DOMAIN posts : i # last => i < last
    <2>1. posts # <<>>
      BY <1>2 DEF RequestInv, WaitInv
    <2>2. QED
      BY <1>1, <2>1, EmptySeq
  <1>4. p \in Post /\ p.lost = given /\ p.step = posts[last].step /\ p.session = posts[last].session
    <2>1. given \in BOOLEAN
      OBVIOUS
    <2> HIDE DEF given
    <2>2. QED
      BY <1>3, <2>1 DEF Post
  <1>5. Over(p)
    BY <1>3, <1>4 DEF Over, AtWork, Post, Steps
  <1> HIDE DEF p, last, Upload, NoUpload
  <1>6. posts' \in Seq(Post) /\ posts' # <<>>
    BY <1>1, <1>2, <1>3, <1>4
  <1>7. NetworkOK'
    <2> HIDE DEF Post
    <2>1. QED
      BY <1>1, <1>2, <1>6, RequestTypes
  <1>8. RestOK'
    BY <1>1, <1>2 DEF RestOK
  <1>9. ButtonInv'
    <2>1. CASE page' = "left" /\ UNCHANGED <<submitting, disabled>>
      BY <1>2, <2>1 DEF RequestInv, ButtonInv
    <2>2. CASE submitting' = FALSE /\ disabled' = (strokes = 0 \/ FALSE)
      BY <1>1, <1>2, <2>2 DEF ButtonInv
    <2>3. QED
      BY <1>2, <2>1, <2>2
  <1>10. ASSUME timer # "expired"
         PROVE  Fair(posts', session') /\ AllOver(posts')
    <2>1. Fair(posts, session)
      BY <1>10 DEF RequestInv, StoreInv
    <2>2. CASE posts[last].step \in {"ok", "refused"} /\ posts' = posts
      <3>1. \A i \in DOMAIN posts : Over(posts[i])
        BY <1>3, <2>1, <2>2 DEF Fair, Over
      <3>2. QED
        BY <1>2, <2>1, <2>2, <3>1 DEF AllOver
    <2>3. CASE posts' = [posts EXCEPT ![last] = p]
      <3>1. /\ Fair([posts EXCEPT ![last] = p], session)
            /\ AllOver([posts EXCEPT ![last] = p])
        BY <1>1, <1>3, <1>4, <1>5, <2>1, FairLost DEF last
      <3>2. QED
        BY <1>2, <2>3, <3>1
    <2>4. QED
      BY <1>2, <2>2, <2>3
  <1>11. WaitInv' /\ StoreInv'
    BY <1>1, <1>2, <1>10 DEF RequestInv, WaitInv, StoreInv
  <1>12. QED
    BY <1>7, <1>8, <1>9, <1>11 DEF RequestInv

\* What a step of the server does to a submission and to the session.
LEMMA ServerFacts ==
  ASSUME TypeOK, Next, NEW i \in DOMAIN posts,
         read_session(i) \/ create_submission(i) \/ commit(i)
  PROVE  /\ UNCHANGED <<strokes, submitting, disabled, upload, timeout, timer, page, told>>
         /\ posts[i].step \in {"sent", "read", "stored"}
         /\ \E p \in Post :
              /\ posts' = [posts EXCEPT ![i] = p] /\ p.lost = posts[i].lost
              /\ \/ p.step = "refused" /\ session' = session
                 \/ p.step = "read" /\ p.session = session /\ session # None /\ session' = session
                 \/ /\ p.step \in {"stored", "torn"} /\ HasRead(posts[i])
                    /\ p.session = posts[i].session /\ session' = session
                 \/ /\ p.step = "ok" /\ HasRead(posts[i]) /\ p.session = posts[i].session
                    /\ session' = IF session = p.session THEN None ELSE session
  <1>1. posts \in Seq(Post) /\ posts[i] \in Post /\ session \in {"mine", "other", None}
    BY RequestTypes
  <1>2. UNCHANGED <<strokes, submitting, disabled, upload, timeout, timer, page, told>>
    BY DEF read_session, create_submission, commit, page_vars
  <1>3. posts[i].step \in {"sent", "read", "stored"}
    BY DEF read_session, create_submission, commit
  <1>4. ASSUME NEW step \in Steps
        PROVE  /\ [posts[i] EXCEPT !.step = step] \in Post
               /\ [posts[i] EXCEPT !.step = step].step = step
               /\ [posts[i] EXCEPT !.step = step].session = posts[i].session
               /\ [posts[i] EXCEPT !.step = step].lost = posts[i].lost
    BY <1>1 DEF Post
  <1>5. ASSUME NEW step, Goto(i, step)
        PROVE  posts' = [posts EXCEPT ![i] = [posts[i] EXCEPT !.step = step]]
    BY <1>5 DEF Goto
  <1>6. CASE read_session(i)
    <2> DEFINE p == [posts[i] EXCEPT !.step = "read", !.session = session]
               q == [posts[i] EXCEPT !.step = "refused"]
    <2>1. /\ session' = session
          /\ \/ Goto(i, "refused")
             \/ session # None /\ posts' = [posts EXCEPT ![i] = p]
      BY <1>6 DEF read_session
    <2>2. p \in Post /\ p.step = "read" /\ p.session = session /\ p.lost = posts[i].lost
      BY <1>1 DEF Post, Steps
    <2>3. q \in Post /\ q.step = "refused" /\ q.lost = posts[i].lost
      BY <1>4 DEF Steps
    <2>4. Goto(i, "refused") => posts' = [posts EXCEPT ![i] = q]
      BY <1>5
    <2> HIDE DEF p, q
    <2>5. QED
      BY <1>2, <1>3, <2>1, <2>2, <2>3, <2>4
  <1>7. CASE create_submission(i)
    <2>1. PICK step \in {"refused", "stored"} : Goto(i, step)
      BY <1>7 DEF create_submission
    <2>2. posts[i].step = "read" /\ session' = session
      BY <1>7 DEF create_submission
    <2> DEFINE p == [posts[i] EXCEPT !.step = step]
    <2>3. /\ p \in Post /\ p.step = step /\ p.session = posts[i].session /\ p.lost = posts[i].lost
      BY <1>4 DEF Steps
    <2>4. posts' = [posts EXCEPT ![i] = p]
      BY <1>5, <2>1
    <2> HIDE DEF p
    <2>5. HasRead(posts[i])
      BY <2>2 DEF HasRead
    <2>6. QED
      BY <1>2, <1>3, <2>2, <2>3, <2>4, <2>5
  <1>8. CASE commit(i)
    <2>1. PICK step \in {"ok", "torn"} :
            /\ Goto(i, step)
            /\ session' = IF step = "ok" /\ session = posts[i].session THEN None ELSE session
      BY <1>8 DEF commit
    <2> DEFINE p == [posts[i] EXCEPT !.step = step]
    <2>2. /\ p \in Post /\ p.step = step /\ p.session = posts[i].session /\ p.lost = posts[i].lost
      BY <1>4 DEF Steps
    <2>3. posts' = [posts EXCEPT ![i] = p]
      BY <1>5, <2>1
    <2> HIDE DEF p
    <2>4. HasRead(posts[i])
      BY <1>8 DEF commit, HasRead
    <2>5. QED
      BY <1>2, <1>3, <2>1, <2>2, <2>3, <2>4
  <1>9. QED
    BY <1>6, <1>7, <1>8

\* The server takes a submission a step further.
LEMMA ServerRest ==
  ASSUME TypeOK, RequestInv, Next, NEW i \in DOMAIN posts,
         read_session(i) \/ create_submission(i) \/ commit(i)
  PROVE  NetworkOK' /\ RestOK' /\ RequestInv'
  <1>1. /\ upload \in Upload /\ posts \in Seq(Post) /\ RestOK
        /\ timeout \in {"none", "sent", "ok"} /\ session \in {"mine", "other", None}
    BY RequestTypes
  <1>2. /\ UNCHANGED <<strokes, submitting, disabled, upload, timeout, timer, page, told>>
        /\ posts[i].step \in {"sent", "read", "stored"}
    BY ServerFacts
  <1>3. PICK p \in Post :
          /\ posts' = [posts EXCEPT ![i] = p] /\ p.lost = posts[i].lost
          /\ \/ p.step = "refused" /\ session' = session
             \/ p.step = "read" /\ p.session = session /\ session # None /\ session' = session
             \/ /\ p.step \in {"stored", "torn"} /\ HasRead(posts[i])
                /\ p.session = posts[i].session /\ session' = session
             \/ /\ p.step = "ok" /\ HasRead(posts[i]) /\ p.session = posts[i].session
                /\ session' = IF session = p.session THEN None ELSE session
    BY ServerFacts
  <1>4. posts' \in Seq(Post) /\ posts' # <<>>
    BY <1>1, <1>3
  <1>5. session' \in {"mine", "other", None}
    BY <1>1, <1>3
  <1> HIDE DEF Upload, Post
  <1>6. NetworkOK'
    BY <1>1, <1>2, <1>4, <1>5, RequestTypes
  <1>7. RestOK'
    BY <1>1, <1>2 DEF RestOK
  <1>8. ButtonInv'
    BY <1>2 DEF RequestInv, ButtonInv
  <1>9. ASSUME timer # "expired"
        PROVE  Fair(posts', session') /\ (AllOver(posts) => AllOver(posts'))
    <2>1. Fair(posts, session)
      BY <1>9 DEF RequestInv, StoreInv
    <2>2. /\ Fair([posts EXCEPT ![i] = p], session')
          /\ AllOver(posts) => AllOver([posts EXCEPT ![i] = p])
      BY <1>1, <1>2, <1>3, <2>1, FairStep
    <2>3. QED
      BY <1>3, <2>2
  <1>10. WaitInv' /\ StoreInv'
    BY <1>2, <1>4, <1>9 DEF RequestInv, WaitInv, StoreInv
  <1>11. QED
    BY <1>6, <1>7, <1>8, <1>10 DEF RequestInv

\* The timer runs out, or its request is served or answered.
LEMMA TimerRest ==
  ASSUME TypeOK, RequestInv, Next, expire \/ serve_timeout \/ timeout_answer
  PROVE  NetworkOK' /\ RestOK' /\ RequestInv'
  <1>1. /\ upload \in Upload /\ posts \in Seq(Post) /\ RestOK /\ Pictures' = Pictures
        /\ timeout \in {"none", "sent", "ok"} /\ session \in {"mine", "other", None}
    BY RequestTypes
  <1>2. ButtonInv /\ WaitInv /\ StoreInv
    BY DEF RequestInv
  <1>3. CASE expire
    <2>1. /\ page = "open" /\ page' = page /\ timer' = "expired"
          /\ UNCHANGED <<session, posts>>
          /\ \/ submit /\ UNCHANGED timeout
             \/ timeout' = "sent" /\ UNCHANGED <<submitting, disabled, upload, told, strokes>>
      BY <1>3 DEF expire
    <2>2. /\ upload' \in Upload /\ submitting' \in BOOLEAN /\ disabled' \in BOOLEAN
          /\ strokes' = strokes /\ told' \in {None, "empty", "unreadable", "refused", "network"}
          /\ ButtonInv'
          /\ upload' = upload \/ (upload.step = "none" /\ upload'.step = "blob")
      <3>1. CASE submit
        BY <1>1, <1>2, <2>1, <3>1, SubmitFacts
      <3>2. CASE UNCHANGED <<submitting, disabled, upload, told, strokes>>
        <4> HIDE DEF Upload
        <4>1. ButtonInv'
          BY <1>2, <2>1, <3>2 DEF ButtonInv
        <4>2. QED
          BY <1>1, <3>2, <4>1 DEF RestOK
      <3>3. QED
        BY <2>1, <3>1, <3>2
    <2> HIDE DEF Upload, Post
    <2>3. NetworkOK'
      BY <1>1, <2>1, <2>2, RequestTypes
    <2>4. RestOK'
      BY <1>1, <2>1, <2>2 DEF RestOK
    <2>5. WaitInv' /\ StoreInv'
      BY <1>2, <2>1, <2>2 DEF WaitInv, StoreInv
    <2>6. QED
      BY <2>2, <2>3, <2>4, <2>5 DEF RequestInv
  <1>4. CASE serve_timeout \/ timeout_answer
    <2>1. /\ timeout # "none"
          /\ UNCHANGED <<strokes, submitting, disabled, upload, posts, timer, told>>
          /\ \/ timeout' = "ok" /\ session' = "other" /\ page' = page
             \/ timeout' = "none" /\ session' = session /\ page' = "left"
      BY <1>4 DEF serve_timeout, timeout_answer
    <2> HIDE DEF Upload, Post
    <2>2. NetworkOK'
      BY <1>1, <2>1, RequestTypes
    <2>3. RestOK'
      BY <1>1, <2>1 DEF RestOK
    <2>4. ButtonInv' /\ WaitInv' /\ StoreInv'
      BY <1>2, <2>1 DEF ButtonInv, WaitInv, StoreInv
    <2>5. QED
      BY <2>2, <2>3, <2>4 DEF RequestInv
  <1>5. QED
    BY <1>3, <1>4

\* So the steps of the requests and of the timer keep the invariants.
LEMMA RequestsRest ==
  ASSUME TypeOK, RequestInv, Next,
         \/ press_submit \/ blob \/ answer
         \/ \E i \in DOMAIN posts : read_session(i) \/ create_submission(i) \/ commit(i)
         \/ expire \/ serve_timeout \/ timeout_answer
  PROVE  NetworkOK' /\ RestOK' /\ RequestInv'
  BY PressRest, BlobRest, AnswerRest, ServerRest, TimerRest, Zenon

-----------------------------------------------------------------------------
(* The theorems.                                                           *)

Inv == TypeOK /\ EditorInv /\ RequestInv

\* Every behaviour starts with an empty canvas, an open session and nothing sent.
LEMMA InvInit ==
  ASSUME Init
  PROVE  Inv
  <1>1. {} \in Pictures /\ <<>> \in Seq(Pictures)
    BY DEF Pictures
  <1>2. EditorOK
    BY <1>1 DEF Init, EditorOK
  <1>3. NoUpload \in Upload /\ NoUpload.step = "none"
    BY <1>1 DEF NoUpload, Upload
  <1>4. NetworkOK
    BY <1>3 DEF Init, NetworkOK
  <1>5. TypeOK
    BY <1>2, <1>4 DEF Init, TypeOK
  <1>6. DepthInv /\ CalmInv /\ EmptyInv
    BY CanvasAssumption DEF Init, DepthInv, CalmInv, EmptyInv
  <1>7. ButtonInv
    BY <1>3 DEF Init, ButtonInv
  <1>8. WaitInv /\ StoreInv
    <2>1. posts = <<>> /\ DOMAIN <<>> = {} /\ session = "mine" /\ timeout = "none"
      BY DEF Init
    <2>2. Fair(posts, session) /\ AllOver(posts)
      BY <2>1 DEF Fair, AllOver
    <2>3. QED
      BY <1>3, <2>1, <2>2 DEF Init, WaitInv, StoreInv
  <1>9. QED
    BY <1>2, <1>5, <1>6, <1>7, <1>8 DEF Inv, EditorInv, RequestInv

\* Every step keeps the invariant, and the history as promised.
LEMMA InvNext ==
  ASSUME Inv, Next
  PROVE  Inv' /\ Promised
  <1>1. TypeOK /\ EditorInv /\ RequestInv
    BY DEF Inv
  <1>2. EditorInv' /\ Promised
    BY <1>1, EditorNext
  <1>3. NetworkOK' /\ RestOK' /\ RequestInv'
    <2>1. CASE \/ press_submit \/ blob \/ answer
               \/ \E i \in DOMAIN posts : read_session(i) \/ create_submission(i) \/ commit(i)
               \/ expire \/ serve_timeout \/ timeout_answer
      BY <1>1, <2>1, RequestsRest, Zenon
    <2>2. CASE \/ undo \/ redo \/ onload
               \/ \E stroke \in Strokes : beginStroke(stroke)
               \/ extendStroke \/ endStroke
               \/ \E mark \in Marks : floodFill(mark)
               \/ clear
      BY <1>1, <2>2, EditingRest, Zenon
    <2>3. QED
      BY <2>1, <2>2, Zenon DEF Next
  <1>4. world' \in Worlds
    BY <1>1, WorldStays DEF TypeOK
  <1>5. TypeOK'
    BY <1>2, <1>3, <1>4 DEF TypeOK, RestOK, EditorInv
  <1>6. QED
    BY <1>2, <1>3, <1>5 DEF Inv

\* A step that changes nothing keeps the invariant.
LEMMA InvStutters ==
  ASSUME Inv, UNCHANGED vars
  PROVE  Inv'
  <1>1. /\ UNCHANGED <<world, canvas, drawing, undos, redos, loading, hurried, revived>>
        /\ UNCHANGED <<strokes, submitting, disabled, upload, timeout, session, posts>>
        /\ UNCHANGED <<timer, page, told>>
    BY DEF vars, editor, network
  <1>2. Pictures' = Pictures /\ Strokes' = Strokes
    BY <1>1 DEF Pictures, Strokes, Marks
  <1> HIDE DEF Pictures, Strokes
  <1>3. EditorOK' /\ NetworkOK'
    BY <1>1, <1>2 DEF Inv, TypeOK, EditorOK, NetworkOK, Upload, Post
  <1>4. DepthInv' /\ CalmInv' /\ EmptyInv'
    BY <1>1 DEF Inv, EditorInv, DepthInv, CalmInv, EmptyInv
  <1>5. RequestInv'
    BY <1>1 DEF Inv, RequestInv, ButtonInv, WaitInv, StoreInv
  <1>6. TypeOK'
    BY <1>1, <1>3 DEF Inv, TypeOK
  <1>7. QED
    BY <1>3, <1>4, <1>5, <1>6 DEF Inv, EditorInv

\* The page is always in a state the invariant describes: its variables have
\* their types, the history has a bounded length, the button follows the strokes
\* and the submission; and until time is up the session is that of the page or
\* closed, closed once a submission has succeeded, every submission that got as
\* far has read that session, and none but the last is at work unless the page
\* gave it up.
THEOREM Sound == Spec => []Inv
  <1>1. Init => Inv
    BY InvInit
  <1>2. Inv /\ [Next]_vars => Inv'
    BY InvNext, InvStutters
  <1>3. QED
    BY <1>1, <1>2, PTL DEF Spec

\* While no submission is at work the button can be pressed exactly if there are
\* strokes, whatever toBlob, the server and the network did to the last one
\* (updateStrokeState and the early returns of submit, draw.js).
THEOREM ButtonUsable == Spec => []NotLockedOut
  <1>1. Inv => NotLockedOut
    BY DEF Inv, TypeOK, RequestInv, ButtonInv, NotLockedOut
  <1>2. QED
    BY <1>1, Sound, PTL

\* Until time is up two pictures of one page are stored only if the page had
\* given up the earlier one while the server was at work on it (the catch of
\* submit, draw.js:422-427), or the server had committed its row and not its
\* session (submissions.py:66, then get_db); and every picture is stored for the
\* session of the page.  So a player whose answers arrive and whose commits
\* succeed stores one picture, however often Submit is pressed.
THEOREM StoresOnePicture == Spec => []StoredOnce
  <1>1. ASSUME Inv, timer # "expired"
        PROVE  /\ \A i \in Stored : posts[i].session = "mine"
               /\ \A i, j \in Stored : i < j => posts[i].lost \/ posts[i].step = "torn"
    <2>1. Fair(posts, session)
      BY <1>1 DEF Inv, RequestInv, StoreInv
    <2>2. ASSUME NEW i \in Stored
          PROVE  i \in DOMAIN posts /\ HasRead(posts[i])
                 /\ posts[i].step \in {"stored", "ok", "torn"}
      BY DEF Stored, HasRead
    <2>3. \A i \in Stored : posts[i].session = "mine"
      BY <2>1, <2>2 DEF Fair
    <2>4. ASSUME NEW i \in Stored, NEW j \in Stored, i < j
          PROVE  posts[i].lost \/ posts[i].step = "torn"
      <3>1. Over(posts[i]) /\ (posts[i].lost \/ posts[i].step # "ok")
        BY <2>1, <2>2, <2>4 DEF Fair
      <3>2. QED
        BY <2>2, <3>1 DEF Over
    <2>5. QED
      BY <2>3, <2>4
  <1>2. Inv => StoredOnce
    BY <1>1 DEF StoredOnce
  <1>3. QED
    BY <1>2, Sound, PTL

\* When time runs out on an uncounted canvas, the canvas is empty, but for the
\* stroke in progress and for pictures that Undo or Redo brought back.
THEOREM NothingDiscarded == Spec => DiscardsOnlyEmpty
  <1>1. ASSUME Inv, [Next]_vars
        PROVE  [timeout = "none" /\ timeout' = "sent" => canvas = {} \/ drawing # None \/ revived]_vars
    <2>1. SUFFICES ASSUME timeout = "none", timeout' = "sent"
                   PROVE  canvas = {} \/ drawing # None \/ revived
      OBVIOUS
    <2>2. Next
      BY <1>1, <2>1 DEF vars, network
    <2>3. strokes = 0
      BY <2>1, <2>2 DEF Next, undo, redo, restore, onload, beginStroke, extendStroke, endStroke,
           floodFill, clear, press_submit, blob, answer, read_session, create_submission, commit,
           page_vars, expire, serve_timeout, timeout_answer, network
    <2>4. EmptyInv
      BY <1>1 DEF Inv, EditorInv
    <2>5. QED
      BY <2>3, <2>4 DEF EmptyInv
  <1>2. QED
    BY <1>1, Sound, PTL DEF Spec, DiscardsOnlyEmpty

\* A player who waits for pictures to load, and does not undo during a stroke,
\* has the history that UndoHistory promises: the page's two stacks implement it
\* step by step, with the picture to be seen as its present.
THEOREM ImplementsUndoHistory == Spec => HistoryKept
  <1>1. ASSUME Init
        PROVE  Editor!Init
    BY <1>1 DEF Init, Editor!Init, Visible
  <1>2. ASSUME Inv, [Next]_vars
        PROVE  [hurried' \/ Editor!Next]_(Editor!vars)
    <2>1. CASE Next
      <3>1. Promised
        BY <1>2, <2>1, InvNext
      <3>2. QED
        BY <3>1 DEF Promised, Editor!vars
    <2>2. CASE UNCHANGED vars
      BY <2>2 DEF vars, editor, Editor!vars, Visible
    <2>3. QED
      BY <1>2, <2>1, <2>2
  <1>3. QED
    BY <1>1, <1>2, Sound, PTL DEF Spec, HistoryKept

=============================================================================
