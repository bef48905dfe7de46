---------------------------- MODULE UndoHistory ----------------------------
(***************************************************************************)
(* What Undo and Redo promise: the pictures the player has seen, in order, *)
(* a bounded number of them, and no other picture ever on the canvas.      *)
(***************************************************************************)
EXTENDS Integers, SequencesExt

CONSTANTS
    Blank,     \* the empty canvas
    Depth      \* pictures that are remembered

VARIABLES
    past,      \* the pictures before the present one, oldest first
    present,
    future     \* the pictures that were undone, the next one last

vars == <<past, present, future>>

Init ==
    /\ past = <<>>
    /\ present = Blank
    /\ future = <<>>

Newest(pictures) == SubSeq(pictures, Len(pictures) - Min({Depth, Len(pictures)}) + 1, Len(pictures))

\* A new picture forgets the future, and the oldest of too long a past.
Edit ==
    /\ past' = Newest(Append(past, present))
    /\ future' = <<>>

Undo ==
    /\ past # <<>>
    /\ past' = Front(past)
    /\ present' = Last(past)
    /\ future' = Append(future, present)

Redo ==
    /\ future # <<>>
    /\ future' = Front(future)
    /\ present' = Last(future)
    /\ past' = Append(past, present)

Next == Edit \/ Undo \/ Redo

Spec == Init /\ [][Next]_vars

=============================================================================
