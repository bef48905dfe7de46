------------------------------ MODULE MCCanvas ------------------------------
(***************************************************************************)
(* Instances of Canvas for TLC.                                            *)
(***************************************************************************)
EXTENDS Canvas

World(submits, marks, maxStrokes, maxLoads, maxPosts) ==
    [submits |-> submits, marks |-> marks, maxStrokes |-> maxStrokes, maxLoads |-> maxLoads,
     maxPosts |-> maxPosts]

\* A player who draws, with pictures that load out of order; one who undoes
\* and redoes until time is up, and has the drawing sent then; and two who press
\* Submit, after some strokes or again and again after one.
Drawing == World(FALSE, {"a", "b"}, 2, 2, 0)
Expiring == World(TRUE, {"a"}, 2, 1, 0)
Submitting == World(TRUE, {"a"}, 2, 0, 1)
Resubmitting == World(TRUE, {"a"}, 1, 0, 2)

AllWorlds == {Drawing, Expiring, Submitting, Resubmitting}

=============================================================================
