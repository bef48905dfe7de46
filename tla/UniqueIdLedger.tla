--------------------------- MODULE UniqueIdLedger ---------------------------
(***************************************************************************)
(* What the rest of the world is promised about uniqueIds (README,         *)
(* "Moderation and the uniqueId lifecycle"): a drawing holds at most one,  *)
(* ids are handed out in increasing order, and one that is given up is     *)
(* never held again.  Moderation implements this specification.            *)
(***************************************************************************)
EXTENDS Integers, FiniteSets, Functions

CONSTANTS
    Drawings,
    MaxId      \* bound on the ids handed out

VARIABLES
    held,  \* the uniqueId each drawing holds, 0 for none
    next   \* the next uniqueId to hand out

ledgerVars == <<held, next>>

Init ==
    /\ held = [d \in Drawings |-> 0]
    /\ next = 1

\* Some drawings that hold nothing get ids nobody ever held: one on approval,
\* any number when an export repairs rows.
Issue(S) ==
    /\ \A d \in S : held[d] = 0
    /\ next + Cardinality(S) <= MaxId + 1
    /\ next' = next + Cardinality(S)
    /\ \E id \in [S -> next..(next + Cardinality(S) - 1)] :
         /\ IsInjective(id)
         /\ held' = [d \in Drawings |-> IF d \in S THEN id[d] ELSE held[d]]

\* A drawing gives its id up, or has none to give.
Retire(d) ==
    /\ held' = [held EXCEPT ![d] = 0]
    /\ UNCHANGED next

Next ==
    \/ \E S \in SUBSET Drawings : Issue(S)
    \/ \E d \in Drawings : Retire(d)

Spec == Init /\ [][Next]_ledgerVars

-----------------------------------------------------------------------------

\* Every drawing holds a number and the next one is positive.
LedgerTypeOK ==
    /\ held \in [Drawings -> Nat]
    /\ next \in Nat \ {0}

\* Every id that is held has been handed out, to one drawing only.
HeldByOne ==
    \A c, d \in Drawings :
        /\ held[c] < next
        /\ held[c] = held[d] => c = d \/ held[c] = 0

Held(id) == \E d \in Drawings : held[d] = id

\* An id that was handed out and is not held will never be held again.
NeverReissued ==
    [][\A id \in 1..(next - 1) : ~Held(id) => ~Held(id)']_ledgerVars

=============================================================================
