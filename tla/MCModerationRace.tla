-------------------------- MODULE MCModerationRace --------------------------
(***************************************************************************)
(* Instances of ModerationRace for TLC.  Drawings, requests and payloads   *)
(* are interchangeable.                                                    *)
(***************************************************************************)
EXTENDS ModerationRace, TLC

Symmetry == Permutations(Drawings) \cup Permutations(Requests) \cup Permutations(Payloads)

AllKinds == {"submit", "approve", "unapprove", "reject", "unreject", "delete", "export"}

\* Any two requests, with and without review.
Anyhow == [kinds |-> AllKinds, payloads |-> {}, approvals |-> BOOLEAN,
           apart |-> FALSE, maxUniqueId |-> 2]

\* Moderators who keep apart, and every drawing reviewed.
Orderly == [kinds |-> AllKinds, payloads |-> Payloads, approvals |-> {TRUE},
            apart |-> TRUE, maxUniqueId |-> 3]

BothWorlds == {Orderly} \cup {[Anyhow EXCEPT !.payloads = {p}] : p \in Payloads}

\* Submissions that are approved at once, next to an export and a moderator.
Unreviewed == {[kinds |-> {"submit", "export", "unapprove"}, payloads |-> Payloads,
                approvals |-> {FALSE}, apart |-> TRUE, maxUniqueId |-> 3]}

=============================================================================
